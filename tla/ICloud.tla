------------------------------- MODULE ICloud -------------------------------
(***************************************************************************)
(* The iCloud Photos mirror, src/icloud/icloud.go: one process establishes *)
(* a session (the saved one if Apple still takes it, otherwise a sign-in   *)
(* with a second factor), saves it, and walks an album oldest added first  *)
(* by rank, from the rank where the last run stopped.  Every new item in   *)
(* the range of dates is downloaded under a name no other item holds, a    *)
(* Live Photo with its video, and recorded in an index saved after every   *)
(* item and every page.                                                    *)
(*                                                                         *)
(* Paths are those of FileNames; a file's content is <<item, kind>>.       *)
(***************************************************************************)
EXTENDS FileNames, FiniteSets, SequencesExt

CONSTANTS
    Items,      \* ids of the items the album may come to hold
    Names,      \* file names
    NameOf,     \* the decoded file name of each item
    Unpaired,   \* items without a CPLAsset record: listed and left out
    Lives,      \* items that are Live Photos
    VideoName,  \* livePhotoVideoName of each name
    Old,        \* items taken before the narrower of the two ranges
    Deletable,  \* bound: the items of which the user may delete one
    PageSize    \* items on a page (200 in the code)

ItemAssumption ==
    /\ NameOf \in [Items -> Names] /\ VideoName \in [Names -> Names]
    /\ Unpaired \subseteq Items /\ Lives \subseteq Items /\ Old \subseteq Items
    /\ Deletable \subseteq Items /\ PageSize \in Nat \ {0}

VARIABLES
    \* Apple's side
    album,      \* the items of the album by rank
    gone,       \* items deleted from it
    token,      \* what the newest session token stands for
    \* the session directory and the destination directory
    session,    \* the session file
    disk,       \* path -> content, the complete files
    tmp,        \* the paths with a *.icloud-tmp file beside them
    saved,      \* the index file
    \* one run
    pc,         \* what the run is about to do
    jar,        \* whether the cookie jar holds the session's cookie
    memory,     \* c.session and jar.byHost
    index,      \* idx
    used,       \* usedNames
    wide,       \* whether the run's range takes the Old items too
    todo,       \* items left on the page
    size,       \* the number of items parsed from the page
    open,       \* the download in progress, or NoFile
    files,      \* the files of the item in hand
    \* history
    target,     \* the items the album held when the run began
    passed      \* items that some run passed over: out of range, or failed

apple == <<album, gone, token>>
dest  == <<disk, tmp, saved>>
login == <<jar, memory>>
page  == <<wide, todo, size>>
item  == <<open, files>>
hist  == <<target, passed>>
vars  == <<apple, session, dest, pc, login, index, used, page, item, hist>>

NoFile    == <<>>
NoSession == [token |-> "none", trust |-> FALSE, cookie |-> FALSE]
EmptyIndex == [next |-> 0, entries |-> [i \in {} |-> <<>>]]
Current   == Head(todo)

(* The names of a Live Photo's videos left out. *)
BadFilesOf(idx) == {idx.entries[i][1] : i \in DOMAIN idx.entries}

FilesOf(idx) == UNION {Range(idx.entries[i]) : i \in DOMAIN idx.entries}

Entered(idx, i, paths) ==
    [idx EXCEPT !.entries =
        [j \in DOMAIN idx.entries \cup {i} |->
            IF j = i THEN paths ELSE idx.entries[j]]]

(* listPhotosPage: the page at a rank. *)
PageAt(rank) ==
    SubSeq(album, rank + 1, IF rank + PageSize < Len(album) THEN rank + PageSize ELSE Len(album))

(* parsePhotosResponse leaves the unpaired items out: the walk steps over  *)
(* them, and they do not count.                                            *)
Paired(seq) == {k \in DOMAIN seq : seq[k] \notin Unpaired}

InRange(i) == wide \/ i \notin Old

-----------------------------------------------------------------------------
Init ==
    /\ album = <<>> /\ gone = {} /\ token = "none"
    /\ session = NoSession
    /\ disk = [p \in {} |-> NoFile] /\ tmp = {} /\ saved = EmptyIndex
    /\ pc = "idle" /\ jar = FALSE /\ memory = NoSession
    /\ index = EmptyIndex /\ used = {} /\ wide = FALSE /\ todo = <<>> /\ size = 0
    /\ open = NoFile /\ files = <<>> /\ target = {} /\ passed = {}

(* The memory of a run that ended, cleanly or not, is gone. *)
Forget ==
    /\ pc' = "idle" /\ jar' = FALSE /\ memory' = NoSession
    /\ index' = EmptyIndex /\ used' = {} /\ wide' = FALSE /\ todo' = <<>> /\ size' = 0
    /\ open' = NoFile /\ files' = <<>> /\ target' = {}

(* An item is added, by any device, at any time; it gets the last rank. *)
Upload ==
    /\ \E i \in Items \ (Range(album) \cup gone) : album' = Append(album, i)
    /\ UNCHANGED <<gone, token, session, dest, pc, login, index, used, page, item, hist>>

(* The user deletes an item between two runs: those behind it move up. *)
Delete ==
    /\ pc = "idle" /\ gone = {}
    /\ \E k \in DOMAIN album :
          album[k] \in Deletable /\ album' = RemoveAt(album, k) /\ gone' = {album[k]}
    /\ UNCHANGED <<token, session, dest, pc, login, index, used, page, item, hist>>

(* newClient: the session file is read and its cookies put in the jar, but *)
(* not in the record that saveSession exports.                             *)
Start ==
    /\ pc = "idle" /\ pc' = "auth"
    /\ memory' = [session EXCEPT !.cookie = FALSE] /\ jar' = session.cookie
    /\ wide' \in BOOLEAN
    /\ UNCHANGED <<apple, session, dest, index, used, todo, size, item, hist>>

(* authenticate with a saved token: Apple's answer may set the cookie      *)
(* again, and no second factor is asked for.                               *)
Validate ==
    /\ pc = "auth" /\ memory.token # "none"
    /\ \/ /\ memory.token = token /\ jar
          /\ \E set \in BOOLEAN : memory' = [memory EXCEPT !.cookie = set]
          /\ pc' = "save"
       \/ pc' = "signin" /\ memory' = memory
    /\ UNCHANGED <<apple, session, dest, jar, index, used, page, item, hist>>

NoSaved ==
    /\ pc = "auth" /\ memory.token = "none" /\ pc' = "signin"
    /\ UNCHANGED <<apple, session, dest, login, index, used, page, item, hist>>

(* signIn and authWithToken: a token that needs no second factor if the    *)
(* account has none, or Apple accepts the trust token.                     *)
SignIn ==
    /\ pc = "signin"
    /\ jar' = TRUE
    /\ \E challenge \in BOOLEAN :
          /\ token' = IF challenge THEN "fresh" ELSE "verified"
          /\ pc' = IF challenge THEN "code" ELSE "save"
          /\ memory' = [memory EXCEPT !.token = token', !.cookie = TRUE]
    /\ UNCHANGED <<album, gone, session, dest, index, used, page, item, hist>>

(* verify2FA: the code is accepted; unless the browser is trusted already, *)
(* the session is then trusted.                                            *)
Verify ==
    /\ pc = "code" /\ pc' = "save"
    /\ token' = "verified"
    /\ \E trusted \in BOOLEAN :
          /\ trusted => memory.trust
          /\ memory' = [memory EXCEPT !.token = token', !.trust = TRUE]
    /\ UNCHANGED <<album, gone, session, dest, jar, index, used, page, item, hist>>

(* The session is saved through a temporary file; a failure is logged.     *)
(* Then the index is read, temporary files are removed, and the names the  *)
(* index knows are taken.                                                  *)
SaveSession ==
    /\ pc = "save" /\ pc' = "page"
    /\ session' \in {memory, session}
    /\ index' = saved /\ used' = FilesOf(saved) /\ tmp' = {}
    /\ target' = Range(album) \ Unpaired
    /\ UNCHANGED <<apple, disk, saved, login, page, item, passed>>

(* The session saved even if the second factor was refused. *)
BadAbort ==
    /\ pc \in {"signin", "code", "page"} /\ Forget
    /\ session' = memory
    /\ UNCHANGED <<apple, dest, passed>>

(* No password, a refused password or code, a page that cannot be listed.  *)
Abort ==
    /\ pc \in {"signin", "code", "page"} /\ Forget
    /\ UNCHANGED <<apple, session, dest, passed>>

ListPage ==
    /\ pc = "page"
    /\ todo' = PageAt(index.next) /\ size' = Cardinality(Paired(todo'))
    /\ pc' = IF size' = 0 THEN "done" ELSE "item"
    /\ UNCHANGED <<apple, session, dest, login, index, used, wide, item, hist>>

PassOver ==
    /\ pc = "item" /\ todo # <<>> /\ open = NoFile
    /\ Current \in Unpaired \/ ~InRange(Current) \/ Current \in DOMAIN index.entries
    /\ todo' = Tail(todo)
    /\ passed' = IF Current \in Unpaired \/ InRange(Current) THEN passed
                 ELSE passed \cup {Current}
    /\ UNCHANGED <<apple, session, dest, pc, login, index, used, wide, size, item, target>>

(* The item in hand gets its name.  A file that is there already is        *)
(* adopted, and then the item goes without its video.                      *)
Take ==
    /\ pc = "item" /\ todo # <<>> /\ open = NoFile
    /\ Current \notin Unpaired /\ InRange(Current) /\ Current \notin DOMAIN index.entries
    /\ LET q == <<NameOf[Current], <<>>>>
       IN  \E p \in Candidates(q) :
              /\ Resolves(q, p, used)
              /\ used' = used \cup {p}
              /\ IF p \in DOMAIN disk
                 THEN pc' = "record" /\ files' = <<p>> /\ UNCHANGED <<open, tmp>>
                 ELSE open' = p /\ tmp' = tmp \cup {p} /\ UNCHANGED <<pc, files>>
    /\ UNCHANGED <<apple, session, disk, saved, login, index, page, hist>>

TakeVideo ==
    /\ pc = "video" /\ open = NoFile
    /\ LET q == <<VideoName[NameOf[Current]], <<>>>>
       IN  \E p \in Candidates(q) :
              /\ Resolves(q, p, used)
              /\ used' = used \cup {p}
              /\ IF p \in DOMAIN disk
                 THEN /\ pc' = "record" /\ files' = Append(files, p)
                      /\ UNCHANGED <<open, tmp>>
                 ELSE open' = p /\ tmp' = tmp \cup {p} /\ UNCHANGED <<pc, files>>
    /\ UNCHANGED <<apple, session, disk, saved, login, index, page, hist>>

(* writeAtomically: the copy is complete, and the rename makes it final. *)
Commit ==
    /\ open # NoFile
    /\ disk' = [p \in DOMAIN disk \cup {open} |->
                   IF p # open THEN disk[p]
                   ELSE <<Current, IF pc = "item" THEN "original" ELSE "video">>]
    /\ tmp' = tmp \ {open} /\ open' = NoFile /\ files' = Append(files, open)
    /\ pc' = IF pc = "item" /\ Current \in Lives THEN "video" ELSE "record"
    /\ UNCHANGED <<apple, session, saved, login, index, used, page, hist>>

(* The download fails and its temporary file is removed: the item is       *)
(* skipped, or goes without its video.                                     *)
FetchFails ==
    /\ open # NoFile /\ tmp' = tmp \ {open} /\ open' = NoFile
    /\ IF pc = "item"
       THEN todo' = Tail(todo) /\ passed' = passed \cup {Current} /\ pc' = pc
       ELSE pc' = "record" /\ UNCHANGED <<todo, passed>>
    /\ UNCHANGED <<apple, session, disk, saved, login, index, used, wide, size, files, target>>

(* The item is recorded and the index saved; a failure is logged. *)
Record ==
    /\ pc = "record" /\ pc' = "item"
    /\ index' = Entered(index, Current, files)
    /\ saved' \in {index', saved}
    /\ todo' = Tail(todo) /\ files' = <<>>
    /\ UNCHANGED <<apple, session, disk, tmp, login, used, wide, size, open, hist>>

(* The rank moved by a full page. *)
BadPageDone ==
    /\ pc = "item" /\ todo = <<>> /\ pc' = "page"
    /\ index' = [index EXCEPT !.next = @ + PageSize]
    /\ saved' \in {index', saved}
    /\ UNCHANGED <<apple, session, disk, tmp, login, used, page, item, hist>>

(* The rank moves behind the page, whatever became of its items. *)
PageDone ==
    /\ pc = "item" /\ todo = <<>> /\ pc' = "page"
    /\ index' = [index EXCEPT !.next = @ + size]
    /\ saved' \in {index', saved}
    /\ UNCHANGED <<apple, session, disk, tmp, login, used, page, item, hist>>

Finish ==
    /\ pc = "done" /\ Forget
    /\ UNCHANGED <<apple, session, dest, passed>>

(* The process is killed, by a signal or with its daemon. *)
Crash ==
    /\ pc # "idle" /\ Forget
    /\ UNCHANGED <<apple, session, dest, passed>>

Next ==
    \/ Upload \/ Delete \/ Start \/ Validate \/ NoSaved \/ SignIn \/ Verify
    \/ SaveSession \/ Abort \/ ListPage \/ PassOver \/ Take \/ TakeVideo
    \/ Commit \/ FetchFails \/ Record \/ PageDone \/ Finish \/ Crash

Spec == Init /\ [][Next]_vars

-----------------------------------------------------------------------------
(* Type correctness of the album, the files and the run's memory. *)
Sessions == [token : {"none", "fresh", "verified"}, trust : BOOLEAN, cookie : BOOLEAN]

Indexes(idx) ==
    /\ idx.next \in Nat /\ DOMAIN idx.entries \subseteq Items
    /\ \A i \in DOMAIN idx.entries : Len(idx.entries[i]) \in {1, 2}

TypeOK ==
    /\ album \in Seq(Items) /\ session \in Sessions /\ memory \in Sessions
    /\ \A p \in DOMAIN disk : disk[p] \in Items \X {"original", "video"}
    /\ Indexes(saved) /\ Indexes(index)
    /\ todo \in Seq(Items) /\ size \in Nat

(* The listing is read only through a session that passed the second       *)
(* factor, though a saved session is reused without asking for one: what   *)
(* is saved was verified, in this run or an earlier one.                   *)
ListsOnlyVerified == pc \in {"page", "item", "video", "record"} => memory.token = "verified"

(* No two entries of the index name the same file, and every file an entry *)
(* names is on disk, whatever runs were killed: "both files are tracked    *)
(* under the item's one ID and both stay protected from future name        *)
(* collisions".                                                            *)
IndexIsOnDisk ==
    \A idx \in {index, saved} : \A i, j \in DOMAIN idx.entries :
        /\ Range(idx.entries[i]) \subseteq DOMAIN disk
        /\ i # j => Range(idx.entries[i]) \cap Range(idx.entries[j]) = {}

(* As long as nothing is deleted from the album, the rank where the next   *)
(* run will begin is behind no item that is neither in the index nor was   *)
(* ever passed over.                                                       *)
RankCovers ==
    gone = {} => \A idx \in {index, saved} : \A k \in DOMAIN album :
        k <= idx.next => album[k] \in DOMAIN idx.entries \cup passed \cup Unpaired

(* A run that comes to its end has recorded every item of the album that   *)
(* no run passed over: "newly added items only ever appear at increasing   *)
(* offsets, letting a later run resume near where the last one left off".  *)
NewItemsFound == pc = "done" => target \subseteq DOMAIN index.entries \cup passed \cup gone
=============================================================================
