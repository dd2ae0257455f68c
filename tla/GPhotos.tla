------------------------------ MODULE GPhotos ------------------------------
(***************************************************************************)
(* The Google Photos mirror, src/gphotos/gphotos.go: one process walks the *)
(* library newest first, a page at a time, gives each new item a local     *)
(* name that no other item holds, downloads it through a temporary file,   *)
(* adds a video's poster and a RAW capture's companions, and records the   *)
(* item in an index that it saves after every item.  Later runs skip what  *)
(* the index holds and adopt a file that is on disk under an item's name   *)
(* and that the index does not know.                                       *)
(*                                                                         *)
(* Paths are those of FileNames; a file's content is <<media key, kind>>.  *)
(***************************************************************************)
EXTENDS FileNames, FiniteSets, Functions

CONSTANTS
    Items,        \* media keys of the library's items
    Raws,         \* media keys of RAW companions, which no listing shows
    Names,        \* names that Google gives to files
    NameOf,       \* the name of each media key
    Videos,       \* the items that are videos
    VideoNames,   \* the names with a video extension
    PosterName,   \* of a video name, the same with .jpg for its extension
    RawsOf,       \* of an item, the companions its RAW group lists
    TakenAt,      \* when each item was taken
    Before,       \* above every TakenAt in the range that is asked for
    After,        \* the oldest TakenAt in the range
    PageSize      \* items on a page of the listing (500 in the code)

RangeAssumption ==
    /\ Before \in Nat /\ After \in Nat \ {0} /\ PageSize \in Nat \ {0}
    /\ TakenAt \in [Items -> Nat] /\ IsFiniteSet(Items)

NameAssumption ==
    /\ Videos \subseteq Items /\ VideoNames \subseteq Names
    /\ Items \cap Raws = {} /\ (Items \cup Raws) \cap Names = {}
    /\ NameOf \in [Items \cup Raws -> Names]
    /\ PosterName \in [VideoNames -> Names \ VideoNames]
    /\ RawsOf \in [Items -> Seq(Raws)]
    /\ \A r \in Raws : NameOf[r] \notin VideoNames

VARIABLES
    \* Google's side
    library,      \* the items in the library now
    session,      \* whether Google still takes the session's cookies
    \* the destination directory
    disk,         \* path -> content, the complete files
    tmp,          \* the paths with a *.gphotos-tmp file beside them
    saved,        \* the index file: item -> its paths
    \* one run
    pc,           \* what the run is about to do
    index,        \* idx.entries
    used,         \* usedNames
    cursor,       \* the next page holds items taken before this
    todo,         \* newItems that are left of this page
    named,        \* batchFilenames answered for this page
    open,         \* the download in progress, or NoFile
    files,        \* filenames of the item in hand
    raws,         \* companions that are left
    got,          \* companions written
    \* history
    target,       \* in range and in the library when the run began
    skipped       \* items whose download failed in this run

env  == <<library, session>>
dest == <<disk, tmp, saved>>
item == <<open, files, raws, got>>
page == <<cursor, todo, named>>
hist == <<target, skipped>>
vars == <<env, dest, pc, index, used, page, item, hist>>

Bases   == Names \cup Items \cup Raws
NoFile  == <<>>

(* The items of a page are dealt with newest first. *)
Current == CHOOSE i \in todo : \A j \in todo : TakenAt[j] <= TakenAt[i]

(* targetName: Google's name, or the media key if the lookup failed. *)
Target(i) == <<IF named THEN NameOf[i] ELSE i, <<>>>>

IsVideoPath(p) == p[1] \in VideoNames

Poster(p) == <<PosterName[p[1]], p[2]>>

(* The first answer taken for a video too. *)
BadOriginal(i, p) == <<i, IF i \in Videos THEN "preview" ELSE "photo">>

(* The bytes downloadOriginal accepts for item i under the path p.  Under  *)
(* any other name than a video's, the first answer is taken whatever it    *)
(* is, and for a video that is a preview image.                            *)
Original(i, p) ==
    CASE IsVideoPath(p) /\ i \in Videos  -> <<i, "video">>
      [] IsVideoPath(p) /\ i \notin Videos -> NoFile
      [] ~IsVideoPath(p) /\ i \in Videos -> <<i, "preview">>
      [] OTHER                           -> <<i, "photo">>

(***************************************************************************)
(* The listing.  A page holds the PageSize newest items taken before the   *)
(* cursor, with those as old as the last of them; the page token of the    *)
(* next one says where this one ended.                                     *)
(***************************************************************************)
Remaining == {i \in library : TakenAt[i] < cursor}

Newer(i) == {j \in Remaining : TakenAt[j] > TakenAt[i]}

Listing == {i \in Remaining : Cardinality(Newer(i)) < PageSize}

New(items) == {i \in items : TakenAt[i] >= After /\ i \notin DOMAIN index}

Oldest(items) ==
    CHOOSE t \in {TakenAt[i] : i \in items} : \A i \in items : t <= TakenAt[i]

(* A listing that ends where nothing is new. *)
BadIsLast(items) == New(items) = {}

(* A page is the last one if it reaches past After or nothing follows it.  *)
IsLast(items) == (\E i \in items : TakenAt[i] < After) \/ items = Remaining

(* The stage after an item's own file and poster are there.  Only a name   *)
(* that Google gave can tell that the item is a RAW capture's cover.       *)
CompanionStage == IF named /\ RawsOf[Current] # <<>> THEN "group" ELSE "record"

-----------------------------------------------------------------------------
Init ==
    /\ library = {} /\ session = "live"
    /\ disk = [p \in {} |-> NoFile] /\ tmp = {} /\ saved = [i \in {} |-> <<>>]
    /\ pc = "idle"
    /\ index = [i \in {} |-> <<>>] /\ used = {} /\ cursor = 0 /\ todo = {}
    /\ named = FALSE /\ open = NoFile /\ files = <<>> /\ raws = <<>> /\ got = <<>>
    /\ target = {} /\ skipped = {}

(* The memory of a run that ended, cleanly or not, is gone. *)
Forget ==
    /\ pc' = "idle" /\ index' = [i \in {} |-> <<>>] /\ used' = {} /\ cursor' = 0
    /\ todo' = {} /\ named' = FALSE /\ open' = NoFile /\ files' = <<>>
    /\ raws' = <<>> /\ got' = <<>> /\ skipped' = {} /\ target' = {}

(* An item is uploaded, by any device, at any time. *)
Upload ==
    /\ \E i \in Items \ library : library' = library \cup {i}
    /\ UNCHANGED <<session, dest, pc, index, used, page, item, hist>>

(* The short-lived session token ages while a run lasts. *)
Age ==
    /\ pc # "idle" /\ session = "live" /\ session' = "stale"
    /\ UNCHANGED <<library, dest, pc, index, used, page, item, hist>>

(* The cookies are loaded from their file, which may be old. *)
Start ==
    /\ pc = "idle"
    /\ session' \in {"live", "stale", "dead"} /\ pc' = "boot"
    /\ UNCHANGED <<library, dest, index, used, page, item, hist>>

(* A stale session is revived by rotating the cookies; then the index is   *)
(* read, what an interrupted run left is removed, and the names the index  *)
(* knows are taken.                                                        *)
Bootstrap ==
    /\ pc = "boot" /\ session # "dead"
    /\ session' = "live" /\ tmp' = {}
    /\ index' = saved
    /\ used' = UNION {Range(saved[i]) : i \in DOMAIN saved}
    /\ cursor' = Before /\ pc' = "page"
    /\ target' = {i \in library : After <= TakenAt[i] /\ TakenAt[i] < Before}
    /\ UNCHANGED <<library, disk, saved, todo, named, item, skipped>>

(* The rotation fails too, or a page cannot be listed: the run ends in an  *)
(* error.                                                                  *)
Abort ==
    /\ pc \in {"boot", "page"} /\ Forget
    /\ UNCHANGED <<env, dest>>

(* Two minutes after the last refresh the cookies are rotated again; if    *)
(* that fails the run carries on with the session it has.                  *)
Refresh ==
    /\ pc = "page" /\ session = "stale" /\ session' = "live"
    /\ UNCHANGED <<library, dest, pc, index, used, page, item, hist>>

ListPage ==
    /\ pc = "page" /\ session = "live"
    /\ IF Listing = {}
       THEN pc' = "done" /\ UNCHANGED page
       ELSE /\ pc' = "item" /\ todo' = New(Listing)
            /\ named' \in IF New(Listing) = {} THEN {FALSE} ELSE BOOLEAN
            /\ cursor' = IF IsLast(Listing) THEN 0 ELSE Oldest(Listing)
    /\ UNCHANGED <<env, dest, index, used, item, hist>>

NextPage ==
    /\ pc = "item" /\ todo = {}
    /\ pc' = IF cursor = 0 THEN "done" ELSE "page"
    /\ UNCHANGED <<env, dest, index, used, page, item, hist>>

(* A download that does not ask what is on disk. *)
BadTake ==
    /\ pc = "item" /\ todo # {} /\ open = NoFile
    /\ \E p \in Candidates(Target(Current)) :
          /\ Resolves(Target(Current), p, used)
          /\ used' = used \cup {p} /\ tmp' = tmp \cup {p}
          /\ open' = <<p, Original(Current, p)>>
    /\ UNCHANGED <<env, disk, saved, pc, index, page, files, raws, got, hist>>

(* The item in hand gets its name.  A file that is there already is        *)
(* adopted; otherwise the download begins, under a temporary name.         *)
Take ==
    /\ pc = "item" /\ todo # {} /\ open = NoFile
    /\ \E p \in Candidates(Target(Current)) :
          /\ Resolves(Target(Current), p, used)
          /\ used' = used \cup {p}
          /\ IF p \in DOMAIN disk
             THEN pc' = "record" /\ files' = <<p>> /\ UNCHANGED <<open, tmp>>
             ELSE /\ open' = <<p, Original(Current, p)>> /\ tmp' = tmp \cup {p}
                  /\ UNCHANGED <<pc, files>>
    /\ UNCHANGED <<env, disk, saved, index, page, raws, got, hist>>

TakePoster ==
    /\ pc = "poster" /\ open = NoFile
    /\ \E p \in Candidates(Poster(files[1])) :
          /\ Resolves(Poster(files[1]), p, used)
          /\ used' = used \cup {p}
          /\ IF p \in DOMAIN disk
             THEN /\ pc' = CompanionStage /\ files' = Append(files, p)
                  /\ UNCHANGED <<open, tmp>>
             ELSE /\ open' = <<p, <<Current, "poster">>>> /\ tmp' = tmp \cup {p}
                  /\ UNCHANGED <<pc, files>>
    /\ UNCHANGED <<env, disk, saved, index, page, raws, got, hist>>

(* getRawGroup and the companions' names: an error of either leaves the    *)
(* item without companions, for good.                                      *)
ResolveGroup ==
    /\ pc = "group"
    /\ \/ pc' = "companion" /\ raws' = RawsOf[Current]
       \/ pc' = "record" /\ raws' = raws
    /\ UNCHANGED <<env, dest, index, used, page, open, files, got, hist>>

TakeCompanion ==
    /\ pc = "companion" /\ open = NoFile /\ raws # <<>>
    /\ \E p \in Candidates(Target(Head(raws))) :
          /\ Resolves(Target(Head(raws)), p, used)
          /\ used' = used \cup {p}
          /\ IF p \in DOMAIN disk
             THEN got' = Append(got, p) /\ raws' = Tail(raws) /\ UNCHANGED <<open, tmp>>
             ELSE /\ open' = <<p, <<Head(raws), "photo">>>> /\ tmp' = tmp \cup {p}
                  /\ UNCHANGED <<got, raws>>
    /\ UNCHANGED <<env, disk, saved, pc, index, page, files, hist>>

CompanionsDone ==
    /\ pc = "companion" /\ raws = <<>>
    /\ files' = files \o got /\ got' = <<>> /\ pc' = "record"
    /\ UNCHANGED <<env, dest, index, used, page, open, raws, hist>>

(* writeAtomically: the copy is complete, and the rename makes it final.   *)
(* (An error that only Close reports is not looked at: left out.)          *)
Commit ==
    /\ open # NoFile /\ open[2] # NoFile
    /\ disk' = [p \in DOMAIN disk \cup {open[1]} |->
                   IF p = open[1] THEN open[2] ELSE disk[p]]
    /\ tmp' = tmp \ {open[1]} /\ open' = NoFile
    /\ CASE pc = "item" ->
              /\ files' = <<open[1]>>
              /\ pc' = IF IsVideoPath(open[1]) THEN "poster" ELSE CompanionStage
              /\ UNCHANGED <<raws, got>>
         [] pc = "poster" ->
              /\ files' = Append(files, open[1]) /\ pc' = CompanionStage
              /\ UNCHANGED <<raws, got>>
         [] pc = "companion" ->
              /\ got' = Append(got, open[1]) /\ raws' = Tail(raws)
              /\ UNCHANGED <<files, pc>>
    /\ UNCHANGED <<env, saved, index, used, page, hist, skipped>>

(* The request or the copy fails and the temporary file is removed, or the *)
(* rename fails and it stays.  The item is skipped, or goes without the    *)
(* poster, or without any companion: the ones already written are not      *)
(* recorded.                                                               *)
FetchFails ==
    /\ open # NoFile /\ open' = NoFile
    /\ tmp' = tmp \ {open[1]} \/ (open[2] # NoFile /\ UNCHANGED tmp)
    /\ CASE pc = "item" ->
              /\ todo' = todo \ {Current} /\ skipped' = skipped \cup {Current}
              /\ UNCHANGED <<pc, raws, got>>
         [] pc = "poster" ->
              /\ pc' = CompanionStage /\ UNCHANGED <<todo, skipped, raws, got>>
         [] pc = "companion" ->
              /\ pc' = "record" /\ raws' = <<>> /\ got' = <<>>
              /\ UNCHANGED <<todo, skipped>>
    /\ UNCHANGED <<env, disk, saved, index, used, cursor, named, files, target>>

(* The item is recorded and the index saved; a save that fails is logged,  *)
(* and the next one writes this entry too.                                 *)
Record ==
    /\ pc = "record"
    /\ index' = [i \in DOMAIN index \cup {Current} |->
                    IF i = Current THEN files ELSE index[i]]
    /\ saved' \in {index', saved}
    /\ todo' = todo \ {Current} /\ files' = <<>> /\ pc' = "item"
    /\ UNCHANGED <<env, disk, tmp, used, cursor, named, open, raws, got, hist>>

Finish ==
    /\ pc = "done" /\ Forget
    /\ UNCHANGED <<env, dest>>

(* The process is killed, by a signal or with its daemon. *)
Crash ==
    /\ pc # "idle" /\ Forget
    /\ UNCHANGED <<env, dest>>

Next ==
    \/ Upload \/ Age \/ Start \/ Bootstrap \/ Abort \/ Refresh \/ ListPage
    \/ NextPage \/ Take \/ TakePoster \/ ResolveGroup \/ TakeCompanion
    \/ CompanionsDone \/ Commit \/ FetchFails \/ Record \/ Finish \/ Crash

Spec == Init /\ [][Next]_vars

-----------------------------------------------------------------------------
Paths == DOMAIN disk \cup tmp \cup used

(* Type correctness of the library, the directory and the run's memory: a  *)
(* file with a video extension holds a video and no preview image, poster  *)
(* or photo.                                                               *)
TypeOK ==
    /\ library \subseteq Items /\ session \in {"live", "stale", "dead"}
    /\ \A p \in Paths : p[1] \in Bases /\ p[2] \in Seq(2..MaxSuffix)
    /\ \A p \in DOMAIN disk :
          disk[p] \in (Items \cup Raws)
                        \X IF IsVideoPath(p) THEN {"video"} ELSE {"photo", "preview", "poster"}
    /\ DOMAIN saved \subseteq Items
    /\ pc \in {"idle", "boot", "page", "item", "poster", "group", "companion",
                "record", "done"}
    /\ DOMAIN index \subseteq Items /\ cursor \in Nat
    /\ todo \subseteq Items /\ raws \in Seq(Raws) /\ named \in BOOLEAN
    /\ target \subseteq Items /\ skipped \subseteq Items

(* No two entries of the index, in memory or on disk, name the same file,  *)
(* and every file they name is on disk, complete, whatever runs were       *)
(* killed, whatever lookups failed and whatever names Google gave: "both   *)
(* files are tracked under the cover item's one media key and both stay    *)
(* protected from future name collisions".                                 *)
Sound(idx) ==
    \A i \in DOMAIN idx :
        /\ Range(idx[i]) \subseteq DOMAIN disk
        /\ \A j \in DOMAIN idx : \A a \in DOMAIN idx[i] : \A b \in DOMAIN idx[j] :
              idx[i][a] = idx[j][b] => i = j /\ a = b

DistinctFiles == Sound(index) /\ Sound(saved)

(* A run that comes to its end has recorded, or skipped because its        *)
(* download failed, every item in range that the library held when the run *)
(* began, however the items are spread over the pages and whatever is      *)
(* uploaded meanwhile.                                                     *)
DoneMeansAll == pc = "done" => target \subseteq DOMAIN index \cup skipped

(* A mirrored file is never overwritten or removed, in this run or a later *)
(* one: "silently overwriting a previously-mirrored photo because an       *)
(* unrelated one shares its name would be data loss".                      *)
KeepsFiles == \A p \in DOMAIN disk : p \in DOMAIN disk' /\ disk'[p] = disk[p]

Kept == [][KeepsFiles]_vars

(* The file recorded for an item is the item's own, as resolveFilename's   *)
(* comment has it of a file that is adopted: "it's assumed to be this same *)
(* item's own file from a previous run".                                   *)
AdoptedIsOwn == \A i \in DOMAIN saved : disk[saved[i][1]][1] = i
=============================================================================
