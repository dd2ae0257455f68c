------------------------------ MODULE Mirrors ------------------------------
(***************************************************************************)
(* The mirror methods other than HTTP and FTP.  A mirror process runs one  *)
(* method, so one is chosen at the start; what the others would use stays  *)
(* unused.  ICloud and Imap are extended; the other methods, of which a    *)
(* behaviour has one at most, share some variables, and the constants of   *)
(* each are the fields of a record.                                        *)
(***************************************************************************)
EXTENDS ICloud, Imap

CONSTANTS
    Methods,     \* the methods to choose from
    Photos,      \* GPhotos: the library at Google
    MaxChange,   \* Git
    Item,        \* Archive: the item at archive.org
    Hole,        \* Gopher: the server's menus
    Section,     \* GroupsIO: the Files section of the group
    Area         \* SourceForge: the files area of the project

VARIABLES
    method,
    \* of several methods: where the run is, the files, what is left to do,
    \* the download, and what the run is to achieve
    at, kept, parts, rest, copy, goal,
    \* Google Photos
    library, cookies, written, entries, taken, found, cursor, named, raws, got, skipped,
    \* git
    tip, change, repo, temp, fetched, broken,
    \* archive.org, Gopher, groups.io and SourceForge
    listing, marker, md, shown, visited, group, alt, pageToken, site, root, flawed,
    stack, attempt, clean, edits

G == INSTANCE GPhotos WITH
        Items <- Photos.Items, Raws <- Photos.Raws, Names <- Photos.Names,
        NameOf <- Photos.NameOf, Videos <- Photos.Videos,
        VideoNames <- Photos.VideoNames, PosterName <- Photos.PosterName,
        RawsOf <- Photos.RawsOf, TakenAt <- Photos.TakenAt, Before <- Photos.Before,
        After <- Photos.After, PageSize <- Photos.PageSize, pc <- at, disk <- kept,
        tmp <- parts, open <- copy, target <- goal, todo <- rest, session <- cookies,
        saved <- written, index <- entries, used <- taken, files <- found

T == INSTANCE Git WITH pc <- at

A == INSTANCE Archive WITH
        Files <- Item.Files, FilesXML <- Item.FilesXML,
        Summed <- Item.Summed, Sized <- Item.Sized,
        SameSize <- Item.SameSize, MaxVersion <- Item.MaxVersion,
        Retries <- Item.Retries, pc <- at, disk <- kept, tmp <- parts,
        open <- copy, target <- goal, todo <- rest

P == INSTANCE Gopher WITH
        Selectors <- Hole.Selectors, Root <- Hole.Root, Menus <- Hole.Menus,
        Lines <- Hole.Lines, Later <- Hole.Later, Info <- Hole.Info,
        Foreign <- Hole.Foreign, Place <- Hole.Place, MaxAttempts <- Hole.MaxAttempts,
        pc <- at, disk <- kept, tmp <- parts, open <- copy, target <- goal,
        seen <- visited

O == INSTANCE GroupsIO WITH
        Entries <- Section.Entries, Created <- Section.Created, Dirs <- Section.Dirs,
        Links <- Section.Links, DescOf <- Section.DescOf, SameSize <- Section.SameSize,
        PageSize <- Section.PageSize, MaxEdits <- Section.MaxEdits,
        MaxAttempts <- Section.MaxAttempts, pc <- at, disk <- kept, tmp <- parts,
        open <- copy, target <- goal, todo <- rest

S == INSTANCE SourceForge WITH
        Entries <- Area.Entries, Rank <- Area.Rank, Dirs <- Area.Dirs,
        Roots <- Area.Roots, Links <- Area.Links, Summed <- Area.Summed,
        Mistaken <- Area.Mistaken, MaxEdits <- Area.MaxEdits, Retries <- Area.Retries,
        pc <- at, disk <- kept, tmp <- parts, open <- copy, target <- goal,
        failed <- flawed

ASSUME MethodAssumption ==
    /\ SuffixAssumption /\ ItemAssumption /\ BoundAssumption
    /\ G!RangeAssumption /\ G!NameAssumption /\ T!ChangeAssumption /\ A!FileAssumption
    /\ P!SelectorAssumption /\ O!GroupAssumption /\ S!AreaAssumption

common  == <<at, kept, parts, rest, copy, goal>>
google  == <<library, cookies, written, entries, taken, found, cursor, named, raws, got,
             skipped>>
git     == <<tip, change, repo, temp, fetched, broken>>
archive == <<listing, marker, md>>
gopher  == <<shown, visited>>
groups  == <<group, alt, pageToken>>
forge   == <<site, root, flawed>>
walk    == <<stack, attempt, clean, edits>>
others  == <<archive, gopher, groups, forge, walk>>
allVars == <<method, vars, mailVars, common, google, git, others>>

(* What no run of the chosen method touches holds 0. *)
NoFiles   == kept = 0 /\ parts = 0 /\ copy = 0
NoGoogle  == library = 0 /\ cookies = 0 /\ written = 0 /\ entries = 0 /\ taken = 0
               /\ found = 0 /\ cursor = 0 /\ named = 0 /\ raws = 0 /\ got = 0 /\ skipped = 0
NoGit     == tip = 0 /\ change = 0 /\ repo = 0 /\ temp = 0 /\ fetched = 0 /\ broken = 0
NoWalk    == stack = 0 /\ clean = 0
NoArchive == listing = 0 /\ marker = 0 /\ md = 0
NoGopher  == shown = 0 /\ visited = 0
NoGroups  == group = 0 /\ alt = 0 /\ pageToken = 0
NoForge   == site = 0 /\ root = 0 /\ flawed = 0
NoOthers  == NoWalk /\ NoArchive /\ NoGopher /\ NoGroups /\ NoForge /\ attempt = 0 /\ edits = 0
NoPhotosGit == NoGoogle /\ NoGit

ProcessInit ==
    /\ method \in Methods /\ Init /\ MailInit
    /\ \/ /\ method \in {"icloud", "imap"} /\ at = 0 /\ rest = 0 /\ goal = 0
          /\ NoFiles /\ NoPhotosGit /\ NoOthers
       \/ method = "gphotos" /\ G!Init /\ NoGit /\ NoOthers
       \/ /\ method = "git" /\ T!Init /\ rest = 0 /\ goal = 0
          /\ NoFiles /\ NoGoogle /\ NoOthers
       \/ /\ method = "archiveorg" /\ A!Init /\ NoPhotosGit
          /\ NoWalk /\ NoGopher /\ NoGroups /\ NoForge /\ edits = 0
       \/ /\ method = "gopher" /\ P!Init /\ rest = 0 /\ NoPhotosGit
          /\ NoArchive /\ NoGroups /\ NoForge /\ edits = 0
       \/ method = "groupsio" /\ O!Init /\ NoPhotosGit /\ NoArchive /\ NoGopher /\ NoForge
       \/ /\ method = "sourceforge" /\ S!Init /\ rest = 0 /\ NoPhotosGit
          /\ NoArchive /\ NoGopher /\ NoGroups

ProcessNext ==
    /\ UNCHANGED method
    /\ \/ method = "icloud" /\ Next /\ UNCHANGED <<mailVars, common, google, git, others>>
       \/ method = "imap" /\ MailNext /\ UNCHANGED <<vars, common, google, git, others>>
       \/ /\ UNCHANGED <<vars, mailVars>>
          /\ \/ method = "gphotos" /\ G!Next /\ UNCHANGED <<git, others>>
             \/ /\ method = "git" /\ T!Next
                /\ UNCHANGED <<kept, parts, rest, copy, goal, google, others>>
             \/ /\ method = "archiveorg" /\ A!Next
                /\ UNCHANGED <<google, git, gopher, groups, forge, stack, clean, edits>>
             \/ /\ method = "gopher" /\ P!Next
                /\ UNCHANGED <<google, git, archive, groups, forge, edits, rest>>
             \/ /\ method = "groupsio" /\ O!Next
                /\ UNCHANGED <<google, git, archive, gopher, forge>>
             \/ /\ method = "sourceforge" /\ S!Next
                /\ UNCHANGED <<google, git, archive, gopher, groups, rest>>

ProcessSpec == ProcessInit /\ [][ProcessNext]_allVars

-----------------------------------------------------------------------------
(* The properties of the method that runs; those of ICloud and Imap are    *)
(* their own.                                                              *)

(* Type correctness, of the iCloud and the IMAP mirror and of what else    *)
(* the method that runs keeps.                                             *)
AllTypes ==
    /\ TypeOK /\ MailTypes
    /\ method = "gphotos" => G!TypeOK
    /\ method = "git" => repo.form \in {"absent", "partial", "bare", ".git"}
    /\ method = "archiveorg" => A!TypeOK
    /\ method = "gopher" => P!TypeOK
    /\ method = "groupsio" => O!TypeOK
    /\ method = "sourceforge" => S!TypeOK

(* Google Photos: index entries name distinct files, all on disk. *)
DistinctFiles == method = "gphotos" => G!DistinctFiles

(* A run that ends without an error, or the mark it leaves, means that     *)
(* everything it was to fetch is there: Google Photos but for the items it *)
(* skipped, archive.org whenever .done is there, SourceForge unless it     *)
(* passed over a timeout, and Gopher and groups.io, which give up on what  *)
(* keeps failing and end without an error all the same, where no request   *)
(* of the run failed, broke off or was misread (clean).                    *)
DoneMeansAll ==
    /\ method = "gphotos" => G!DoneMeansAll
    /\ method = "archiveorg" => A!DoneMeansAll
    /\ method = "gopher" => P!DoneMeansAll
    /\ method = "groupsio" => O!DoneMeansAll
    /\ method = "sourceforge" => S!DoneMeansAll

(* Google Photos and Gopher: no mirrored file is overwritten or removed,   *)
(* other than Gopher's 00READMEs, which each visit writes anew.            *)
Kept == [][/\ method = "gphotos" => G!KeepsFiles
           /\ method = "gopher" => P!KeepsFiles]_allVars

(* Google Photos: a file recorded for an item is the item's own. *)
AdoptedIsOwn == method = "gphotos" => G!AdoptedIsOwn

(* git: success means a clone with what was fetched and, unless HEAD is    *)
(* detached or the branch is gone upstream, a work tree with all of it.    *)
DoneIsCurrent == method = "git" => T!DoneIsCurrent

(* git: the destination never loses all of the history. *)
HistoryKept == [][method = "git" => T!KeepsHistory]_allVars

(* archive.org: a run that fails leaves no mark. *)
FailureLeavesNoMarker ==
    [][method = "archiveorg" /\ at # "idle" /\ at' = "idle" /\ ~A!Finish => ~marker']_allVars

(* Gopher: no menu is taken for a file. *)
MenusAreDirs == method = "gopher" => P!MenusAreDirs

(* SourceForge: what failed is named, or everything is there.              *)
FailuresAreNamed == method = "sourceforge" => S!FailuresAreNamed

(* groups.io: a file is not lost to a description of its name. *)
AllFilesThere == method = "groupsio" => O!AllFilesThere
=============================================================================
