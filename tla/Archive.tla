------------------------------ MODULE Archive ------------------------------
(***************************************************************************)
(* The archive.org mirror, src/archiveorg/archiveorg.go: one process reads *)
(* the listing of an item's files, downloads each file that is not in the  *)
(* item's directory with the listed size, checks it against the listed     *)
(* checksum, and marks the directory .done when every file is in place.  A *)
(* run that finds the mark, and is not forced, returns at once.  A request *)
(* that fails is retried a number of times.                                *)
(*                                                                         *)
(* A file's content is a version of it, or Garbage: what came instead of   *)
(* the file, with a size of its own.  Modification times are left out, the *)
(* parsing of the file they are read from is not.                          *)
(***************************************************************************)
EXTENDS Naturals, FiniteSets, Functions

CONSTANTS
    Files,       \* names the item's files may have
    FilesXML,    \* the item's <identifier>_files.xml
    Summed,      \* files that are listed with a checksum, FilesXML apart
    Sized,       \* files that are listed with a size
    SameSize,    \* files whose versions all have the same size
    MaxVersion,  \* bound: the number of versions of a file
    Retries      \* -retries

FileAssumption ==
    /\ FilesXML \in Files /\ Summed \subseteq Files \ {FilesXML}
    /\ Sized \cup SameSize \subseteq Files
    /\ MaxVersion \in Nat \ {0} /\ Retries \in Nat

VARIABLES
    \* archive.org
    listing,    \* file -> version, the item's files
    \* the item's directory
    disk,       \* file -> content
    tmp,        \* the files with a *.archiveorg-tmp beside them
    marker,     \* whether .done is there
    \* one run
    pc,         \* what the run is about to do
    md,         \* the listing it was sent
    todo,       \* listed files it has yet to look at
    open,       \* the file in hand and, once it was requested, what is coming
    attempt,    \* retries of the request in hand
    \* history
    target      \* the listing of the last run that wrote the marker

dest == <<disk, tmp, marker>>
run  == <<md, todo, open, attempt>>
vars == <<listing, dest, pc, run, target>>

NoFiles == [f \in {} |-> 0]
NoFile  == <<>>
Garbage == 0
Put(files, f, content) ==
    [g \in DOMAIN files \cup {f} |-> IF g = f THEN content ELSE files[g]]

-----------------------------------------------------------------------------
Init ==
    /\ \E F \in SUBSET Files \ {{}} : listing = [f \in F |-> 1]
    /\ disk = NoFiles /\ tmp = {} /\ marker = FALSE
    /\ pc = "idle" /\ md = NoFiles /\ todo = {} /\ open = NoFile /\ attempt = 0
    /\ target = NoFiles

(* A file is added to the item, or replaced. *)
Publish(f) ==
    /\ listing' = Put(listing, f, IF f \in DOMAIN listing THEN listing[f] + 1 ELSE 1)
    /\ listing'[f] <= MaxVersion
    /\ UNCHANGED <<dest, pc, run, target>>

Start(force) ==
    /\ pc = "idle" /\ (force \/ ~marker) /\ pc' = "metadata"
    /\ UNCHANGED <<listing, dest, run, target>>

Forget ==
    pc' = "idle" /\ md' = NoFiles /\ todo' = {} /\ open' = NoFile /\ attempt' = 0

Metadata ==
    /\ pc = "metadata" /\ pc' = "file"
    /\ md' = listing /\ todo' = DOMAIN listing /\ attempt' = 0
    /\ UNCHANGED <<listing, dest, open, target>>

(* By its size, a file is there. *)
AlreadyHave(f) ==
    /\ f \in Sized /\ f \in DOMAIN disk
    /\ disk[f] = md[f] \/ (f \in SameSize /\ disk[f] # Garbage)

Skip(f) ==
    /\ pc = "file" /\ f \in todo /\ AlreadyHave(f) /\ todo' = todo \ {f}
    /\ UNCHANGED <<listing, dest, pc, md, open, attempt, target>>

Download(f) ==
    /\ pc = "file" /\ f \in todo /\ ~AlreadyHave(f)
    /\ pc' = "get" /\ open' = <<f>>
    /\ UNCHANGED <<listing, dest, md, todo, attempt, target>>

(* The server answers 200, with the file or with something else. *)
Get ==
    /\ pc = "get" /\ pc' = "body" /\ tmp' = tmp \cup {open[1]}
    /\ \E content \in {listing[open[1]], Garbage} : open' = <<open[1], content>>
    /\ UNCHANGED <<listing, disk, marker, md, todo, attempt, target>>

(* No checksum at all. *)
BadVerified(f, content) == TRUE

Verified(f, content) == f \in Summed => content = md[f]

Commit ==
    /\ pc = "body" /\ Verified(open[1], open[2]) /\ pc' = "file"
    /\ disk' = Put(disk, open[1], open[2]) /\ tmp' = tmp \ {open[1]}
    /\ todo' = todo \ {open[1]} /\ open' = NoFile /\ attempt' = 0
    /\ UNCHANGED <<listing, marker, md, target>>

(* A request is answered with 429 or 5xx, breaks off or does not get       *)
(* through, or its checksum does not match: pacer.do.                      *)
RequestFails ==
    /\ pc \in {"metadata", "get", "body"}
    /\ tmp' = IF pc = "body" THEN tmp \ {open[1]} ELSE tmp
    /\ IF attempt < Retries
       THEN /\ attempt' = attempt + 1 /\ pc' = IF pc = "body" THEN "get" ELSE pc
            /\ open' = IF pc = "body" THEN <<open[1]>> ELSE open
            /\ UNCHANGED <<md, todo>>
       ELSE Forget
    /\ UNCHANGED <<listing, disk, marker, target>>

(* Any other error: a status that is not retried, a dark or empty item, an *)
(* unsafe name, the disk, _files.xml that cannot be parsed.  The temporary *)
(* file stays if it was the rename that failed.                            *)
Fail ==
    /\ pc # "idle" /\ Forget
    /\ UNCHANGED tmp \/ (pc = "body" /\ tmp' = tmp \ {open[1]})
    /\ UNCHANGED <<listing, disk, marker, target>>

(* The modification times are set and .done is written. *)
Finish ==
    /\ pc = "file" /\ todo = {} /\ (FilesXML \in DOMAIN disk => disk[FilesXML] # Garbage)
    /\ marker' = TRUE /\ target' = md /\ Forget
    /\ UNCHANGED <<listing, disk, tmp>>

(* The process is killed, by a signal or with its daemon. *)
Crash ==
    /\ pc # "idle" /\ Forget
    /\ UNCHANGED <<listing, dest, target>>

Next ==
    \/ \E f \in Files : Publish(f) \/ Skip(f) \/ Download(f)
    \/ \E force \in BOOLEAN : Start(force)
    \/ Metadata \/ Get \/ Commit \/ RequestFails \/ Fail \/ Finish \/ Crash

Spec == Init /\ [][Next]_vars

-----------------------------------------------------------------------------
(* Type correctness of the directory and of the run's memory. *)
TypeOK ==
    /\ DOMAIN listing \subseteq Files /\ Range(listing) \subseteq 1..MaxVersion
    /\ DOMAIN disk \subseteq Files /\ Range(disk) \subseteq 0..MaxVersion
    /\ tmp \subseteq Files /\ todo \subseteq DOMAIN md /\ attempt \in 0..Retries
    /\ pc \in {"get", "body"} <=> open # NoFile

(* A directory marked .done has every file that the run which marked it    *)
(* was told of; a file with a checksum is the listed version or a later    *)
(* one, unless only its size, which an older version shares, was looked at. *)
(* Listing and downloads are separate requests, runs die anywhere, and a   *)
(* forced run works on a marked directory.                                 *)
DoneMeansAll ==
    marker =>
        \A f \in DOMAIN target :
            /\ f \in DOMAIN disk
            /\ f \in Summed => /\ disk[f] # Garbage
                               /\ disk[f] >= target[f] \/ (f \in SameSize \cap Sized)

(* "Any failure partway through returns an error instead, leaving no       *)
(* marker behind, so a subsequent run resumes."                            *)
FailureLeavesNoMarker == [][pc # "idle" /\ pc' = "idle" /\ ~Finish => ~marker']_vars
=============================================================================
