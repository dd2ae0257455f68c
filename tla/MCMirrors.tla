----------------------------- MODULE MCMirrors -----------------------------
(***************************************************************************)
(* Small instances of the mirror methods for TLC: the least in which the   *)
(* names and places that may collide do collide.                           *)
(***************************************************************************)
EXTENDS Mirrors, TLC

CONSTANTS m1, m2, m3   \* messages

(* iCloud: a Live Photo "l" whose video wants the name of the item "m",    *)
(* which is old, and a record without metadata, "u".                       *)
CloudItems == {"l", "m", "u"}
CloudNames == [i \in CloudItems |-> IF i = "m" THEN "a.mov" ELSE "a.heic"]
LiveNames == [x \in {"a.heic", "a.mov"} |-> "a.mov"]

(* IMAP: a folder with up to three messages at a time, three UIDs, one     *)
(* renumbering.  Folders share nothing but the run that visits them, so    *)
(* one shows what any does.                                                *)
MCSymmetry == Permutations({m1, m2, m3})

(* Google Photos: a RAW capture's cover "c" with its companion "r", a      *)
(* video "w" whose poster wants the name of the photo "j", and "o", which  *)
(* is older than the range and shares the video's name.                    *)
PhotoItems == {"c", "w", "j", "o"}

PhotoNames ==
    [i \in PhotoItems \cup {"r"} |->
        CASE i = "c" -> "pxl.jpg" [] i = "r" -> "pxl.dng" [] i = "j" -> "a.jpg"
          [] OTHER -> "a.mov"]
PhotoTimes ==
    [i \in PhotoItems |-> CASE i = "c" -> 4 [] i = "w" -> 3 [] i = "j" -> 2 [] i = "o" -> 1]
Companions == [i \in PhotoItems |-> IF i = "c" THEN <<"r">> ELSE <<>>]

MCPhotos ==
    [Items |-> PhotoItems, Raws |-> {"r"},
     Names |-> {"pxl.jpg", "pxl.dng", "a.mov", "a.jpg"}, NameOf |-> PhotoNames,
     Videos |-> {"w", "o"}, VideoNames |-> {"a.mov"},
     PosterName |-> [n \in {"a.mov"} |-> "a.jpg"], RawsOf |-> Companions,
     TakenAt |-> PhotoTimes, Before |-> 5, After |-> 2, PageSize |-> 2]

(* An item with a file "a" of constant size, one without a listed size,    *)
(* and its _files.xml.                                                     *)
MCItem ==
    [Files |-> {"a", "b", "x"}, FilesXML |-> "x", Summed |-> {"a", "b"},
     Sized |-> {"a", "x"}, SameSize |-> {"a"}, MaxVersion |-> 2, Retries |-> 1]

(* A menu "r" with a text "u" below the text "t", a foreign entry and a    *)
(* menu "m" that appears later, leads back to "r" and out of its scope.    *)
Selectors == {"r", "m", "a", "t", "u", "x", "o"}

MCHole ==
    [Selectors |-> Selectors, Root |-> "r", Menus |-> {"r", "m"},
     Lines |-> [m \in {"r", "m"} |->
                  IF m = "r" THEN <<"u", "m", "x", "t">> ELSE <<"a", "r", "o">>],
     Later |-> {"m"}, Info |-> {"m"}, Foreign |-> {"x"},
     Place |-> [s \in Selectors |->
                  CASE s = "r" -> <<"h">> [] s = "a" -> <<"h", "m", "a">>
                    [] s = "u" -> <<"h", "t", "u">> [] s = "o" -> <<"o">>
                    [] OTHER -> <<"h", s>>],
     MaxAttempts |-> 2]

(* The theorems about Gopher hold of this server.                          *)
ASSUME PlacesAssumption == P!PlacesApart

(* A directory with a file README, a link, and a file named like another's *)
(* description; from the oldest to the newest.                             *)
GroupOrder == << <<"a.desc">>, <<"d">>, <<"d", "README">>, <<"l">>, <<"a">> >>

GroupEntries == Range(GroupOrder)
GroupCreated == AntiFunction(GroupOrder)

Descriptions ==
    [f \in GroupEntries \ {<<"d">>} |->
        IF f = <<"a">> THEN <<"a.desc">> ELSE Append(f, ".desc")]

MCSection ==
    [Entries |-> GroupEntries, Created |-> GroupCreated, Dirs |-> {<<>>, <<"d">>},
     Links |-> {<<"l">>}, DescOf |-> Descriptions, SameSize |-> {<<"a">>},
     PageSize |-> 2, MaxEdits |-> 1, MaxAttempts |-> 2]

(* Two files, one with a checksum, a folder with a web page, a link; by    *)
(* name.                                                                   *)
AreaOrder == << <<"a">>, <<"b">>, <<"d">>, <<"d", "p">>, <<"l">> >>

AreaEntries == Range(AreaOrder)
AreaRank == AntiFunction(AreaOrder)

MCArea ==
    [Entries |-> AreaEntries, Rank |-> AreaRank, Dirs |-> {<<>>, <<"d">>},
     Roots |-> {<<>>, <<"d">>, <<"d", "p">>}, Links |-> {<<"l">>},
     Summed |-> {<<"a">>}, Mistaken |-> {<<"d", "p">>}, MaxEdits |-> 1, Retries |-> 1]
=============================================================================
