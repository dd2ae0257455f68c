--------------------------- MODULE GPhotosProofs ---------------------------
(***************************************************************************)
(* What the Google Photos mirror's index and files stand for, for any      *)
(* library, any names Google gives and any number of runs.                 *)
(***************************************************************************)
EXTENDS GPhotos, SequenceTheorems, FiniteSetTheorems, WellFoundedInduction, TLAPS

HasItem == {"poster", "group", "companion", "record"}
Steps   == HasItem \cup {"idle", "boot", "page", "item", "done"}

PathSet == Bases \X Seq(2..MaxSuffix)

Content(p) ==
    (Items \cup Raws) \X IF IsVideoPath(p) THEN {"video"} ELSE {"photo", "preview", "poster"}

-----------------------------------------------------------------------------
(* The types of the directory, the index and the run's memory, and what    *)
(* the run has in hand at each of its steps.                               *)
Types ==
    /\ library \subseteq Items /\ session \in {"live", "stale", "dead"}
    /\ DOMAIN disk \cup tmp \cup used \subseteq PathSet
    /\ \A p \in DOMAIN disk : disk[p] \in Content(p)
    /\ DOMAIN saved \subseteq Items /\ DOMAIN index \subseteq Items
    /\ pc \in Steps /\ cursor \in 0..Before /\ named \in BOOLEAN
    /\ todo \subseteq {i \in Items : TakenAt[i] < Before}
    /\ target \subseteq Items /\ skipped \subseteq Items
    /\ files \in Seq(PathSet) /\ got \in Seq(PathSet) /\ raws \in Seq(Raws)

Running ==
    /\ pc \in {"idle", "boot"} =>
          open = NoFile /\ index = [i \in {} |-> <<>>] /\ used = {} /\ target = {}
    /\ open # NoFile => /\ pc \in {"item", "poster", "companion"}
                        /\ pc = "item" => todo # {}
                        /\ pc = "companion" => raws # <<>>
                        /\ open = <<open[1], open[2]>> /\ open[1] \in PathSet
                        /\ open[2] = NoFile \/ open[2] \in Content(open[1])
    /\ pc \in HasItem => todo # {} /\ files # <<>>
    /\ pc \notin HasItem => files = <<>>
    /\ pc # "companion" => got = <<>>
    /\ pc = "poster" => IsVideoPath(files[1])

Distinct(seq) == \A a, b \in DOMAIN seq : seq[a] = seq[b] => a = b

(* The names of the item in hand are on disk and taken, each once, and the *)
(* download's is taken and not on disk yet.                                *)
InHand ==
    /\ Range(files) \cup Range(got) \subseteq DOMAIN disk \cap used
    /\ Range(files) \cap Range(got) = {}
    /\ Distinct(files) /\ Distinct(got)
    /\ open # NoFile => open[1] \in used \ DOMAIN disk

(* The index's names are taken, and none is that of the item in hand. *)
Taken ==
    \A i \in DOMAIN index :
        /\ Range(index[i]) \subseteq used
        /\ Range(index[i]) \cap (Range(files) \cup Range(got)) = {}

FilesInv == Types /\ Running /\ InHand /\ Taken /\ Sound(index) /\ Sound(saved)

(* What is to be fetched is still to be listed, listed, or dealt with. *)
Covered ==
    \A i \in target :
        /\ i \in library /\ TakenAt[i] >= After /\ TakenAt[i] < Before
        /\ \/ i \in DOMAIN index \cup skipped
           \/ pc # "done" /\ TakenAt[i] < cursor
           \/ pc \in HasItem \cup {"item"} /\ i \in todo

-----------------------------------------------------------------------------
(* A set of numbers has a least one. *)
Below == {ss \in Nat \X Nat : ss[1] < ss[2]}

LEMMA Least ==
  ASSUME NEW S \in SUBSET Nat, S # {}
  PROVE  \E n \in S : \A m \in S : n <= m
<1>1. IsWellFoundedOn(Below, Nat)
  BY NatLessThanWellFounded DEF OpToRel, Below
<1>2. PICK n \in S : \A m \in S : ~(<<m, n>> \in Below)
  BY <1>1, WFMin
<1>3. \A m \in S : ~(m < n)
  BY <1>2 DEF Below
<1>. QED
  BY <1>3

(* Of items that were all taken before some time, one is the newest and    *)
(* one is the oldest.                                                      *)
LEMMA NewestExists ==
  ASSUME RangeAssumption, NEW n \in Nat,
         NEW S, S \subseteq {i \in Items : TakenAt[i] < n}, S # {}
  PROVE  \E i \in S : \A j \in S : TakenAt[j] <= TakenAt[i]
<1>. DEFINE Ages == {n - TakenAt[i] : i \in S}
<1>1. \A i \in S : TakenAt[i] \in Nat /\ TakenAt[i] < n
  BY DEF RangeAssumption
<1>2. Ages \in SUBSET Nat /\ Ages # {}
  BY <1>1
<1>3. PICK a \in Ages : \A b \in Ages : a <= b
  BY <1>2, Least
<1>4. PICK i \in S : a = n - TakenAt[i]
  BY <1>3
<1>5. ASSUME NEW j \in S
      PROVE  TakenAt[j] <= TakenAt[i]
  <2>1. n - TakenAt[i] <= n - TakenAt[j]
    BY <1>3, <1>4, <1>5
  <2>. QED
    BY <1>1, <1>5, <2>1
<1>. QED
  BY <1>4, <1>5

LEMMA OldestOf ==
  ASSUME RangeAssumption, NEW S, S \subseteq Items, S # {}
  PROVE  /\ \E i \in S : Oldest(S) = TakenAt[i]
         /\ \A i \in S : Oldest(S) <= TakenAt[i]
<1>. DEFINE Times == {TakenAt[i] : i \in S}
<1>1. Times \in SUBSET Nat /\ Times # {}
  BY DEF RangeAssumption
<1>2. \E t \in Times : \A u \in Times : t <= u
  BY <1>1, Least
<1>3. \E t \in Times : \A i \in S : t <= TakenAt[i]
  BY <1>2
<1>4. Oldest(S) \in Times /\ \A i \in S : Oldest(S) <= TakenAt[i]
  BY <1>3 DEF Oldest
<1>. QED
  BY <1>4

LEMMA CurrentIsNew ==
  ASSUME RangeAssumption, Types, todo # {}
  PROVE  Current \in todo /\ Current \in Items
<1>1. Before \in Nat /\ todo \subseteq {i \in Items : TakenAt[i] < Before}
  BY DEF RangeAssumption, Types
<1>2. \E i \in todo : \A j \in todo : TakenAt[j] <= TakenAt[i]
  BY <1>1, NewestExists
<1>. QED
  BY <1>1, <1>2 DEF Current

-----------------------------------------------------------------------------
(* Sequences that grow by a name they do not have. *)
LEMMA Appended ==
  ASSUME NEW S, NEW s \in Seq(S), NEW p \in S
  PROVE  /\ Append(s, p) \in Seq(S) /\ Append(s, p) # <<>>
         /\ Range(Append(s, p)) = Range(s) \cup {p}
         /\ Distinct(s) /\ p \notin Range(s) => Distinct(Append(s, p))
<1>1. /\ Append(s, p) \in Seq(S) /\ Append(s, p) # <<>>
      /\ DOMAIN Append(s, p) = 1..Len(s) + 1 /\ Len(s) \in Nat /\ DOMAIN s = 1..Len(s)
      /\ \A k \in 1..Len(s) : Append(s, p)[k] = s[k]
      /\ Append(s, p)[Len(s) + 1] = p
  OBVIOUS
<1>2. Range(Append(s, p)) = Range(s) \cup {p}
  BY <1>1 DEF Range
<1>3. Distinct(s) /\ p \notin Range(s) => Distinct(Append(s, p))
  <2>. SUFFICES ASSUME Distinct(s), p \notin Range(s),
                       NEW a \in DOMAIN Append(s, p), NEW b \in DOMAIN Append(s, p),
                       Append(s, p)[a] = Append(s, p)[b]
                PROVE  a = b
    BY DEF Distinct
  <2>1. \A k \in 1..Len(s) : s[k] # p
    BY <1>1 DEF Range
  <2>. QED
    BY <1>1, <2>1 DEF Distinct
<1>. QED
  BY <1>1, <1>2, <1>3

LEMMA Joined ==
  ASSUME NEW S, NEW s \in Seq(S), NEW t \in Seq(S)
  PROVE  /\ s \o t \in Seq(S) /\ (s # <<>> => s \o t # <<>>)
         /\ Range(s \o t) = Range(s) \cup Range(t)
         /\ Distinct(s) /\ Distinct(t) /\ Range(s) \cap Range(t) = {} => Distinct(s \o t)
<1>1. /\ s \o t \in Seq(S) /\ Len(s) \in Nat /\ Len(t) \in Nat
      /\ DOMAIN (s \o t) = 1..Len(s) + Len(t) /\ DOMAIN s = 1..Len(s) /\ DOMAIN t = 1..Len(t)
      /\ \A k \in 1..Len(s) + Len(t) :
            (s \o t)[k] = IF k <= Len(s) THEN s[k] ELSE t[k - Len(s)]
  OBVIOUS
<1>2. Range(s \o t) = Range(s) \cup Range(t)
  <2>1. ASSUME NEW x \in Range(s \o t)
        PROVE  x \in Range(s) \cup Range(t)
    <3>1. PICK k \in 1..Len(s) + Len(t) : x = (s \o t)[k]
      BY <1>1 DEF Range
    <3>2. CASE k <= Len(s)
      BY <1>1, <3>1, <3>2 DEF Range
    <3>3. CASE ~(k <= Len(s))
      <4>1. k - Len(s) \in 1..Len(t)
        BY <1>1, <3>3
      <4>. QED
        BY <1>1, <3>1, <3>3, <4>1 DEF Range
    <3>. QED
      BY <3>2, <3>3
  <2>2. ASSUME NEW x \in Range(s)
        PROVE  x \in Range(s \o t)
    <3>1. PICK k \in 1..Len(s) : x = s[k]
      BY <1>1 DEF Range
    <3>2. k \in 1..Len(s) + Len(t) /\ (s \o t)[k] = x
      BY <1>1, <3>1
    <3>. QED
      BY <1>1, <3>2 DEF Range
  <2>3. ASSUME NEW x \in Range(t)
        PROVE  x \in Range(s \o t)
    <3>1. PICK k \in 1..Len(t) : x = t[k]
      BY <1>1 DEF Range
    <3>2. Len(s) + k \in 1..Len(s) + Len(t) /\ (s \o t)[Len(s) + k] = x
      BY <1>1, <3>1
    <3>. QED
      BY <1>1, <3>2 DEF Range
  <2>. QED
    BY <2>1, <2>2, <2>3
<1>3. Distinct(s) /\ Distinct(t) /\ Range(s) \cap Range(t) = {} => Distinct(s \o t)
  <2>. SUFFICES ASSUME Distinct(s), Distinct(t), Range(s) \cap Range(t) = {},
                       NEW a \in 1..Len(s) + Len(t), NEW b \in 1..Len(s) + Len(t),
                       (s \o t)[a] = (s \o t)[b]
                PROVE  a = b
    BY <1>1 DEF Distinct
  <2>1. \A k \in 1..Len(s), l \in 1..Len(t) : s[k] # t[l]
    BY <1>1 DEF Range
  <2>2. CASE a <= Len(s) /\ b <= Len(s)
    BY <1>1, <2>2 DEF Distinct
  <2>3. CASE a > Len(s) /\ b > Len(s)
    <3>1. a - Len(s) \in DOMAIN t /\ b - Len(s) \in DOMAIN t /\ t[a - Len(s)] = t[b - Len(s)]
      BY <1>1, <2>3
    <3>. QED
      BY <1>1, <3>1 DEF Distinct
  <2>4. CASE a <= Len(s) /\ b > Len(s)
    <3>1. b - Len(s) \in 1..Len(t) /\ s[a] = t[b - Len(s)]
      BY <1>1, <2>4
    <3>. QED
      BY <2>1, <2>4, <3>1
  <2>5. CASE a > Len(s) /\ b <= Len(s)
    <3>1. a - Len(s) \in 1..Len(t) /\ s[b] = t[a - Len(s)]
      BY <1>1, <2>5
    <3>. QED
      BY <2>1, <2>5, <3>1
  <2>. QED
    BY <1>1, <2>2, <2>3, <2>4, <2>5
<1>4. s # <<>> => s \o t # <<>>
  BY <1>1
<1>. QED
  BY <1>1, <1>2, <1>3, <1>4

(* The same of an index, entry by entry. *)
LEMMA SoundEntries ==
  ASSUME NEW idx
  PROVE  Sound(idx) <=>
            \A i \in DOMAIN idx :
               /\ Range(idx[i]) \subseteq DOMAIN disk /\ Distinct(idx[i])
               /\ \A j \in DOMAIN idx : i # j => Range(idx[i]) \cap Range(idx[j]) = {}
<1>1. ASSUME Sound(idx), NEW i \in DOMAIN idx
      PROVE  /\ Range(idx[i]) \subseteq DOMAIN disk /\ Distinct(idx[i])
             /\ \A j \in DOMAIN idx : i # j => Range(idx[i]) \cap Range(idx[j]) = {}
  BY <1>1 DEF Sound, Distinct, Range
<1>2. ASSUME \A i \in DOMAIN idx :
               /\ Range(idx[i]) \subseteq DOMAIN disk /\ Distinct(idx[i])
               /\ \A j \in DOMAIN idx : i # j => Range(idx[i]) \cap Range(idx[j]) = {}
      PROVE  Sound(idx)
  <2>. SUFFICES ASSUME NEW i \in DOMAIN idx, NEW j \in DOMAIN idx,
                       NEW a \in DOMAIN idx[i], NEW b \in DOMAIN idx[j],
                       idx[i][a] = idx[j][b]
                PROVE  i = j /\ a = b
    BY <1>2 DEF Sound
  <2>1. i = j
    BY <1>2 DEF Range
  <2>. QED
    BY <1>2, <2>1 DEF Distinct
<1>. QED
  BY <1>1, <1>2

-----------------------------------------------------------------------------
(* The names that are tried are paths, with the name they begin with. *)
LEMMA CandidatesArePaths ==
  ASSUME NEW q \in PathSet, NEW p \in Candidates(q)
  PROVE  p \in PathSet /\ p[1] = q[1]
<1>1. q = <<q[1], q[2]>> /\ q[1] \in Bases /\ q[2] \in Seq(2..MaxSuffix)
  BY DEF PathSet
<1>2. ASSUME NEW k \in 2..MaxSuffix
      PROVE  Numbered(q, k) \in PathSet /\ Numbered(q, k)[1] = q[1]
  <2>1. Append(q[2], k) \in Seq(2..MaxSuffix)
    BY <1>1
  <2>. QED
    BY <1>1, <2>1 DEF PathSet, Numbered
<1>. QED
  BY <1>2 DEF Candidates

LEMMA TargetIsPath ==
  ASSUME NameAssumption, NEW i \in Items \cup Raws
  PROVE  Target(i) \in PathSet
<1>1. NameOf[i] \in Names /\ <<>> \in Seq(2..MaxSuffix)
  BY DEF NameAssumption
<1>. QED
  BY <1>1 DEF Target, PathSet, Bases

LEMMA PosterIsPath ==
  ASSUME NameAssumption, NEW p \in PathSet, IsVideoPath(p)
  PROVE  Poster(p) \in PathSet /\ ~IsVideoPath(Poster(p))
<1>1. p = <<p[1], p[2]>> /\ p[2] \in Seq(2..MaxSuffix)
  BY DEF PathSet
<1>2. PosterName[p[1]] \in Names \ VideoNames
  BY DEF NameAssumption, IsVideoPath
<1>. QED
  BY <1>1, <1>2 DEF Poster, PathSet, Bases, IsVideoPath

(* A companion's name is no video's. *)
LEMMA CompanionIsNoVideo ==
  ASSUME NameAssumption, NEW r \in Raws
  PROVE  ~IsVideoPath(Target(r))
  BY DEF NameAssumption, Target, IsVideoPath

LEMMA OriginalFits ==
  ASSUME NEW i \in Items, NEW p \in PathSet
  PROVE  Original(i, p) = NoFile \/ Original(i, p) \in Content(p)
  BY DEF Original, Content

-----------------------------------------------------------------------------
(* Steps that leave the files, their names and the index alone. *)
LEMMA SameFiles ==
  ASSUME FilesInv, UNCHANGED <<disk, saved, index, used, files, got, open>>
  PROVE  InHand' /\ Taken' /\ Sound(index)' /\ Sound(saved)'
  BY DEF FilesInv, InHand, Taken, Sound, Distinct, Range

(* Files that are added leave an index sound. *)
LEMMA StillSound ==
  ASSUME FilesInv, DOMAIN disk \subseteq DOMAIN disk', UNCHANGED <<saved, index>>
  PROVE  Sound(index)' /\ Sound(saved)'
  BY DEF FilesInv, Sound

LEMMA OutsideStep ==
  ASSUME FilesInv, Upload \/ Age \/ Start \/ Refresh \/ NextPage
  PROVE  FilesInv'
<1>1. /\ UNCHANGED <<disk, saved, index, used, files, got, open, tmp, raws, target, skipped>>
      /\ UNCHANGED <<cursor, todo, named>>
      /\ library' \subseteq Items /\ session' \in {"live", "stale", "dead"}
      /\ \/ pc' = pc
         \/ pc = "idle" /\ pc' = "boot"
         \/ pc = "item" /\ todo = {} /\ pc' \in {"page", "done"}
  <2>1. library \subseteq Items /\ session \in {"live", "stale", "dead"}
    BY DEF FilesInv, Types
  <2>. QED
    BY <2>1 DEF env, Upload, Age, Start, Refresh, NextPage, dest, item, page, hist
<1>2. InHand' /\ Taken' /\ Sound(index)' /\ Sound(saved)'
  BY <1>1, SameFiles
<1>3. Types'
  BY <1>1 DEF FilesInv, Types, Steps, Content, IsVideoPath
<1>4. Running'
  BY <1>1 DEF FilesInv, Running, HasItem, Content, IsVideoPath
<1>. QED
  BY <1>2, <1>3, <1>4 DEF FilesInv

LEMMA ListPageStep ==
  ASSUME RangeAssumption, FilesInv, ListPage
  PROVE  FilesInv'
<1>1. /\ UNCHANGED <<library, session, disk, saved, index, used, files, got, open, tmp, raws>>
      /\ UNCHANGED <<target, skipped>>
      /\ pc = "page" /\ pc' \in {"item", "done"}
  BY DEF ListPage, env, dest, item, hist
<1>2. InHand' /\ Taken' /\ Sound(index)' /\ Sound(saved)'
  BY <1>1, SameFiles
<1>3. Listing \subseteq {i \in Items : TakenAt[i] < Before} /\ New(Listing) \subseteq Listing
  BY DEF Listing, Remaining, New, FilesInv, Types, RangeAssumption
<1>4. Listing # {} => Oldest(Listing) \in 0..Before
  <2>1. \A i \in Listing : TakenAt[i] \in 0..Before
    BY <1>3 DEF RangeAssumption
  <2>. QED
    BY <1>3, <2>1, OldestOf
<1>5. cursor' \in 0..Before /\ named' \in BOOLEAN
      /\ todo' \subseteq {i \in Items : TakenAt[i] < Before}
  <2>1. cursor \in 0..Before /\ named \in BOOLEAN /\ 0 \in 0..Before
        /\ todo \subseteq {i \in Items : TakenAt[i] < Before}
    BY DEF FilesInv, Types, RangeAssumption
  <2>. QED
    BY <1>3, <1>4, <2>1 DEF ListPage, page
<1>6. Types'
  BY <1>1, <1>5 DEF FilesInv, Types, Steps, Content, IsVideoPath
<1>7. Running'
  BY <1>1 DEF FilesInv, Running, HasItem
<1>. QED
  BY <1>2, <1>6, <1>7 DEF FilesInv

(* A run begins with the saved index, and all the names of it are taken. *)
LEMMA BootstrapStep ==
  ASSUME RangeAssumption, FilesInv, Bootstrap
  PROVE  FilesInv'
<1>1. /\ UNCHANGED <<library, disk, saved, todo, named, files, got, open, raws, skipped>>
      /\ tmp' = {} /\ index' = saved /\ pc = "boot" /\ pc' = "page" /\ session' = "live"
      /\ cursor' = Before /\ used' = UNION {Range(saved[i]) : i \in DOMAIN saved}
      /\ target' \subseteq library /\ open = NoFile
  BY DEF Bootstrap, item, FilesInv, Running
<1>2. Sound(index)' /\ Sound(saved)'
  BY <1>1 DEF FilesInv, Sound
<1>3. used' \subseteq DOMAIN disk
  BY <1>1 DEF FilesInv, Sound
<1>4. files = <<>> /\ got = <<>> /\ Range(files) = {} /\ Range(got) = {}
  BY <1>1 DEF FilesInv, Running, HasItem, Range
<1>5. InHand'
  BY <1>1, <1>4 DEF InHand, Distinct
<1>6. Taken'
  BY <1>1, <1>4 DEF Taken
<1>7. Types'
  BY <1>1, <1>3 DEF FilesInv, Types, Steps, RangeAssumption, Content, IsVideoPath
<1>8. Running'
  BY <1>1, <1>4 DEF FilesInv, Running, HasItem
<1>. QED
  BY <1>2, <1>5, <1>6, <1>7, <1>8 DEF FilesInv

(* The end of a run leaves what is on disk. *)
LEMMA ForgetStep ==
  ASSUME RangeAssumption, FilesInv, Abort \/ Finish \/ Crash
  PROVE  FilesInv'
<1>1. UNCHANGED <<library, session, disk, tmp, saved>> /\ Forget
  BY DEF Abort, Finish, Crash, env, dest
<1>2. /\ pc' = "idle" /\ index' = [i \in {} |-> <<>>] /\ used' = {} /\ cursor' = 0
      /\ todo' = {} /\ named' = FALSE /\ open' = NoFile /\ files' = <<>>
      /\ raws' = <<>> /\ got' = <<>> /\ skipped' = {} /\ target' = {}
  BY <1>1 DEF Forget
<1>3. Range(<<>>) = {} /\ Distinct(<<>>)
  BY DEF Range, Distinct
<1>4. DOMAIN index' = {}
  BY <1>2
<1>5. InHand' /\ Taken' /\ Sound(index)'
  BY <1>2, <1>3, <1>4 DEF InHand, Taken, Sound, NoFile
<1>6. Sound(saved)'
  BY <1>1 DEF FilesInv, Sound
<1>7. Types'
  <2>1. <<>> \in Seq(PathSet) /\ <<>> \in Seq(Raws) /\ 0 \in 0..Before
    BY DEF RangeAssumption
  <2>. QED
    BY <1>1, <1>2, <1>4, <2>1 DEF FilesInv, Types, Steps, Content, IsVideoPath
<1>8. Running'
  BY <1>1, <1>2 DEF Running, HasItem
<1>. QED
  BY <1>5, <1>6, <1>7, <1>8 DEF FilesInv

-----------------------------------------------------------------------------
(* A name that nothing holds is taken, for a file that is there already or *)
(* for a download.                                                         *)
LEMMA TakeStep ==
  ASSUME RangeAssumption, NameAssumption, FilesInv, Take
  PROVE  FilesInv'
<1>1. /\ UNCHANGED <<library, session, disk, saved, index, cursor, todo, named, raws, got>>
      /\ UNCHANGED <<target, skipped>>
      /\ pc = "item" /\ todo # {} /\ open = NoFile
  BY DEF Take, env, page, hist
<1>2. Current \in Items
  BY <1>1, CurrentIsNew DEF FilesInv
<1>3. PICK p \in Candidates(Target(Current)) :
        /\ p \notin used /\ used' = used \cup {p}
        /\ IF p \in DOMAIN disk
           THEN pc' = "record" /\ files' = <<p>> /\ UNCHANGED <<open, tmp>>
           ELSE /\ open' = <<p, Original(Current, p)>> /\ tmp' = tmp \cup {p}
                /\ UNCHANGED <<pc, files>>
  BY DEF Take, Resolves
<1>4. p \in PathSet
  BY <1>2, <1>3, TargetIsPath, CandidatesArePaths
<1>5. files = <<>> /\ got = <<>> /\ Range(files) = {} /\ Range(got) = {} /\ tmp \subseteq PathSet
  BY <1>1 DEF FilesInv, Types, Running, HasItem, Range
<1>6. Sound(index)' /\ Sound(saved)'
  BY <1>1, StillSound
<1>7. CASE p \in DOMAIN disk
  <2>1. /\ pc' = "record" /\ files' = <<p>> /\ open' = NoFile /\ tmp' = tmp
        /\ files' \in Seq(PathSet) /\ files' # <<>> /\ Range(files') = {p} /\ Distinct(files')
    <3>1. DOMAIN <<p>> = {1} /\ <<p>>[1] = p /\ <<p>> \in Seq(PathSet) /\ <<p>> # <<>>
      BY <1>4
    <3>2. Range(<<p>>) = {p} /\ Distinct(<<p>>)
      BY <3>1 DEF Range, Distinct
    <3>3. pc' = "record" /\ files' = <<p>> /\ open' = NoFile /\ tmp' = tmp
      BY <1>1, <1>3, <1>5, <1>7
    <3>. QED
      BY <3>1, <3>2, <3>3, Zenon
  <2>2. InHand'
    BY <1>1, <1>3, <1>5, <1>7, <2>1 DEF FilesInv, InHand
  <2>3. Taken'
    BY <1>1, <1>3, <1>5, <2>1 DEF FilesInv, Taken
  <2>4. Types'
    BY <1>1, <1>3, <1>4, <1>5, <2>1 DEF FilesInv, Types, Steps, HasItem, Content, IsVideoPath
  <2>5. Running'
    BY <1>1, <1>5, <2>1 DEF Running, HasItem
  <2>. QED
    BY <1>6, <2>2, <2>3, <2>4, <2>5 DEF FilesInv
<1>8. CASE p \notin DOMAIN disk
  <2>1. /\ open' = <<p, Original(Current, p)>> /\ tmp' = tmp \cup {p} /\ pc' = pc /\ files' = files
        /\ open'[1] = p /\ open'[2] = Original(Current, p)
    BY <1>3, <1>5, <1>8
  <2>2. InHand'
    BY <1>1, <1>3, <1>5, <1>8, <2>1 DEF FilesInv, InHand
  <2>3. Taken'
    BY <1>1, <1>3, <1>5, <2>1 DEF FilesInv, Taken
  <2>4. Types'
    BY <1>1, <1>3, <1>4, <1>5, <2>1 DEF FilesInv, Types, Content, IsVideoPath
  <2>5. open'[2] = NoFile \/ open'[2] \in Content(p)
    BY <1>2, <1>4, <2>1, OriginalFits
  <2>6. Running'
    BY <1>1, <1>4, <1>5, <2>1, <2>5 DEF Running, HasItem, NoFile, Content, IsVideoPath
  <2>. QED
    BY <1>6, <2>2, <2>3, <2>4, <2>6 DEF FilesInv
<1>. QED
  BY <1>7, <1>8

LEMMA AfterOwnFile ==
  CompanionStage \in {"group", "record"}
  BY DEF CompanionStage

LEMMA TakePosterStep ==
  ASSUME RangeAssumption, NameAssumption, FilesInv, TakePoster
  PROVE  FilesInv'
<1>1. /\ UNCHANGED <<library, session, disk, saved, index, cursor, todo, named, raws, got>>
      /\ UNCHANGED <<target, skipped>>
      /\ pc = "poster" /\ open = NoFile
  BY DEF TakePoster, env, page, hist
<1>2. /\ todo # {} /\ files # <<>> /\ files \in Seq(PathSet) /\ IsVideoPath(files[1])
      /\ got = <<>> /\ Range(got) = {} /\ tmp \subseteq PathSet
  BY <1>1 DEF FilesInv, Types, Running, HasItem, Range
<1>3. files[1] \in PathSet /\ Current \in Items
  BY <1>2, CurrentIsNew DEF FilesInv
<1>4. PICK p \in Candidates(Poster(files[1])) :
        /\ p \notin used /\ used' = used \cup {p}
        /\ IF p \in DOMAIN disk
           THEN pc' = CompanionStage /\ files' = Append(files, p) /\ UNCHANGED <<open, tmp>>
           ELSE /\ open' = <<p, <<Current, "poster">>>> /\ tmp' = tmp \cup {p}
                /\ UNCHANGED <<pc, files>>
  BY DEF TakePoster, Resolves
<1>5. p \in PathSet /\ ~IsVideoPath(p)
  BY <1>2, <1>3, <1>4, PosterIsPath, CandidatesArePaths DEF IsVideoPath
<1>6. Sound(index)' /\ Sound(saved)'
  BY <1>1, StillSound
<1>7. CASE p \in DOMAIN disk
  <2>1. Range(files) \subseteq used /\ Distinct(files)
    BY DEF FilesInv, InHand
  <2>2. /\ files' \in Seq(PathSet) /\ files' # <<>>
        /\ Range(files') = Range(files) \cup {p} /\ Distinct(files')
    <3>1. files' = Append(files, p) /\ p \notin Range(files)
      BY <1>4, <1>7, <2>1
    <3>. QED
      BY <1>2, <1>5, <2>1, <3>1, Appended
  <2>3. pc' \in {"group", "record"} /\ open' = NoFile /\ tmp' = tmp
    BY <1>1, <1>2, <1>4, <1>7, AfterOwnFile
  <2>4. InHand'
    BY <1>1, <1>2, <1>4, <1>7, <2>2, <2>3 DEF FilesInv, InHand
  <2>5. Taken'
    BY <1>1, <1>2, <1>4, <2>2 DEF FilesInv, Taken
  <2>6. Types'
    BY <1>1, <1>4, <1>5, <2>2, <2>3 DEF FilesInv, Types, Steps, HasItem, Content, IsVideoPath
  <2>7. Running'
    BY <1>1, <1>2, <2>2, <2>3 DEF Running, HasItem
  <2>. QED
    BY <1>6, <2>4, <2>5, <2>6, <2>7 DEF FilesInv
<1>8. CASE p \notin DOMAIN disk
  <2>1. /\ open' = <<p, <<Current, "poster">>>> /\ tmp' = tmp \cup {p} /\ pc' = pc /\ files' = files
        /\ open'[1] = p /\ open'[2] = <<Current, "poster">>
    BY <1>2, <1>4, <1>8
  <2>2. InHand'
    BY <1>1, <1>4, <1>8, <2>1 DEF FilesInv, InHand
  <2>3. Taken'
    BY <1>1, <1>4, <2>1 DEF FilesInv, Taken
  <2>4. Types'
    BY <1>1, <1>4, <1>5, <2>1 DEF FilesInv, Types, Content, IsVideoPath
  <2>5. open'[2] \in Content(p)
    BY <1>3, <1>5, <2>1 DEF Content, IsVideoPath
  <2>6. Running'
    BY <1>1, <1>2, <1>5, <2>1, <2>5 DEF Running, HasItem, NoFile, Content, IsVideoPath
  <2>. QED
    BY <1>6, <2>2, <2>3, <2>4, <2>6 DEF FilesInv
<1>. QED
  BY <1>7, <1>8

LEMMA TakeCompanionStep ==
  ASSUME RangeAssumption, NameAssumption, FilesInv, TakeCompanion
  PROVE  FilesInv'
<1>1. /\ UNCHANGED <<library, session, disk, saved, index, cursor, todo, named, files, pc>>
      /\ UNCHANGED <<target, skipped>>
      /\ pc = "companion" /\ open = NoFile /\ raws # <<>>
  BY DEF TakeCompanion, env, page, hist
<1>2. /\ todo # {} /\ files # <<>> /\ got \in Seq(PathSet) /\ tmp \subseteq PathSet
      /\ raws \in Seq(Raws) /\ Head(raws) \in Raws /\ Tail(raws) \in Seq(Raws)
  BY <1>1 DEF FilesInv, Types, Running, HasItem
<1>3. PICK p \in Candidates(Target(Head(raws))) :
        /\ p \notin used /\ used' = used \cup {p}
        /\ IF p \in DOMAIN disk
           THEN got' = Append(got, p) /\ raws' = Tail(raws) /\ UNCHANGED <<open, tmp>>
           ELSE /\ open' = <<p, <<Head(raws), "photo">>>> /\ tmp' = tmp \cup {p}
                /\ UNCHANGED <<got, raws>>
  BY DEF TakeCompanion, Resolves
<1>4. p \in PathSet /\ ~IsVideoPath(p)
  <2>1. Target(Head(raws)) \in PathSet /\ ~IsVideoPath(Target(Head(raws)))
    BY <1>2, TargetIsPath, CompanionIsNoVideo
  <2>. QED
    BY <1>3, <2>1, CandidatesArePaths DEF IsVideoPath
<1>5. Sound(index)' /\ Sound(saved)'
  BY <1>1, StillSound
<1>6. CASE p \in DOMAIN disk
  <2>1. Range(got) \subseteq used /\ Range(files) \subseteq used /\ Distinct(got)
    BY DEF FilesInv, InHand
  <2>2. got' \in Seq(PathSet) /\ Range(got') = Range(got) \cup {p} /\ Distinct(got')
    <3>1. got' = Append(got, p) /\ p \notin Range(got)
      BY <1>3, <1>6, <2>1
    <3>. QED
      BY <1>2, <1>4, <2>1, <3>1, Appended
  <2>3. open' = NoFile /\ tmp' = tmp /\ raws' \in Seq(Raws)
    BY <1>1, <1>2, <1>3, <1>6
  <2>4. InHand'
    BY <1>1, <1>3, <1>6, <2>1, <2>2, <2>3 DEF FilesInv, InHand
  <2>5. Taken'
    BY <1>1, <1>3, <2>2 DEF FilesInv, Taken
  <2>6. Types'
    BY <1>1, <1>3, <1>4, <2>2, <2>3 DEF FilesInv, Types, Content, IsVideoPath
  <2>7. Running'
    BY <1>1, <1>2, <2>3 DEF Running, HasItem
  <2>. QED
    BY <1>5, <2>4, <2>5, <2>6, <2>7 DEF FilesInv
<1>7. CASE p \notin DOMAIN disk
  <2>1. /\ open' = <<p, <<Head(raws), "photo">>>> /\ tmp' = tmp \cup {p} /\ got' = got /\ raws' = raws
        /\ open'[1] = p /\ open'[2] = <<Head(raws), "photo">>
    BY <1>2, <1>3, <1>7
  <2>2. InHand'
    BY <1>1, <1>3, <1>7, <2>1 DEF FilesInv, InHand
  <2>3. Taken'
    BY <1>1, <1>3, <2>1 DEF FilesInv, Taken
  <2>4. Types'
    BY <1>1, <1>3, <1>4, <2>1 DEF FilesInv, Types, Content, IsVideoPath
  <2>5. open'[2] \in Content(p)
    BY <1>2, <1>4, <2>1 DEF Content, IsVideoPath
  <2>6. Running'
    BY <1>1, <1>2, <1>4, <2>1, <2>5 DEF Running, HasItem, NoFile, Content, IsVideoPath
  <2>. QED
    BY <1>5, <2>2, <2>3, <2>4, <2>6 DEF FilesInv
<1>. QED
  BY <1>6, <1>7

LEMMA ResolveGroupStep ==
  ASSUME RangeAssumption, NameAssumption, FilesInv, ResolveGroup
  PROVE  FilesInv'
<1>1. /\ UNCHANGED <<library, session, disk, saved, index, used, files, got, open, tmp>>
      /\ UNCHANGED <<cursor, todo, named, target, skipped>>
      /\ pc = "group" /\ pc' \in {"companion", "record"} /\ raws' \in {raws, RawsOf[Current]}
  BY DEF ResolveGroup, env, dest, page, hist
<1>2. InHand' /\ Taken' /\ Sound(index)' /\ Sound(saved)'
  BY <1>1, SameFiles
<1>3. raws' \in Seq(Raws)
  <2>1. todo # {} /\ raws \in Seq(Raws)
    BY <1>1 DEF FilesInv, Types, Running, HasItem
  <2>2. Current \in Items
    BY <2>1, CurrentIsNew DEF FilesInv
  <2>. QED
    BY <1>1, <2>1, <2>2 DEF NameAssumption
<1>4. Types'
  BY <1>1, <1>3 DEF FilesInv, Types, Steps, HasItem, Content, IsVideoPath
<1>5. Running'
  BY <1>1 DEF FilesInv, Running, HasItem
<1>. QED
  BY <1>2, <1>4, <1>5 DEF FilesInv

LEMMA CompanionsDoneStep ==
  ASSUME FilesInv, CompanionsDone
  PROVE  FilesInv'
<1>1. /\ UNCHANGED <<library, session, disk, saved, index, used, open, tmp, raws>>
      /\ UNCHANGED <<cursor, todo, named, target, skipped>>
      /\ pc = "companion" /\ raws = <<>> /\ files' = files \o got /\ got' = <<>>
      /\ pc' = "record"
  BY DEF CompanionsDone, env, dest, page, hist
<1>2. /\ files \in Seq(PathSet) /\ got \in Seq(PathSet) /\ files # <<>> /\ todo # {}
      /\ open = NoFile /\ tmp \subseteq PathSet
  BY <1>1 DEF FilesInv, Types, Running, HasItem
<1>3. Distinct(files) /\ Distinct(got) /\ Range(files) \cap Range(got) = {}
  BY DEF FilesInv, InHand
<1>4. /\ files \o got \in Seq(PathSet) /\ files \o got # <<>>
      /\ Range(files \o got) = Range(files) \cup Range(got) /\ Distinct(files \o got)
  BY <1>2, <1>3, Joined
<1>5. Range(<<>>) = {} /\ Distinct(<<>>) /\ <<>> \in Seq(PathSet)
  BY DEF Range, Distinct
<1>6. InHand'
  BY <1>1, <1>2, <1>4, <1>5 DEF FilesInv, InHand
<1>7. Taken'
  BY <1>1, <1>4, <1>5 DEF FilesInv, Taken
<1>8. Sound(index)' /\ Sound(saved)'
  BY <1>1, StillSound
<1>9. Types'
  BY <1>1, <1>4, <1>5 DEF FilesInv, Types, Steps, HasItem, Content, IsVideoPath
<1>10. Running'
  BY <1>1, <1>2, <1>4 DEF Running, HasItem
<1>. QED
  BY <1>6, <1>7, <1>8, <1>9, <1>10 DEF FilesInv

(* The rename that makes a download final: the file was not there before.  *)
LEMMA CommitStep ==
  ASSUME RangeAssumption, NameAssumption, FilesInv, Commit
  PROVE  /\ FilesInv'
         /\ \A p \in DOMAIN disk : p \in DOMAIN disk' /\ disk'[p] = disk[p]
<1>. DEFINE p == open[1]
<1>1. /\ UNCHANGED <<library, session, saved, index, used, cursor, todo, named>>
      /\ UNCHANGED <<target, skipped>>
      /\ open # NoFile /\ open[2] # NoFile /\ open' = NoFile /\ tmp' = tmp \ {p}
  BY DEF Commit, env, page, hist
<1>2. /\ p \in PathSet /\ open[2] \in Content(p) /\ tmp \subseteq PathSet
      /\ pc \in {"item", "poster", "companion"} /\ todo # {}
      /\ pc = "companion" => raws # <<>>
      /\ p \in used /\ p \notin DOMAIN disk
      /\ files \in Seq(PathSet) /\ got \in Seq(PathSet) /\ raws \in Seq(Raws)
  BY <1>1 DEF FilesInv, Types, Running, InHand, HasItem
<1>3. /\ DOMAIN disk' = DOMAIN disk \cup {p} /\ disk'[p] = open[2]
      /\ \A q \in DOMAIN disk : disk'[q] = disk[q]
  BY <1>2 DEF Commit
<1>4. Sound(index)' /\ Sound(saved)'
  BY <1>1, <1>3, StillSound
<1>5. /\ Range(files) \cup Range(got) \subseteq DOMAIN disk \cap used
      /\ Range(files) \cap Range(got) = {} /\ Distinct(files) /\ Distinct(got)
      /\ p \notin Range(files) /\ p \notin Range(got)
  BY <1>2 DEF FilesInv, InHand
<1>6. \A i \in DOMAIN index :
        /\ Range(index[i]) \subseteq used /\ p \notin Range(index[i])
        /\ Range(index[i]) \cap (Range(files) \cup Range(got)) = {}
  BY <1>2 DEF FilesInv, Taken, Sound
<1>7. \A q \in DOMAIN disk' : disk'[q] \in Content(q)
  BY <1>2, <1>3 DEF FilesInv, Types
<1>8. CASE pc = "item"
  <2>1. /\ files' = <<p>> /\ UNCHANGED <<raws, got>>
        /\ pc' = IF IsVideoPath(p) THEN "poster" ELSE CompanionStage
    BY <1>8 DEF Commit
  <2>2. files = <<>> /\ got = <<>> /\ Range(got) = {}
    BY <1>8 DEF FilesInv, Running, HasItem, Range
  <2>3. DOMAIN <<p>> = {1} /\ <<p>>[1] = p /\ <<p>> \in Seq(PathSet) /\ <<p>> # <<>>
    BY <1>2
  <2>4. Range(<<p>>) = {p} /\ Distinct(<<p>>)
    BY <2>3 DEF Range, Distinct
  <2>5. InHand'
    BY <1>1, <1>2, <1>3, <1>5, <2>1, <2>2, <2>4 DEF InHand
  <2>6. Taken'
    BY <1>1, <1>6, <2>1, <2>2, <2>4 DEF Taken
  <2>7. pc' \in {"poster", "group", "record"} /\ (pc' = "poster" => IsVideoPath(p))
    BY <2>1, AfterOwnFile
  <2>8. Types'
    BY <1>1, <1>2, <1>3, <1>7, <2>1, <2>3, <2>7
       DEF FilesInv, Types, Steps, HasItem, Content, IsVideoPath
  <2>9. Running'
    BY <1>1, <1>2, <2>1, <2>2, <2>3, <2>7 DEF Running, HasItem, IsVideoPath
  <2>. QED
    BY <1>3, <1>4, <2>5, <2>6, <2>8, <2>9 DEF FilesInv
<1>9. CASE pc = "poster"
  <2>1. files' = Append(files, p) /\ UNCHANGED <<raws, got>> /\ pc' = CompanionStage
    BY <1>9 DEF Commit
  <2>2. /\ files' \in Seq(PathSet) /\ files' # <<>>
        /\ Range(files') = Range(files) \cup {p} /\ Distinct(files')
    BY <1>2, <1>5, <2>1, Appended
  <2>3. pc' \in {"group", "record"} /\ got = <<>>
    BY <1>9, <2>1, AfterOwnFile DEF FilesInv, Running
  <2>4. InHand'
    BY <1>1, <1>2, <1>3, <1>5, <2>1, <2>2 DEF InHand
  <2>5. Taken'
    BY <1>1, <1>6, <2>1, <2>2 DEF Taken
  <2>6. Types'
    BY <1>1, <1>2, <1>3, <1>7, <2>1, <2>2, <2>3
       DEF FilesInv, Types, Steps, HasItem, Content, IsVideoPath
  <2>7. Running'
    BY <1>1, <1>2, <2>1, <2>2, <2>3 DEF Running, HasItem
  <2>. QED
    BY <1>3, <1>4, <2>4, <2>5, <2>6, <2>7 DEF FilesInv
<1>10. CASE pc = "companion"
  <2>1. got' = Append(got, p) /\ raws' = Tail(raws) /\ UNCHANGED <<files, pc>>
    BY <1>10 DEF Commit
  <2>2. got' \in Seq(PathSet) /\ Range(got') = Range(got) \cup {p} /\ Distinct(got')
    BY <1>2, <1>5, <2>1, Appended
  <2>3. files # <<>> /\ raws' \in Seq(Raws)
    BY <1>2, <1>10, <2>1 DEF FilesInv, Running, HasItem
  <2>4. InHand'
    BY <1>1, <1>2, <1>3, <1>5, <2>1, <2>2 DEF InHand
  <2>5. Taken'
    BY <1>1, <1>6, <2>1, <2>2 DEF Taken
  <2>6. Types'
    BY <1>1, <1>2, <1>3, <1>7, <2>1, <2>2, <2>3
       DEF FilesInv, Types, Steps, HasItem, Content, IsVideoPath
  <2>7. Running'
    BY <1>1, <1>2, <1>10, <2>1, <2>3 DEF Running, HasItem
  <2>. QED
    BY <1>3, <1>4, <2>4, <2>5, <2>6, <2>7 DEF FilesInv
<1>. QED
  BY <1>2, <1>8, <1>9, <1>10

LEMMA FetchFailsStep ==
  ASSUME RangeAssumption, FilesInv, FetchFails
  PROVE  FilesInv'
<1>1. /\ UNCHANGED <<library, session, disk, saved, index, used, cursor, named, files, target>>
      /\ open # NoFile /\ open' = NoFile /\ tmp' \subseteq tmp
  BY DEF FetchFails, env
<1>2. /\ pc \in {"item", "poster", "companion"} /\ todo # {} /\ tmp \subseteq PathSet
      /\ raws \in Seq(Raws) /\ <<>> \in Seq(Raws) /\ <<>> \in Seq(PathSet)
  BY <1>1 DEF FilesInv, Types, Running, HasItem
<1>3. Current \in Items
  BY <1>2, CurrentIsNew DEF FilesInv
<1>4. /\ todo' \subseteq todo /\ skipped' \subseteq skipped \cup {Current}
      /\ raws' \in {raws, <<>>} /\ got' \in {got, <<>>}
      /\ pc' \in {"item", "group", "record"}
      /\ pc' = "item" <=> pc = "item"
      /\ pc # "item" => todo' = todo
      /\ pc = "companion" => got' = <<>>
  BY <1>2, AfterOwnFile DEF FetchFails
<1>5. Range(<<>>) = {} /\ Distinct(<<>>)
  BY DEF Range, Distinct
<1>6. InHand'
  BY <1>1, <1>4, <1>5 DEF FilesInv, InHand
<1>7. Taken'
  BY <1>1, <1>4, <1>5 DEF FilesInv, Taken
<1>8. Sound(index)' /\ Sound(saved)'
  BY <1>1, StillSound
<1>9. Types'
  BY <1>1, <1>2, <1>3, <1>4 DEF FilesInv, Types, Steps, HasItem, Content, IsVideoPath
<1>10. Running'
  BY <1>1, <1>2, <1>4 DEF FilesInv, Running, HasItem
<1>. QED
  BY <1>6, <1>7, <1>8, <1>9, <1>10 DEF FilesInv

(* The item in hand becomes an entry, whose names no other has. *)
LEMMA RecordStep ==
  ASSUME RangeAssumption, FilesInv, Record
  PROVE  FilesInv'
<1>1. /\ UNCHANGED <<library, session, disk, tmp, used, cursor, named, open, raws, got>>
      /\ UNCHANGED <<target, skipped>>
      /\ pc = "record" /\ pc' = "item" /\ files' = <<>> /\ saved' \in {index', saved}
      /\ todo' \subseteq todo
  BY DEF Record, env, hist
<1>2. todo # {} /\ open = NoFile /\ got = <<>> /\ tmp \subseteq PathSet /\ <<>> \in Seq(PathSet)
  BY <1>1 DEF FilesInv, Types, Running, HasItem
<1>3. Current \in Items
  BY <1>2, CurrentIsNew DEF FilesInv
<1>4. /\ DOMAIN index' = DOMAIN index \cup {Current} /\ index'[Current] = files
      /\ \A i \in DOMAIN index \ {Current} : index'[i] = index[i]
  BY DEF Record
<1>5. Range(<<>>) = {} /\ Distinct(<<>>)
  BY DEF Range, Distinct
<1>6. Distinct(files) /\ Range(files) \subseteq DOMAIN disk \cap used
  BY DEF FilesInv, InHand
<1>7. \A i \in DOMAIN index :
         /\ Range(index[i]) \subseteq DOMAIN disk \cap used /\ Distinct(index[i])
         /\ Range(index[i]) \cap Range(files) = {}
         /\ \A j \in DOMAIN index : i # j => Range(index[i]) \cap Range(index[j]) = {}
  BY SoundEntries DEF FilesInv, Taken
<1>8. \A i \in DOMAIN index' :
         /\ Range(index'[i]) \subseteq DOMAIN disk \cap used /\ Distinct(index'[i])
         /\ \A j \in DOMAIN index' : i # j => Range(index'[i]) \cap Range(index'[j]) = {}
  BY <1>4, <1>6, <1>7
<1>9. Sound(index')
  BY <1>8, SoundEntries
<1>10. Sound(index)' /\ Sound(saved)'
  BY <1>1, <1>9 DEF FilesInv, Sound
<1>11. InHand'
  BY <1>1, <1>2, <1>5 DEF InHand
<1>12. Taken'
  BY <1>1, <1>2, <1>5, <1>8 DEF Taken
<1>13. Types'
  BY <1>1, <1>2, <1>3, <1>4 DEF FilesInv, Types, Steps, HasItem, Content, IsVideoPath
<1>14. Running'
  BY <1>1, <1>2 DEF FilesInv, Running, HasItem
<1>. QED
  BY <1>10, <1>11, <1>12, <1>13, <1>14 DEF FilesInv

-----------------------------------------------------------------------------
LEMMA FilesInit ==
  ASSUME RangeAssumption, Init
  PROVE  FilesInv
<1>1. <<>> \in Seq(PathSet) /\ <<>> \in Seq(Raws) /\ 0 \in 0..Before
      /\ Range(<<>>) = {} /\ Distinct(<<>>)
  BY DEF RangeAssumption, Range, Distinct
<1>2. Types
  BY <1>1 DEF Init, Types, Steps, HasItem
<1>3. Running
  BY DEF Init, Running, HasItem
<1>4. InHand
  BY <1>1 DEF Init, InHand
<1>5. Taken /\ Sound(index) /\ Sound(saved)
  BY DEF Init, Taken, Sound
<1>. QED
  BY <1>2, <1>3, <1>4, <1>5 DEF FilesInv

LEMMA FilesStep ==
  ASSUME RangeAssumption, NameAssumption, FilesInv, [Next]_vars
  PROVE  FilesInv'
<1>1. CASE Upload \/ Age \/ Start \/ Refresh \/ NextPage
  BY <1>1, OutsideStep
<1>2. CASE Bootstrap
  BY <1>2, BootstrapStep
<1>3. CASE Abort \/ Finish \/ Crash
  BY <1>3, ForgetStep
<1>4. CASE ListPage
  BY <1>4, ListPageStep
<1>5. CASE Take
  BY <1>5, TakeStep
<1>6. CASE TakePoster
  BY <1>6, TakePosterStep
<1>7. CASE ResolveGroup
  BY <1>7, ResolveGroupStep
<1>8. CASE TakeCompanion
  BY <1>8, TakeCompanionStep
<1>9. CASE CompanionsDone
  BY <1>9, CompanionsDoneStep
<1>10. CASE Commit
  BY <1>10, CommitStep
<1>11. CASE FetchFails
  BY <1>11, FetchFailsStep
<1>12. CASE Record
  BY <1>12, RecordStep
<1>13. CASE UNCHANGED vars
  <2>1. UNCHANGED <<env, dest, pc, index, used>> /\ UNCHANGED <<page, item, hist>>
    BY <1>13 DEF vars
  <2>2. /\ UNCHANGED <<library, session, disk, tmp, saved, pc, index, used>>
        /\ UNCHANGED <<cursor, todo, named, open, files, raws, got, target, skipped>>
    BY <2>1 DEF env, dest, page, item, hist
  <2>3. InHand' /\ Taken' /\ Sound(index)' /\ Sound(saved)'
    BY <2>2, SameFiles
  <2>4. Types'
    BY <2>2 DEF FilesInv, Types, Content, IsVideoPath
  <2>5. Running'
    BY <2>2 DEF FilesInv, Running, HasItem, Content, IsVideoPath
  <2>. QED
    BY <2>3, <2>4, <2>5 DEF FilesInv
<1>. QED
  BY <1>1, <1>2, <1>3, <1>4, <1>5, <1>6, <1>7, <1>8, <1>9, <1>10, <1>11, <1>12, <1>13 DEF Next

(* Of any library, whose items have a time in range or not and any names, *)
(* the directory, the index and the run's memory keep their types: a file  *)
(* with a video extension never holds a preview image, and a run's only    *)
(* temporary file is that of the download in progress (writeAtomically).   *)
THEOREM TypeCorrect ==
  ASSUME RangeAssumption, NameAssumption
  PROVE  Spec => []TypeOK
<1>1. Init => FilesInv
  BY FilesInit
<1>2. FilesInv /\ [Next]_vars => FilesInv'
  BY FilesStep
<1>3. FilesInv => TypeOK
  <2>1. RangeAssumption /\ FilesInv => cursor \in Nat
    BY DEF RangeAssumption, FilesInv, Types
  <2>2. FilesInv => \A p \in Paths : p[1] \in Bases /\ p[2] \in Seq(2..MaxSuffix)
    BY DEF FilesInv, Types, Paths, PathSet
  <2>. QED
    BY <2>1, <2>2 DEF FilesInv, Types, Running, TypeOK, Content, Steps, HasItem
<1>. QED
  BY <1>1, <1>2, <1>3, PTL DEF Spec

(* No two entries of the index name one file and every file they name is   *)
(* there, in memory and in the saved index, at every point of every run    *)
(* and after any run that was killed (resolveFilename, writeAtomically and *)
(* the index that is saved after each item).                               *)
THEOREM IndexIsSound ==
  ASSUME RangeAssumption, NameAssumption
  PROVE  Spec => []DistinctFiles
<1>1. Init => FilesInv
  BY FilesInit
<1>2. FilesInv /\ [Next]_vars => FilesInv'
  BY FilesStep
<1>3. FilesInv => DistinctFiles
  BY DEF FilesInv, DistinctFiles
<1>. QED
  BY <1>1, <1>2, <1>3, PTL DEF Spec

(* No step replaces or removes a file of the directory: the rename that    *)
(* makes a download final meets a name that no file has.                   *)
THEOREM NothingOverwritten ==
  ASSUME RangeAssumption, NameAssumption
  PROVE  Spec => Kept
<1>1. Init => FilesInv
  BY FilesInit
<1>2. FilesInv /\ [Next]_vars => FilesInv'
  BY FilesStep
<1>3. FilesInv /\ [Next]_vars => [KeepsFiles]_vars
  <2>1. CASE Commit
    BY <2>1, CommitStep DEF KeepsFiles
  <2>2. ASSUME [Next]_vars, ~Commit
        PROVE  disk' = disk
    BY <2>2 DEF Next, vars, dest, Upload, Age, Start, Bootstrap, Abort, Refresh, ListPage,
                NextPage, Take, TakePoster, ResolveGroup, TakeCompanion, CompanionsDone,
                FetchFails, Record, Finish, Crash
  <2>3. disk' = disk => KeepsFiles
    BY DEF KeepsFiles
  <2>. QED
    BY <2>1, <2>2, <2>3
<1>. QED
  BY <1>1, <1>2, <1>3, PTL DEF Spec, Kept

-----------------------------------------------------------------------------
(* A page leaves out nothing that is newer than an item it shows. *)
LEMMA PageIsWhole ==
  ASSUME RangeAssumption, Types, NEW j \in Listing, NEW i \in Remaining,
         TakenAt[j] <= TakenAt[i]
  PROVE  i \in Listing
<1>1. /\ IsFiniteSet(Items) /\ Remaining \subseteq Items /\ PageSize \in Nat
      /\ \A k \in Remaining : TakenAt[k] \in Nat
  BY DEF RangeAssumption, Types, Remaining
<1>2. j \in Remaining /\ Cardinality(Newer(j)) < PageSize
  BY DEF Listing
<1>3. Newer(i) \subseteq Newer(j)
  BY <1>1, <1>2 DEF Newer
<1>4. IsFiniteSet(Newer(j))
  BY <1>1, FS_Subset DEF Newer
<1>5. /\ Cardinality(Newer(i)) <= Cardinality(Newer(j))
      /\ Cardinality(Newer(i)) \in Nat /\ Cardinality(Newer(j)) \in Nat
  BY <1>3, <1>4, FS_Subset, FS_CardinalityType
<1>. QED
  BY <1>1, <1>2, <1>5 DEF Listing

(* A page is empty only when nothing remains. *)
LEMMA PageShowsSome ==
  ASSUME RangeAssumption, Types, Remaining # {}
  PROVE  Listing # {}
<1>1. Remaining \subseteq {i \in Items : TakenAt[i] < cursor} /\ cursor \in Nat
  BY DEF RangeAssumption, Types, Remaining
<1>2. PICK i \in Remaining : \A j \in Remaining : TakenAt[j] <= TakenAt[i]
  BY <1>1, NewestExists
<1>3. \A j \in Remaining : TakenAt[j] \in Nat /\ TakenAt[i] \in Nat
  BY <1>1 DEF RangeAssumption
<1>4. Newer(i) = {}
  BY <1>2, <1>3 DEF Newer
<1>5. Cardinality(Newer(i)) < PageSize
  BY <1>4, FS_EmptySet DEF RangeAssumption
<1>. QED
  BY <1>2, <1>5 DEF Listing

LEMMA CoveredByPage ==
  ASSUME RangeAssumption, Types, Covered, ListPage
  PROVE  Covered'
<1>1. /\ UNCHANGED <<library, index, target, skipped>> /\ pc = "page"
  BY DEF ListPage, env, hist
<1>. SUFFICES ASSUME NEW i \in target, i \notin DOMAIN index \cup skipped
              PROVE  \/ pc' # "done" /\ TakenAt[i] < cursor'
                     \/ pc' \in HasItem \cup {"item"} /\ i \in todo'
  BY <1>1 DEF Covered
<1>2. i \in Remaining /\ TakenAt[i] >= After /\ i \in Items /\ TakenAt[i] \in Nat
  BY <1>1 DEF Covered, Remaining, HasItem, Types, RangeAssumption
<1>3. Listing # {}
  BY <1>2, PageShowsSome
<1>4. /\ pc' = "item" /\ todo' = New(Listing)
      /\ cursor' = IF IsLast(Listing) THEN 0 ELSE Oldest(Listing)
  BY <1>3 DEF ListPage
<1>5. CASE i \in Listing
  BY <1>2, <1>4, <1>5 DEF New
<1>6. CASE i \notin Listing
  <2>1. \A j \in Listing : TakenAt[j] \in Nat /\ TakenAt[i] < TakenAt[j]
    <3>1. \A j \in Listing : ~(TakenAt[j] <= TakenAt[i])
      BY <1>2, <1>6, PageIsWhole
    <3>2. Listing \subseteq Items
      BY DEF Listing, Remaining, Types
    <3>. QED
      BY <1>2, <3>1, <3>2 DEF RangeAssumption
  <2>2. ~IsLast(Listing)
    BY <1>2, <1>6, <2>1 DEF IsLast, RangeAssumption
  <2>3. \E j \in Listing : Oldest(Listing) = TakenAt[j]
    <3>1. Listing \subseteq Items
      BY DEF Listing, Remaining, Types
    <3>. QED
      BY <1>3, <3>1, OldestOf
  <2>. QED
    BY <1>4, <2>1, <2>2, <2>3
<1>. QED
  BY <1>5, <1>6

(* What is to be fetched stays accounted for at every step. *)
LEMMA CoveredStep ==
  ASSUME RangeAssumption, NameAssumption, FilesInv, Covered, [Next]_vars
  PROVE  Covered'
<1>1. CASE Upload
  <2>1. UNCHANGED <<pc, index, cursor, todo, target, skipped>> /\ library \subseteq library'
    BY <1>1 DEF Upload, page, hist
  <2>. QED
    BY <2>1 DEF Covered
<1>2. CASE Age \/ Refresh \/ UNCHANGED vars
  <2>1. UNCHANGED <<pc, index, cursor, todo, target, skipped, library>>
    BY <1>2 DEF Age, Refresh, vars, env, page, hist
  <2>. QED
    BY <2>1 DEF Covered
<1>3. CASE Start \/ Abort \/ Finish \/ Crash
  <2>1. target' = {}
    BY <1>3 DEF Start, Abort, Finish, Crash, Forget, hist, FilesInv, Running
  <2>. QED
    BY <2>1 DEF Covered
<1>4. CASE Bootstrap
  <2>1. /\ target' = {i \in library : After <= TakenAt[i] /\ TakenAt[i] < Before}
        /\ cursor' = Before /\ pc' = "page" /\ library' = library
    BY <1>4 DEF Bootstrap
  <2>2. \A i \in library : TakenAt[i] \in Nat
    BY DEF FilesInv, Types, RangeAssumption
  <2>. QED
    BY <2>1, <2>2 DEF Covered, RangeAssumption
<1>5. CASE ListPage
  BY <1>5, CoveredByPage DEF FilesInv
<1>6. CASE NextPage
  <2>1. /\ UNCHANGED <<library, index, cursor, todo, target, skipped>>
        /\ pc = "item" /\ todo = {} /\ pc' = IF cursor = 0 THEN "done" ELSE "page"
    BY <1>6 DEF NextPage, env, page, hist
  <2>2. \A i \in target : i \in DOMAIN index \cup skipped \/ (TakenAt[i] < cursor /\ cursor # 0)
    <3>1. \A i \in target : TakenAt[i] \in Nat
      BY DEF FilesInv, Types, RangeAssumption
    <3>. QED
      BY <2>1, <3>1 DEF Covered
  <2>. QED
    BY <2>1, <2>2 DEF Covered
<1>7. CASE Take \/ TakePoster \/ ResolveGroup \/ TakeCompanion \/ CompanionsDone \/ Commit
  <2>1. /\ UNCHANGED <<library, index, cursor, todo, target, skipped>>
        /\ pc \in HasItem \cup {"item"} /\ pc' \in HasItem \cup {"item"}
    <3>1. open # NoFile => pc \in {"item", "poster", "companion"}
      BY DEF FilesInv, Running
    <3>2. Commit => pc' \in HasItem \cup {"item"}
      <4>1. CASE Commit /\ pc = "item"
        BY <4>1, AfterOwnFile DEF Commit, HasItem
      <4>2. CASE Commit /\ pc = "poster"
        BY <4>2, AfterOwnFile DEF Commit, HasItem
      <4>3. CASE Commit /\ pc = "companion"
        BY <4>3 DEF Commit, HasItem
      <4>. QED
        BY <3>1, <4>1, <4>2, <4>3 DEF Commit
    <3>3. Commit => /\ UNCHANGED <<library, index, cursor, todo, target, skipped>>
                    /\ open # NoFile
      BY DEF Commit, env, page, hist
    <3>4. CASE Commit
      BY <3>1, <3>2, <3>3, <3>4 DEF HasItem
    <3>5. CASE Take \/ TakePoster \/ ResolveGroup \/ TakeCompanion \/ CompanionsDone
      BY <3>5, AfterOwnFile DEF Take, TakePoster, ResolveGroup, TakeCompanion,
         CompanionsDone, env, dest, page, hist, HasItem
    <3>. QED
      BY <1>7, <3>4, <3>5
  <2>. QED
    BY <2>1 DEF Covered, HasItem
<1>8. CASE FetchFails
  <2>1. /\ UNCHANGED <<library, index, cursor, target>>
        /\ pc \in HasItem \cup {"item"} /\ pc' \in HasItem \cup {"item"}
        /\ \/ UNCHANGED <<todo, skipped>>
           \/ todo' = todo \ {Current} /\ skipped' = skipped \cup {Current}
    <3>1. open # NoFile => pc \in {"item", "poster", "companion"}
      BY DEF FilesInv, Running
    <3>. QED
      BY <1>8, <3>1, AfterOwnFile DEF FetchFails, env, HasItem
  <2>. QED
    BY <2>1 DEF Covered, HasItem
<1>9. CASE Record
  <2>1. /\ UNCHANGED <<library, cursor, target, skipped>> /\ pc = "record" /\ pc' = "item"
        /\ todo' = todo \ {Current} /\ DOMAIN index' = DOMAIN index \cup {Current}
    BY <1>9 DEF Record, env, hist
  <2>. QED
    BY <2>1 DEF Covered, HasItem
<1>. QED
  BY <1>1, <1>2, <1>3, <1>4, <1>5, <1>6, <1>7, <1>8, <1>9 DEF Next

(* When a run comes to its end, every item of the range that the library   *)
(* held when it began is in the index, or its download failed, for any     *)
(* page size, any times and whatever is uploaded meanwhile (Mirror's       *)
(* loop over listPage).                                                    *)
THEOREM SuccessIsComplete ==
  ASSUME RangeAssumption, NameAssumption
  PROVE  Spec => []DoneMeansAll
<1>1. Init => FilesInv /\ Covered
  BY FilesInit DEF Init, Covered
<1>2. FilesInv /\ Covered /\ [Next]_vars => FilesInv' /\ Covered'
  BY FilesStep, CoveredStep
<1>3. Covered => DoneMeansAll
  BY DEF Covered, DoneMeansAll, HasItem
<1>. QED
  BY <1>1, <1>2, <1>3, PTL DEF Spec
=============================================================================
