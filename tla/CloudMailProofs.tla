-------------------------- MODULE CloudMailProofs ---------------------------
(***************************************************************************)
(* What the iCloud mirror's session and index stand for, for any album and *)
(* any file names, and what the IMAP mirror's markers and files mean, for  *)
(* any folders and any number of messages, in any number of runs of each.  *)
(***************************************************************************)
EXTENDS ICloud, Imap, SequenceTheorems, FiniteSetTheorems, TLAPS

Walking == {"page", "item", "video", "record", "done"}
Steps == Walking \cup {"idle", "auth", "signin", "code", "save"}

-----------------------------------------------------------------------------
(* What is saved was verified, and so is what a run that lists holds. *)
Verified ==
    /\ session \in Sessions /\ memory \in Sessions
    /\ session.token \in {"none", "verified"}
    /\ pc = "auth" => memory.token \in {"none", "verified"}
    /\ pc \in Walking \cup {"save"} => memory.token = "verified"
    /\ open # NoFile => pc \in Walking

(* Every step of the sign-in and of the walk. *)
LEMMA VerifiedStep ==
  ASSUME Verified, [Next]_vars
  PROVE  Verified'
<1>. USE DEF apple, dest, login, page, item, hist, Sessions
<1>1. CASE UNCHANGED vars
  BY <1>1 DEF Verified, vars
<1>2. ASSUME Start \/ Validate \/ NoSaved \/ SignIn \/ Verify
      PROVE  Verified'
  <2>1. session' = session /\ open' = open
    BY <1>2 DEF Start, Validate, NoSaved, SignIn, Verify
  <2>2. CASE Start
    BY <2>1, <2>2 DEF Start, Verified, Walking
  <2>3. CASE Validate
    BY <2>1, <2>3 DEF Validate, Verified, Walking
  <2>4. CASE NoSaved
    BY <2>1, <2>4 DEF NoSaved, Verified, Walking
  <2>5. CASE SignIn
    BY <2>1, <2>5 DEF SignIn, Verified, Walking
  <2>6. CASE Verify
    BY <2>1, <2>6 DEF Verify, Verified, Walking
  <2>. QED
    BY <1>2, <2>2, <2>3, <2>4, <2>5, <2>6
<1>3. CASE SaveSession
  BY <1>3 DEF SaveSession, Verified, Walking
<1>4. ASSUME Abort \/ Finish \/ Crash
      PROVE  Verified'
  <2>1. pc' = "idle" /\ open' = NoFile /\ memory' = NoSession /\ session' = session
    BY <1>4 DEF Abort, Finish, Crash, Forget
  <2>2. memory' \in Sessions
    BY <2>1 DEF NoSession
  <2>. QED
    BY <2>1, <2>2 DEF Verified, Walking
<1>5. ASSUME \/ Upload \/ Delete \/ ListPage \/ PassOver \/ Take \/ TakeVideo
             \/ Commit \/ FetchFails \/ Record \/ PageDone
      PROVE  Verified'
  <2>1. session' = session /\ memory' = memory
    BY <1>5 DEF Upload, Delete, ListPage, PassOver, Take, TakeVideo, Commit,
                FetchFails, Record, PageDone
  <2>2. CASE Upload \/ Delete \/ PassOver
    BY <2>1, <2>2 DEF Upload, Delete, PassOver, Verified, Walking
  <2>3. CASE ListPage \/ PageDone \/ Record
    <3>1. pc \in Walking /\ pc' \in Walking
      BY <2>3 DEF ListPage, PageDone, Record, Walking
    <3>. QED
      BY <2>1, <3>1 DEF Verified, Walking
  <2>4. CASE Take \/ TakeVideo
    <3>1. pc \in {"item", "video"} /\ pc' \in {pc, "record"} /\ (pc' = "record" => open' = open)
          /\ open = NoFile
      BY <2>4 DEF Take, TakeVideo
    <3>. QED
      BY <2>1, <3>1 DEF Verified, Walking
  <2>5. CASE Commit \/ FetchFails
    <3>1. open # NoFile /\ open' = NoFile /\ pc' \in {pc, "video", "record"}
      BY <2>5 DEF Commit, FetchFails
    <3>2. pc \in Walking /\ pc' \in Walking
      BY <3>1 DEF Verified, Walking
    <3>. QED
      BY <2>1, <3>1, <3>2 DEF Verified, Walking
  <2>. QED
    BY <1>5, <2>2, <2>3, <2>4, <2>5
<1>. QED
  BY <1>1, <1>2, <1>3, <1>4, <1>5 DEF Next

(* A run reads the listing only through a session whose second factor was  *)
(* accepted, in this run or in the one that saved the session, however     *)
(* many runs were killed and whatever tokens Apple stopped taking.         *)
THEOREM ListingIsVerified == Spec => []ListsOnlyVerified
<1>1. Init => Verified
  BY DEF Init, Verified, Sessions, NoSession, NoFile, Walking
<1>2. Verified /\ [Next]_vars => Verified'
  BY VerifiedStep
<1>3. Verified => ListsOnlyVerified
  BY DEF Verified, ListsOnlyVerified, Walking
<1>. QED
  BY <1>1, <1>2, <1>3, PTL DEF Spec

-----------------------------------------------------------------------------
(* An index has these fields and no others. *)
IndexShape(idx) == idx = [next |-> idx.next, entries |-> idx.entries]

(* The files an index names are on disk, each under one entry. *)
OnDisk(idx) ==
    /\ IndexShape(idx)
    /\ \A i, j \in DOMAIN idx.entries :
          /\ Range(idx.entries[i]) \subseteq DOMAIN disk
          /\ i # j => Range(idx.entries[i]) \cap Range(idx.entries[j]) = {}

(* The files of the item in hand are on disk and in no entry. *)
InHand ==
    /\ files \in Seq(DOMAIN disk) /\ Range(files) \subseteq DOMAIN disk
    /\ Range(files) \cap FilesOf(index) = {}

(* A run's taken names are those of the index, of the item in hand and of  *)
(* the download, which are distinct.                                       *)
NamesTaken ==
    /\ pc \in Walking => FilesOf(index) \cup Range(files) \subseteq used
    /\ pc \notin Walking => files = <<>> /\ open = NoFile
    /\ open # NoFile => /\ open \in used
                        /\ open \notin FilesOf(index) \cup Range(files)

FilesInv ==
    pc \in Steps /\ OnDisk(index) /\ OnDisk(saved) /\ InHand /\ NamesTaken

(* FilesOf that are added do not disturb an index. *)
LEMMA DiskGrows ==
  ASSUME NEW idx, OnDisk(idx), DOMAIN disk \subseteq DOMAIN disk'
  PROVE  (\A i, j \in DOMAIN idx.entries :
            /\ Range(idx.entries[i]) \subseteq DOMAIN disk'
            /\ i # j => Range(idx.entries[i]) \cap Range(idx.entries[j]) = {})
  BY DEF OnDisk

(* The range of a sequence that grows. *)
LEMMA AppendRange ==
  ASSUME NEW S, NEW s \in Seq(S), NEW p \in S
  PROVE  /\ Append(s, p) \in Seq(S)
         /\ Range(Append(s, p)) = Range(s) \cup {p}
<1>1. /\ Append(s, p) \in Seq(S) /\ Len(s) \in Nat
      /\ DOMAIN s = 1..Len(s) /\ DOMAIN Append(s, p) = 1..Len(s) + 1
      /\ \A k \in 1..Len(s) : Append(s, p)[k] = s[k]
      /\ Append(s, p)[Len(s) + 1] = p
  OBVIOUS
<1>2. ASSUME NEW x
      PROVE  x \in Range(Append(s, p)) <=> x \in Range(s) \/ x = p
  BY <1>1 DEF Range
<1>. QED
  BY <1>1, <1>2

(* The ranges of the sequences a run begins an item with. *)
LEMMA FirstRange ==
  ASSUME NEW S, NEW p \in S
  PROVE  <<p>> \in Seq(S) /\ Range(<<p>>) = {p}
<1>1. <<p>> \in Seq(S) /\ DOMAIN <<p>> = {1} /\ <<p>>[1] = p
  OBVIOUS
<1>. QED
  BY <1>1 DEF Range

(* A first file for the item, or none yet. *)
LEMMA TakeStep ==
  ASSUME FilesInv, Take
  PROVE  FilesInv'
<1>. USE DEF apple, login, page
<1>1. PICK p : /\ p \notin used /\ used' = used \cup {p}
               /\ IF p \in DOMAIN disk
                  THEN pc' = "record" /\ files' = <<p>> /\ open' = open
                  ELSE open' = p /\ UNCHANGED <<pc, files>>
  BY DEF Take, Resolves, item
<1>2. pc = "item" /\ open = NoFile /\ UNCHANGED <<disk, saved, index>>
  BY DEF Take
<1>3. FilesOf(index) \cup Range(files) \subseteq used
  BY <1>2 DEF FilesInv, NamesTaken, Walking
<1>4. OnDisk(index)' /\ OnDisk(saved)' /\ pc' \in Walking
  BY <1>1, <1>2 DEF FilesInv, OnDisk, Walking
<1>5. CASE p \in DOMAIN disk
  <2>1. files' \in Seq(DOMAIN disk) /\ Range(files') = {p}
    BY <1>1, <1>5, FirstRange
  <2>. QED
    BY <1>1, <1>2, <1>3, <1>4, <1>5, <2>1 DEF FilesInv, InHand, NamesTaken, FilesOf, Steps
<1>6. CASE p \notin DOMAIN disk
  BY <1>1, <1>2, <1>3, <1>4, <1>6 DEF FilesInv, InHand, NamesTaken, FilesOf, Steps, Walking, Range
<1>. QED
  BY <1>5, <1>6

(* The video of a Live Photo, or none yet. *)
LEMMA TakeVideoStep ==
  ASSUME FilesInv, TakeVideo
  PROVE  FilesInv'
<1>. USE DEF apple, login, page
<1>1. PICK p : /\ p \notin used /\ used' = used \cup {p}
               /\ IF p \in DOMAIN disk
                  THEN pc' = "record" /\ files' = Append(files, p) /\ open' = open
                  ELSE open' = p /\ UNCHANGED <<pc, files>>
  BY DEF TakeVideo, Resolves, item
<1>2. pc = "video" /\ open = NoFile /\ UNCHANGED <<disk, saved, index>>
  BY DEF TakeVideo
<1>3. FilesOf(index) \cup Range(files) \subseteq used
  BY <1>2 DEF FilesInv, NamesTaken, Walking
<1>4. OnDisk(index)' /\ OnDisk(saved)' /\ pc' \in Walking
  BY <1>1, <1>2 DEF FilesInv, OnDisk, Walking
<1>5. CASE p \in DOMAIN disk
  <2>1. files' \in Seq(DOMAIN disk) /\ Range(files') = Range(files) \cup {p}
    <3>1. files \in Seq(DOMAIN disk) /\ files' = Append(files, p)
      BY <1>1, <1>5 DEF FilesInv, InHand
    <3>. QED
      BY <1>5, <3>1, AppendRange
  <2>2. Range(files') \cap FilesOf(index) = {}
    BY <1>1, <1>3, <2>1 DEF FilesInv, InHand
  <2>3. FilesOf(index') = FilesOf(index)
    BY <1>2
  <2>. QED
    BY <1>1, <1>2, <1>3, <1>4, <1>5, <2>1, <2>2, <2>3 DEF FilesInv, InHand, NamesTaken, Steps
<1>6. CASE p \notin DOMAIN disk
  BY <1>1, <1>2, <1>3, <1>4, <1>6 DEF FilesInv, InHand, NamesTaken, FilesOf, Steps, Walking, Range
<1>. QED
  BY <1>5, <1>6

(* A download becomes a file of the item in hand. *)
LEMMA CommitStep ==
  ASSUME Verified, FilesInv, Commit
  PROVE  FilesInv'
<1>. USE DEF apple, login, page
<1>1. /\ open # NoFile /\ open' = NoFile /\ files' = Append(files, open)
      /\ DOMAIN disk' = DOMAIN disk \cup {open}
      /\ UNCHANGED <<saved, index, used>>
      /\ pc \in Walking /\ pc' \in Walking
  BY DEF Commit, Verified, Walking
<1>2. OnDisk(index)' /\ OnDisk(saved)'
  BY <1>1, DiskGrows DEF FilesInv, OnDisk
<1>3. files \in Seq(DOMAIN disk')
  BY <1>1 DEF FilesInv, InHand
<1>4. files' \in Seq(DOMAIN disk') /\ Range(files') = Range(files) \cup {open}
  BY <1>1, <1>3, AppendRange
<1>5. /\ FilesOf(index)' = FilesOf(index)
      /\ open \in used /\ open \notin FilesOf(index)
      /\ FilesOf(index) \cup Range(files) \subseteq used
      /\ Range(files) \cap FilesOf(index) = {}
  BY <1>1 DEF FilesInv, NamesTaken, InHand, FilesOf
<1>. QED
  BY <1>1, <1>2, <1>4, <1>5 DEF FilesInv, InHand, NamesTaken, Steps

(* The files of the item in hand become an entry. *)
LEMMA RecordStep ==
  ASSUME FilesInv, Record
  PROVE  FilesInv'
<1>. USE DEF apple, login, hist
<1>1. /\ pc = "record" /\ pc' = "item" /\ index' = Entered(index, Current, files)
      /\ saved' = index' \/ saved' = saved
      /\ files' = <<>> /\ UNCHANGED <<disk, used, open>>
  BY DEF Record
<1>2. Range(files) \subseteq DOMAIN disk /\ Range(files) \cap FilesOf(index) = {}
  BY DEF FilesInv, InHand
<1>3. /\ index' = [next |-> index.next, entries |-> index'.entries]
      /\ index'.entries = [j \in DOMAIN index.entries \cup {Current} |->
                             IF j = Current THEN files ELSE index.entries[j]]
  BY <1>1 DEF Entered, FilesInv, OnDisk, IndexShape
<1>4. \A i, j \in DOMAIN index'.entries :
          /\ Range(index'.entries[i]) \subseteq DOMAIN disk
          /\ i # j => Range(index'.entries[i]) \cap Range(index'.entries[j]) = {}
  <2>1. \A i \in DOMAIN index.entries : Range(files) \cap Range(index.entries[i]) = {}
    BY <1>2 DEF FilesOf
  <2>2. \A i, j \in DOMAIN index.entries :
          /\ Range(index.entries[i]) \subseteq DOMAIN disk
          /\ i # j => Range(index.entries[i]) \cap Range(index.entries[j]) = {}
    BY DEF FilesInv, OnDisk
  <2>. QED
    BY <1>2, <1>3, <2>1, <2>2
<1>5. OnDisk(index)' /\ OnDisk(saved)'
  <2>1. OnDisk(index)'
    <3>1. IndexShape(index')
      BY <1>3 DEF IndexShape
    <3>2. DOMAIN disk' = DOMAIN disk
      BY <1>1
    <3>. QED
      BY <1>4, <3>1, <3>2 DEF OnDisk
  <2>2. CASE saved' = index'
    BY <2>1, <2>2 DEF OnDisk
  <2>3. CASE saved' = saved
    <3>1. OnDisk(saved)
      BY DEF FilesInv
    <3>2. saved' = saved /\ disk' = disk
      BY <1>1, <2>3
    <3>. QED
      BY <2>1, <3>1, <3>2 DEF OnDisk
  <2>. QED
    BY <1>1, <2>1, <2>2, <2>3
<1>6. FilesOf(index') \subseteq FilesOf(index) \cup Range(files)
  BY <1>3 DEF FilesOf
<1>7. Range(files') = {} /\ files' \in Seq(DOMAIN disk)
  BY <1>1 DEF Range
<1>8. /\ FilesOf(index) \cup Range(files) \subseteq used
      /\ open # NoFile => open \in used /\ open \notin FilesOf(index) \cup Range(files)
  BY <1>1 DEF FilesInv, NamesTaken, Walking
<1>9. FilesOf(index)' = FilesOf(index')
  BY DEF FilesOf
<1>. QED
  BY <1>1, <1>5, <1>6, <1>7, <1>8, <1>9 DEF FilesInv, InHand, NamesTaken, Walking, Steps

(* The rank moves; the entries stay. *)
LEMMA PageDoneStep ==
  ASSUME FilesInv, PageDone
  PROVE  FilesInv'
<1>. USE DEF apple, login, hist, item
<1>1. /\ pc = "item" /\ pc' = "page" /\ index' = [index EXCEPT !.next = @ + size]
      /\ saved' = index' \/ saved' = saved
      /\ UNCHANGED <<disk, used, open, files>>
  BY DEF PageDone
<1>2. IndexShape(index') /\ index'.entries = index.entries
  BY <1>1 DEF FilesInv, OnDisk, IndexShape
<1>3. OnDisk(index)' /\ OnDisk(saved)' /\ FilesOf(index)' = FilesOf(index)
  BY <1>1, <1>2 DEF FilesInv, OnDisk, FilesOf
<1>. QED
  BY <1>1, <1>3 DEF FilesInv, InHand, NamesTaken, Walking, Steps

(* The run begins with the names of the saved index. *)
LEMMA SaveSessionStep ==
  ASSUME FilesInv, SaveSession
  PROVE  FilesInv'
<1>. USE DEF apple, login, page, item
<1>1. /\ pc = "save" /\ pc' = "page" /\ index' = saved /\ used' = FilesOf(saved)
      /\ UNCHANGED <<disk, saved, open, files>>
  BY DEF SaveSession
<1>2. files = <<>> /\ open = NoFile /\ OnDisk(saved)
  BY <1>1 DEF FilesInv, NamesTaken, Walking
<1>3. Range(files) = {} /\ files \in Seq(DOMAIN disk)
  BY <1>2 DEF Range
<1>4. OnDisk(index)' /\ OnDisk(saved)' /\ FilesOf(index)' = FilesOf(saved)
  BY <1>1, <1>2 DEF OnDisk, FilesOf
<1>5. Range(files)' = {} /\ files' \in Seq(DOMAIN disk')
  BY <1>1, <1>3
<1>. QED
  BY <1>1, <1>2, <1>4, <1>5 DEF FilesInv, InHand, NamesTaken, Walking, Steps

(* A run that is over remembers nothing. *)
LEMMA ForgetStep ==
  ASSUME FilesInv, Abort \/ Finish \/ Crash
  PROVE  FilesInv'
<1>1. /\ pc' = "idle" /\ index' = EmptyIndex /\ files' = <<>> /\ open' = NoFile
      /\ UNCHANGED <<disk, saved>>
  BY DEF Abort, Finish, Crash, Forget, dest, apple
<1>2. OnDisk(index)' /\ OnDisk(saved)' /\ FilesOf(index)' = {}
  BY <1>1 DEF FilesInv, OnDisk, IndexShape, EmptyIndex, FilesOf
<1>. QED
  BY <1>1, <1>2 DEF FilesInv, InHand, NamesTaken, Walking, Steps, Range

(* The other steps do not touch files, index or names. *)
LEMMA OtherStep ==
  ASSUME Verified, FilesInv,
         \/ Upload \/ Delete \/ Start \/ Validate \/ NoSaved \/ SignIn \/ Verify
         \/ ListPage \/ PassOver \/ FetchFails \/ UNCHANGED vars
  PROVE  FilesInv'
<1>. USE DEF apple, dest, login, page, item, hist, vars
<1>1. UNCHANGED <<disk, saved, index, used, files>>
  BY DEF Upload, Delete, Start, Validate, NoSaved, SignIn, Verify, ListPage, PassOver, FetchFails
<1>2. open' = open \/ open' = NoFile
  BY DEF Upload, Delete, Start, Validate, NoSaved, SignIn, Verify, ListPage, PassOver, FetchFails
<1>3. pc' \in Steps /\ (pc' \in Walking <=> pc \in Walking)
  BY DEF Upload, Delete, Start, Validate, NoSaved, SignIn, Verify, ListPage, PassOver, FetchFails,
         Verified, FilesInv, Walking, Steps
<1>4. OnDisk(index)' /\ OnDisk(saved)' /\ FilesOf(index)' = FilesOf(index) /\ Range(files)' = Range(files)
  BY <1>1 DEF FilesInv, OnDisk, FilesOf
<1>. QED
  BY <1>1, <1>2, <1>3, <1>4 DEF FilesInv, InHand, NamesTaken

(* No two entries of the index name the same file, and every file an entry *)
(* names is on disk, for any album, any names and any runs that are killed *)
(* at any step.                                                            *)
THEOREM IndexIsSound == Spec => []IndexIsOnDisk
<1>1. Init => Verified /\ FilesInv
  <2>1. Init => Verified
    BY DEF Init, Verified, Sessions, NoSession, NoFile, Walking
  <2>2. Init => OnDisk(index) /\ OnDisk(saved) /\ FilesOf(index) = {} /\ Range(files) = {}
    BY DEF Init, OnDisk, IndexShape, EmptyIndex, FilesOf, Range
  <2>. QED
    BY <2>1, <2>2 DEF Init, FilesInv, InHand, NamesTaken, Walking, Steps
<1>2. Verified /\ FilesInv /\ [Next]_vars => (Verified /\ FilesInv)'
  BY VerifiedStep, TakeStep, TakeVideoStep, CommitStep, RecordStep, PageDoneStep,
     SaveSessionStep, ForgetStep, OtherStep DEF Next
<1>3. FilesInv => IndexIsOnDisk
  BY DEF FilesInv, OnDisk, IndexIsOnDisk
<1>. QED
  BY <1>1, <1>2, <1>3, PTL DEF Spec

-----------------------------------------------------------------------------
(* What the walk has at hand is well typed: a download and the item in     *)
(* hand are about the first item that is left of the page.                 *)
Walked ==
    /\ album \in Seq(Items) /\ todo \in Seq(Items) /\ size \in Nat
    /\ Indexes(index) /\ Indexes(saved)
    /\ \A p \in DOMAIN disk : disk[p] \in Items \X {"original", "video"}
    /\ pc \in {"video", "record"} => todo # <<>>
    /\ open # NoFile => todo # <<>> /\ pc \in {"item", "video"}
    /\ pc \notin {"video", "record"} => files = <<>>
    /\ pc = "video" => Len(files) = 1
    /\ pc = "record" => Len(files) \in {1, 2}

(* A rank behind nothing that was never looked at. *)
RankOK(idx) ==
    /\ idx.next <= Len(album)
    /\ \A k \in 1..idx.next :
          album[k] \in DOMAIN idx.entries \cup passed \cup Unpaired

(* The page in hand lies behind the rank and is either left or looked at.  *)
PageCovered ==
    pc \in {"item", "video", "record"} =>
        /\ index.next + size <= Len(album)
        /\ \A k \in index.next + 1..index.next + size :
              album[k] \in DOMAIN index.entries \cup passed \cup Unpaired \cup Range(todo)

RankInv == gone = {} => RankOK(index) /\ RankOK(saved) /\ PageCovered

LEMMA CountPaired ==
  ASSUME NEW S, NEW s \in Seq(S)
  PROVE  Cardinality(Paired(s)) \in Nat /\ Cardinality(Paired(s)) <= Len(s)
<1>1. Len(s) \in Nat /\ Paired(s) \subseteq 1..Len(s)
  BY LenProperties DEF Paired
<1>2. IsFiniteSet(1..Len(s)) /\ Cardinality(1..Len(s)) = Len(s)
  <2>1. /\ IsFiniteSet(1..Len(s))
        /\ Cardinality(1..Len(s)) = IF 1 > Len(s) THEN 0 ELSE Len(s) - 1 + 1
    <3>1. 1 \in Int /\ Len(s) \in Int
      BY <1>1
    <3>. QED
      BY ONLY <3>1, FS_Interval
  <2>. QED
    BY <1>1, <2>1
<1>3. IsFiniteSet(Paired(s)) /\ Cardinality(Paired(s)) <= Cardinality(1..Len(s))
  BY <1>1, <1>2, FS_Subset
<1>. QED
  BY <1>2, <1>3, FS_CardinalityType

LEMMA PageIs ==
  ASSUME album \in Seq(Items), PageSize \in Nat, NEW rank \in Nat
  PROVE  /\ PageAt(rank) \in Seq(Items)
         /\ rank <= Len(album) =>
               /\ rank + Len(PageAt(rank)) <= Len(album)
               /\ \A k \in rank + 1..rank + Len(PageAt(rank)) :
                     k - rank \in DOMAIN PageAt(rank) /\ PageAt(rank)[k - rank] = album[k]
<1>. DEFINE last == IF rank + PageSize < Len(album) THEN rank + PageSize ELSE Len(album)
<1>1. Len(album) \in Nat /\ last \in Nat /\ last <= Len(album)
  BY LenProperties
<1>2. CASE rank > last
  <2>1. PageAt(rank) = <<>>
    BY <1>1, <1>2 DEF PageAt
  <2>. QED
    BY <1>1, <1>2, <2>1
<1>3. CASE rank <= last
  <2>1. \A i \in rank + 1..last : album[i] \in Items
    BY <1>1, ElementOfSeq
  <2>. HIDE DEF last
  <2>2. /\ SubSeq(album, rank + 1, last) \in Seq(Items)
        /\ Len(SubSeq(album, rank + 1, last)) = last - rank
        /\ \A i \in 1..last - rank : SubSeq(album, rank + 1, last)[i] = album[rank + i]
    BY <1>1, <1>3, <2>1, SubSeqProperties
  <2>3. PageAt(rank) = SubSeq(album, rank + 1, last)
    BY DEF PageAt, last
  <2>4. DOMAIN PageAt(rank) = 1..last - rank
    BY <2>2, <2>3, LenProperties
  <2>. QED
    BY <1>1, <1>3, <2>2, <2>3, <2>4
<1>. QED
  BY <1>1, <1>2, <1>3

LEMMA HeadAndTail ==
  ASSUME NEW S, NEW s \in Seq(S), s # <<>>
  PROVE  /\ Head(s) \in S /\ Tail(s) \in Seq(S)
         /\ Range(s) \subseteq {Head(s)} \cup Range(Tail(s))
<1>1. /\ Head(s) \in S /\ Tail(s) \in Seq(S) /\ Len(Tail(s)) = Len(s) - 1
      /\ \A i \in 1..Len(Tail(s)) : Tail(s)[i] = s[i + 1]
      /\ Len(s) \in Nat \ {0}
  BY HeadTailProperties, EmptySeq
<1>2. DOMAIN s = 1..Len(s) /\ DOMAIN Tail(s) = 1..Len(s) - 1 /\ Head(s) = s[1]
  BY <1>1, LenProperties
<1>3. ASSUME NEW k \in 1..Len(s)
      PROVE  s[k] = Head(s) \/ \E i \in 1..Len(s) - 1 : Tail(s)[i] = s[k]
  <2>1. CASE k = 1
    BY <1>2, <2>1
  <2>2. CASE k # 1
    <3>1. k - 1 \in 1..Len(s) - 1 /\ (k - 1) + 1 = k
      BY <1>1, <2>2
    <3>. QED
      BY <1>1, <3>1
  <2>. QED
    BY <2>1, <2>2
<1>4. ASSUME NEW x \in Range(s)
      PROVE  x = Head(s) \/ x \in Range(Tail(s))
  <2>1. PICK k \in 1..Len(s) : s[k] = x
    BY <1>2 DEF Range
  <2>2. x = Head(s) \/ \E i \in DOMAIN Tail(s) : Tail(s)[i] = x
    BY <1>2, <1>3, <2>1
  <2>. QED
    BY <2>2 DEF Range
<1>. QED
  BY <1>1, <1>4

-----------------------------------------------------------------------------
(* A step within a page: what leaves the page was looked at. *)
LEMMA SamePage ==
  ASSUME RankInv, UNCHANGED <<album, gone, index, saved>>, passed \subseteq passed',
         pc' \in {"item", "video", "record"} =>
            /\ pc \in {"item", "video", "record"} /\ size' = size
            /\ Range(todo) \subseteq
                  Range(todo') \cup passed' \cup DOMAIN index.entries \cup Unpaired
  PROVE  RankInv'
<1>1. SUFFICES ASSUME gone = {}, RankOK(index), RankOK(saved), PageCovered
               PROVE  RankInv'
  BY DEF RankInv
<1>2. RankOK(index)' /\ RankOK(saved)'
  BY <1>1 DEF RankOK
<1>3. PageCovered'
  BY <1>1 DEF PageCovered
<1>. QED
  BY <1>2, <1>3 DEF RankInv

(* The steps of the sign-in. *)
LEMMA SignInRank ==
  ASSUME Walked, RankInv, pc \in Steps,
         Start \/ Validate \/ NoSaved \/ SignIn \/ Verify \/ UNCHANGED vars
  PROVE  Walked' /\ RankInv'
<1>. USE DEF apple, dest, login, page, item, hist, vars
<1>1. UNCHANGED <<album, gone, disk, saved, index, used, todo, size, open, files, passed>>
  BY DEF Start, Validate, NoSaved, SignIn, Verify
<1>2. \/ pc' = pc
      \/ /\ pc \notin {"item", "video", "record"}
         /\ pc' \notin {"item", "video", "record"}
  BY DEF Start, Validate, NoSaved, SignIn, Verify
<1>3. Walked'
  BY <1>1, <1>2 DEF Walked, Indexes
<1>4. RankInv'
  BY <1>1, <1>2, SamePage
<1>. QED
  BY <1>3, <1>4

(* A run that is over, whose index is empty in memory. *)
LEMMA ForgetRank ==
  ASSUME Walked, RankInv, Abort \/ Finish \/ Crash
  PROVE  Walked' /\ RankInv'
<1>1. /\ pc' = "idle" /\ index' = EmptyIndex /\ files' = <<>> /\ open' = NoFile
      /\ todo' = <<>> /\ size' = 0
      /\ UNCHANGED <<album, gone, disk, saved, passed>>
  BY DEF Abort, Finish, Crash, Forget, dest, apple
<1>2. /\ Indexes(EmptyIndex) /\ EmptyIndex.next = 0
      /\ Len(album) \in Nat
  BY LenProperties DEF EmptyIndex, Indexes, Walked
<1>3. Walked'
  BY <1>1, <1>2 DEF Walked, Indexes
<1>4. RankInv'
  BY <1>1, <1>2 DEF RankInv, RankOK, PageCovered
<1>. QED
  BY <1>3, <1>4

(* The run begins at the rank that was saved. *)
LEMMA SaveSessionRank ==
  ASSUME Verified, Walked, RankInv, SaveSession
  PROVE  Walked' /\ RankInv'
<1>. USE DEF apple, login, page, item
<1>1. /\ pc = "save" /\ pc' = "page" /\ index' = saved
      /\ UNCHANGED <<album, gone, disk, saved, todo, size, open, files, passed>>
  BY DEF SaveSession
<1>2. Walked'
  BY <1>1 DEF Walked, Indexes
<1>3. RankInv'
  BY <1>1 DEF RankInv, RankOK, PageCovered
<1>. QED
  BY <1>2, <1>3

(* A new item is behind every rank. *)
LEMMA UploadRank ==
  ASSUME Walked, RankInv, Upload
  PROVE  Walked' /\ RankInv'
<1>. USE DEF dest, login, page, item, hist
<1>1. PICK i \in Items : album' = Append(album, i)
  BY DEF Upload
<1>2. UNCHANGED <<gone, disk, saved, pc, index, todo, size, open, files, passed>>
  BY DEF Upload
<1>3. /\ Len(album) \in Nat /\ album' \in Seq(Items) /\ Len(album') = Len(album) + 1
      /\ \A k \in 1..Len(album) : album'[k] = album[k]
  BY <1>1, LenProperties, AppendProperties DEF Walked
<1>4. Walked'
  BY <1>2, <1>3 DEF Walked, Indexes
<1>5. RankInv'
  <2>1. SUFFICES ASSUME gone = {}, RankOK(index), RankOK(saved), PageCovered
                 PROVE  RankInv'
    BY <1>2 DEF RankInv
  <2>2. index.next \in Nat /\ saved.next \in Nat /\ size \in Nat
    BY DEF Walked, Indexes
  <2>3. RankOK(index)'
    BY <1>2, <1>3, <2>1, <2>2 DEF RankOK
  <2>4. RankOK(saved)'
    BY <1>2, <1>3, <2>1, <2>2 DEF RankOK
  <2>5. PageCovered'
    <3>1. SUFFICES ASSUME pc \in {"item", "video", "record"}
                   PROVE  PageCovered'
      BY <1>2 DEF PageCovered
    <3>2. /\ index.next + size <= Len(album)
          /\ \A k \in index.next + 1..index.next + size :
                album[k] \in DOMAIN index.entries \cup passed \cup Unpaired \cup Range(todo)
      BY <2>1, <3>1 DEF PageCovered
    <3>3. \A k \in index.next + 1..index.next + size : album'[k] = album[k]
      <4>1. index.next + size \in Nat /\ index.next + 1 \in Nat \ {0}
        BY <2>2
      <4>2. \A k \in index.next + 1..index.next + size : k \in 1..Len(album)
        BY <1>3, <3>2, <4>1
      <4>. QED
        BY <1>3, <4>2
    <3>4. index.next + size <= Len(album')
      BY <1>3, <2>2, <3>2
    <3>. QED
      BY <1>2, <3>2, <3>3, <3>4 DEF PageCovered
  <2>. QED
    BY <2>3, <2>4, <2>5 DEF RankInv
<1>. QED
  BY <1>4, <1>5

(* After a deletion nothing is claimed any more. *)
LEMMA DeleteRank ==
  ASSUME Walked, RankInv, Delete
  PROVE  Walked' /\ RankInv'
<1>. USE DEF dest, login, page, item, hist
<1>1. PICK k \in DOMAIN album : album' = RemoveAt(album, k) /\ gone' = {album[k]}
  BY DEF Delete
<1>2. UNCHANGED <<disk, saved, pc, index, todo, size, open, files, passed>>
  BY DEF Delete
<1>3. album' \in Seq(Items)
  <2>1. Len(album) \in Nat /\ DOMAIN album = 1..Len(album) /\ k \in 1..Len(album)
    BY LenProperties DEF Walked
  <2>2. \A i \in 1..Len(album) : album[i] \in Items
    BY <2>1, ElementOfSeq DEF Walked
  <2>3. SubSeq(album, 1, k - 1) \in Seq(Items)
    <3>1. \A i \in 1..k - 1 : album[i] \in Items
      BY <2>1, <2>2
    <3>. QED
      BY <2>1, <3>1, SubSeqProperties
  <2>4. SubSeq(album, k + 1, Len(album)) \in Seq(Items)
    <3>1. \A i \in k + 1..Len(album) : album[i] \in Items
      BY <2>1, <2>2
    <3>. QED
      BY <2>1, <3>1, SubSeqProperties
  <2>. QED
    BY <1>1, <2>3, <2>4, ConcatProperties DEF RemoveAt
<1>. QED
  BY <1>1, <1>2, <1>3 DEF Walked, Indexes, RankInv

(* A page is read from the rank on. *)
LEMMA ListPageRank ==
  ASSUME ItemAssumption, Walked, RankInv, ListPage
  PROVE  Walked' /\ RankInv'
<1>. USE DEF apple, dest, login, item, hist
<1>1. /\ pc = "page" /\ todo' = PageAt(index.next) /\ size' = Cardinality(Paired(todo'))
      /\ pc' \in {"done", "item"}
      /\ UNCHANGED <<album, gone, disk, saved, index, open, files, passed>>
  BY DEF ListPage
<1>2. /\ album \in Seq(Items) /\ PageSize \in Nat /\ index.next \in Nat
      /\ Len(album) \in Nat
  BY LenProperties DEF Walked, Indexes, ItemAssumption
<1>3. todo' \in Seq(Items)
  BY <1>1, <1>2, PageIs
<1>4. size' \in Nat /\ size' <= Len(todo')
  BY <1>1, <1>3, CountPaired
<1>5. Walked'
  BY <1>1, <1>3, <1>4 DEF Walked, Indexes
<1>6. RankInv'
  <2>1. SUFFICES ASSUME gone = {}, RankOK(index), RankOK(saved)
                 PROVE  RankInv'
    BY <1>1 DEF RankInv
  <2>2. /\ index.next + Len(todo') <= Len(album) /\ Len(todo') \in Nat
        /\ \A k \in index.next + 1..index.next + Len(todo') :
              k - index.next \in DOMAIN todo' /\ todo'[k - index.next] = album[k]
    <3>1. index.next <= Len(album)
      BY <2>1 DEF RankOK
    <3>. QED
      BY <1>1, <1>2, <1>3, <3>1, PageIs, LenProperties
  <2>3. index.next + size' <= Len(album)
    BY <1>2, <1>4, <2>2
  <2>4. \A k \in index.next + 1..index.next + size' : album[k] \in Range(todo')
    <3>1. \A k \in index.next + 1..index.next + size' :
            k \in index.next + 1..index.next + Len(todo')
      BY <1>2, <1>4, <2>2
    <3>. QED
      BY <2>2, <3>1 DEF Range
  <2>. QED
    BY <1>1, <2>1, <2>3, <2>4 DEF RankInv, RankOK, PageCovered
<1>. QED
  BY <1>5, <1>6

(* An item that is passed over. *)
LEMMA PassOverRank ==
  ASSUME Walked, RankInv, PassOver
  PROVE  Walked' /\ RankInv'
<1>. USE DEF apple, dest, login, item, hist
<1>1. /\ pc = "item" /\ todo # <<>> /\ todo' = Tail(todo) /\ open = NoFile
      /\ UNCHANGED <<album, gone, disk, saved, index, size, pc, open, files>>
  BY DEF PassOver
<1>2. passed \subseteq passed' /\ Current \in Unpaired \cup DOMAIN index.entries \cup passed'
  BY DEF PassOver
<1>3. todo' \in Seq(Items) /\ Range(todo) \subseteq {Current} \cup Range(todo')
  BY <1>1, HeadAndTail DEF Walked, Current
<1>4. Walked'
  BY <1>1, <1>3 DEF Walked, Indexes
<1>5. RankInv'
  BY <1>1, <1>2, <1>3, SamePage
<1>. QED
  BY <1>4, <1>5

(* A name is taken; a file that is there is the item's. *)
LEMMA TakeRank ==
  ASSUME Walked, RankInv, FilesInv, Take \/ TakeVideo
  PROVE  Walked' /\ RankInv'
<1>. USE DEF apple, dest, login, page, item, hist
<1>1. /\ todo # <<>> /\ pc \in {"item", "video"} /\ open = NoFile
      /\ UNCHANGED <<album, gone, disk, saved, index, todo, size, passed>>
  BY DEF Take, TakeVideo, Walked
<1>2. PICK p : \/ UNCHANGED <<pc, files>>
               \/ pc' = "record" /\ open' = open /\ pc = "item" /\ files' = <<p>>
               \/ pc' = "record" /\ open' = open /\ pc = "video" /\ files' = Append(files, p)
                  /\ p \in DOMAIN disk
  BY DEF Take, TakeVideo
<1>3. pc' # "record" => pc' = pc /\ files' = files
  BY <1>1, <1>2
<1>4. pc' = "record" => Len(files') \in {1, 2} /\ open' = NoFile
  <2>1. pc = "video" => files \in Seq(DOMAIN disk) /\ Len(files) = 1
    BY DEF FilesInv, InHand, Walked
  <2>2. pc = "video" /\ p \in DOMAIN disk => Len(Append(files, p)) = 2
    <3>1. pc = "video" /\ p \in DOMAIN disk => Len(Append(files, p)) = Len(files) + 1
      BY <2>1, AppendProperties
    <3>2. 1 + 1 = 2
      OBVIOUS
    <3>. QED
      BY <2>1, <3>1, <3>2
  <2>3. Len(<<p>>) = 1
    OBVIOUS
  <2>. QED
    BY <1>1, <1>2, <2>2, <2>3
<1>5. Walked'
  BY <1>1, <1>3, <1>4 DEF Walked, Indexes
<1>6. RankInv'
  <2>1. pc \in {"item", "record"} \/ pc = "video"
    BY <1>1
  <2>. QED
    BY <1>1, <2>1, SamePage
<1>. QED
  BY <1>5, <1>6

(* A download that becomes a file. *)
LEMMA CommitRank ==
  ASSUME Walked, RankInv, FilesInv, Commit
  PROVE  Walked' /\ RankInv'
<1>. USE DEF apple, login, page, hist
<1>1. /\ open # NoFile /\ open' = NoFile /\ files' = Append(files, open)
      /\ pc' = IF pc = "item" /\ Current \in Lives THEN "video" ELSE "record"
      /\ UNCHANGED <<album, gone, saved, index, todo, size, passed>>
  BY DEF Commit
<1>2. todo # <<>> /\ pc \in {"item", "video"} /\ Current \in Items
  BY <1>1, HeadAndTail DEF Walked, Current
<1>3. \A p \in DOMAIN disk' : disk'[p] \in Items \X {"original", "video"}
  <2>1. disk' = [p \in DOMAIN disk \cup {open} |->
                   IF p # open THEN disk[p]
                   ELSE <<Current, IF pc = "item" THEN "original" ELSE "video">>]
    BY DEF Commit
  <2>2. <<Current, IF pc = "item" THEN "original" ELSE "video">> \in Items \X {"original", "video"}
    BY <1>2
  <2>. QED
    BY <2>1, <2>2 DEF Walked
<1>4. /\ pc = "item" => Len(files') = 1
      /\ pc = "video" => Len(files') = 2
  <2>1. files \in Seq(DOMAIN disk)
    BY DEF FilesInv, InHand
  <2>2. (pc = "item" => Len(files) = 0) /\ (pc = "video" => Len(files) = 1)
    BY DEF Walked
  <2>3. Len(files') = Len(files) + 1
    BY <1>1, <2>1, AppendProperties
  <2>4. pc = "item" => Len(files') = 1
    BY <2>2, <2>3
  <2>5. pc = "video" => Len(files') = 2
    <3>1. 1 + 1 = 2
      OBVIOUS
    <3>. QED
      BY <2>2, <2>3, <3>1
  <2>. QED
    BY <2>4, <2>5
<1>5. Walked'
  BY <1>1, <1>2, <1>3, <1>4 DEF Walked, Indexes
<1>6. RankInv'
  BY <1>1, <1>2, SamePage
<1>. QED
  BY <1>5, <1>6

(* A download that fails. *)
LEMMA FetchFailsRank ==
  ASSUME Walked, RankInv, FetchFails
  PROVE  Walked' /\ RankInv'
<1>. USE DEF apple, login, hist
<1>1. /\ open # NoFile /\ open' = NoFile
      /\ UNCHANGED <<album, gone, disk, saved, index, size, files>>
  BY DEF FetchFails
<1>2. /\ todo # <<>> /\ pc \in {"item", "video"}
      /\ Tail(todo) \in Seq(Items) /\ Range(todo) \subseteq {Current} \cup Range(Tail(todo))
  BY <1>1, HeadAndTail DEF Walked, Current
<1>3. CASE pc = "item"
  <2>1. todo' = Tail(todo) /\ passed' = passed \cup {Current} /\ pc' = "item"
    BY <1>3 DEF FetchFails
  <2>2. Walked'
    BY <1>1, <1>2, <1>3, <2>1 DEF Walked, Indexes
  <2>3. RankInv'
    BY <1>1, <1>2, <1>3, <2>1, SamePage
  <2>. QED
    BY <2>2, <2>3
<1>4. CASE pc = "video"
  <2>1. todo' = todo /\ passed' = passed /\ pc' = "record"
    BY <1>4 DEF FetchFails
  <2>2. Walked'
    BY <1>1, <1>2, <1>4, <2>1 DEF Walked, Indexes
  <2>3. RankInv'
    BY <1>1, <1>4, <2>1, SamePage
  <2>. QED
    BY <2>2, <2>3
<1>. QED
  BY <1>2, <1>3, <1>4

(* The item in hand is recorded. *)
LEMMA RecordRank ==
  ASSUME Walked, RankInv, FilesInv, Record
  PROVE  Walked' /\ RankInv'
<1>. USE DEF apple, login, hist
<1>1. /\ pc = "record" /\ pc' = "item" /\ files' = <<>> /\ todo' = Tail(todo)
      /\ saved' \in {index', saved}
      /\ UNCHANGED <<album, gone, disk, size, open, passed>>
  BY DEF Record
<1>2. /\ index'.next = index.next
      /\ DOMAIN index'.entries = DOMAIN index.entries \cup {Current}
      /\ \A i \in DOMAIN index'.entries :
            index'.entries[i] = IF i = Current THEN files ELSE index.entries[i]
  BY DEF Record, Entered, FilesInv, OnDisk, IndexShape
<1>3. /\ todo # <<>> /\ open = NoFile
      /\ Current \in Items /\ Tail(todo) \in Seq(Items)
      /\ Range(todo) \subseteq {Current} \cup Range(Tail(todo))
  BY <1>1, HeadAndTail DEF Walked, Current
<1>4. Indexes(index') /\ Indexes(saved')
  <2>1. Indexes(index')
    BY <1>1, <1>2, <1>3 DEF Walked, Indexes
  <2>2. Indexes(saved)
    BY DEF Walked
  <2>. QED
    BY <1>1, <2>1, <2>2
<1>5. Walked'
  <2>1. Indexes(index)' /\ Indexes(saved)'
    BY <1>4 DEF Indexes
  <2>. QED
    BY <1>1, <1>3, <2>1 DEF Walked
<1>6. RankInv'
  <2>1. SUFFICES ASSUME gone = {}, RankOK(index), RankOK(saved), PageCovered
                 PROVE  RankInv'
    BY <1>1 DEF RankInv
  <2>2. RankOK(index)'
    BY <1>1, <1>2, <2>1 DEF RankOK
  <2>3. RankOK(saved)'
    <3>1. CASE saved' = index'
      BY <2>2, <3>1 DEF RankOK
    <3>2. CASE saved' = saved
      BY <1>1, <2>1, <3>2 DEF RankOK
    <3>. QED
      BY <1>1, <3>1, <3>2
  <2>4. PageCovered'
    BY <1>1, <1>2, <1>3, <2>1 DEF PageCovered
  <2>. QED
    BY <2>2, <2>3, <2>4 DEF RankInv
<1>. QED
  BY <1>5, <1>6

(* The rank moves behind the page. *)
LEMMA PageDoneRank ==
  ASSUME Walked, RankInv, FilesInv, PageDone
  PROVE  Walked' /\ RankInv'
<1>. USE DEF apple, login, page, item, hist
<1>1. /\ pc = "item" /\ pc' = "page" /\ todo = <<>>
      /\ saved' \in {index', saved}
      /\ UNCHANGED <<album, gone, disk, todo, size, open, files, passed>>
  BY DEF PageDone
<1>2. index'.next = index.next + size /\ index'.entries = index.entries
  BY DEF PageDone, FilesInv, OnDisk, IndexShape
<1>3. index.next \in Nat /\ size \in Nat
  BY DEF Walked, Indexes
<1>4. Walked'
  <2>1. Indexes(index')
    BY <1>2, <1>3 DEF Walked, Indexes
  <2>2. Indexes(saved')
    BY <1>1, <2>1 DEF Walked
  <2>3. Indexes(index)' /\ Indexes(saved)'
    BY <2>1, <2>2 DEF Indexes
  <2>. QED
    BY <1>1, <2>3 DEF Walked
<1>5. RankInv'
  <2>1. SUFFICES ASSUME gone = {}, RankOK(index), RankOK(saved), PageCovered
                 PROVE  RankInv'
    BY <1>1 DEF RankInv
  <2>2. RankOK(index)'
    <3>1. Range(todo) = {}
      BY <1>1 DEF Range
    <3>2. \A k \in 1..index.next + size :
            k \in 1..index.next \/ k \in index.next + 1..index.next + size
      BY <1>3
    <3>. QED
      BY <1>1, <1>2, <2>1, <3>1, <3>2 DEF RankOK, PageCovered
  <2>3. RankOK(saved)'
    <3>1. CASE saved' = index'
      BY <2>2, <3>1 DEF RankOK
    <3>2. CASE saved' = saved
      BY <1>1, <2>1, <3>2 DEF RankOK
    <3>. QED
      BY <1>1, <3>1, <3>2
  <2>. QED
    BY <1>1, <2>2, <2>3 DEF RankInv, PageCovered
<1>. QED
  BY <1>4, <1>5

-----------------------------------------------------------------------------
WalkInv == Verified /\ FilesInv /\ Walked /\ RankInv

LEMMA WalkInit ==
  ASSUME Init
  PROVE  WalkInv
<1>1. Verified
  BY DEF Init, Verified, Sessions, NoSession, NoFile, Walking
<1>2. OnDisk(index) /\ OnDisk(saved) /\ FilesOf(index) = {} /\ Range(files) = {}
  BY DEF Init, OnDisk, IndexShape, EmptyIndex, FilesOf, Range
<1>3. FilesInv
  BY <1>2 DEF Init, FilesInv, InHand, NamesTaken, Walking, Steps
<1>4. Walked
  <2>1. album = <<>> /\ todo = <<>> /\ open = NoFile /\ files = <<>> /\ pc = "idle"
        /\ size = 0 /\ DOMAIN disk = {}
    BY DEF Init
  <2>2. Indexes(index) /\ Indexes(saved)
    BY DEF Init, EmptyIndex, Indexes
  <2>. QED
    BY <2>1, <2>2, EmptySeq DEF Walked
<1>5. RankInv
  <2>1. index.next = 0 /\ saved.next = 0 /\ Len(album) = 0 /\ pc = "idle"
    BY DEF Init, EmptyIndex
  <2>. QED
    BY <2>1 DEF RankInv, RankOK, PageCovered
<1>. QED
  BY <1>1, <1>3, <1>4, <1>5 DEF WalkInv

LEMMA WalkNext ==
  ASSUME ItemAssumption, WalkInv, [Next]_vars
  PROVE  WalkInv'
<1>1. Verified' /\ FilesInv'
  BY VerifiedStep, TakeStep, TakeVideoStep, CommitStep, RecordStep, PageDoneStep,
     SaveSessionStep, ForgetStep, OtherStep DEF Next, WalkInv
<1>2. Walked' /\ RankInv'
  <2>1. pc \in Steps
    BY DEF WalkInv, FilesInv
  <2>. QED
    BY <2>1, SignInRank, ForgetRank, SaveSessionRank, UploadRank, DeleteRank, ListPageRank,
       PassOverRank, TakeRank, CommitRank, FetchFailsRank, RecordRank, PageDoneRank
       DEF Next, WalkInv
<1>. QED
  BY <1>1, <1>2 DEF WalkInv

(* The album, the session, the files, the index and the run's memory are   *)
(* well typed in every reachable state.                                    *)
THEOREM TypeCorrect ==
  ASSUME ItemAssumption
  PROVE  Spec => []TypeOK
<1>1. Init => WalkInv
  BY WalkInit
<1>2. WalkInv /\ [Next]_vars => WalkInv'
  BY WalkNext
<1>3. WalkInv => TypeOK
  BY DEF WalkInv, Walked, Verified, TypeOK
<1>. QED
  BY <1>1, <1>2, <1>3, PTL DEF Spec

(* As long as nothing is deleted from the album, the rank where the next   *)
(* run begins, whether it is remembered or saved, is behind no item that   *)
(* was never looked at: for any album, any size of the pages, unpaired     *)
(* records between the items and runs that are killed anywhere.            *)
THEOREM NothingUnseen ==
  ASSUME ItemAssumption
  PROVE  Spec => []RankCovers
<1>1. Init => WalkInv
  BY WalkInit
<1>2. WalkInv /\ [Next]_vars => WalkInv'
  BY WalkNext
<1>3. WalkInv => RankCovers
  <2>1. WalkInv => \A k \in DOMAIN album : k \in Nat \ {0}
    BY LenProperties DEF WalkInv, Walked
  <2>2. WalkInv => index.next \in Nat /\ saved.next \in Nat
    BY DEF WalkInv, Walked, Indexes
  <2>. QED
    BY <2>1, <2>2 DEF WalkInv, RankInv, RankOK, RankCovers
<1>. QED
  BY <1>1, <1>2, <1>3, PTL DEF Spec

-----------------------------------------------------------------------------
(* The IMAP mirror. *)
Active == {"fetch", "validity", "truncate", "last"}

Shape ==
    /\ validity \in [Folders -> Nat \ {0}] /\ next = [f \in Folders |-> next[f]]
    /\ mail = [f \in Folders |-> mail[f]] /\ cur = [f \in Folders |-> cur[f]]
    /\ markLast \in [Folders -> Nat] /\ maxUID \in Nat
    /\ step \in Active \cup {"idle", "folder"}
    /\ step \in Active => here \in Folders
    /\ step = "fetch" => fetch \subseteq DOMAIN mail[here]

(* A folder that was never renumbered has UIDs below the next one, and a   *)
(* file holds the message whose UID it has.                                *)
Original(f) ==
    /\ next[f] \in Nat \ {0}
    /\ DOMAIN mail[f] \subseteq Nat \ {0} /\ DOMAIN cur[f] \subseteq Nat
    /\ \A u \in DOMAIN mail[f] \cup DOMAIN cur[f] : u < next[f]
    /\ \A u \in DOMAIN mail[f] \cap DOMAIN cur[f] : cur[f][u] = mail[f][u]
    /\ markLast[f] # Torn => markLast[f] < next[f]
    /\ markLast[f] # Torn => \A u \in DOMAIN mail[f] : u <= markLast[f] => u \in DOMAIN cur[f]

FoldersOriginal == \A f \in Folders : validity[f] = 1 => Original(f)

(* Of the folder in hand, what is neither in the Maildir nor about to come *)
(* is newer than all that came and will come.                              *)
Coming ==
    step \in Active /\ validity[here] = 1 =>
        /\ maxUID < next[here]
        /\ \A u \in DOMAIN mail[here] :
              \/ u \in DOMAIN cur[here]
              \/ step = "fetch" /\ u \in fetch
              \/ u > maxUID /\ (step = "fetch" => \A w \in fetch : w < u)

MailInv == Shape /\ FoldersOriginal /\ Coming

-----------------------------------------------------------------------------
(* An account that no run has looked at. *)
LEMMA MailInitHolds ==
  ASSUME BoundAssumption, MailInit
  PROVE  MailInv
  BY DEF MailInit, MailInv, Shape, FoldersOriginal, Original, Coming, Active, NoMail, Torn, BoundAssumption

(* A new message is newer than every marker. *)
LEMMA DeliverStep ==
  ASSUME BoundAssumption, MailInv, NEW f \in Folders, Deliver(f)
  PROVE  MailInv'
<1>. USE DEF MailInv, marks, folder, tally
<1>1. PICK m : mail' = [mail EXCEPT ![f] = [u \in DOMAIN @ \cup {next[f]} |->
                                              IF u = next[f] THEN m ELSE @[u]]]
  BY DEF Deliver
<1>2. /\ next' = [next EXCEPT ![f] = @ + 1]
      /\ UNCHANGED <<validity, cur, markValid, markLast, step, here, fetch, maxUID>>
  BY DEF Deliver
<1>3. /\ DOMAIN mail'[f] = DOMAIN mail[f] \cup {next[f]}
      /\ \A u \in DOMAIN mail[f] : u # next[f] => mail'[f][u] = mail[f][u]
      /\ \A g \in Folders : g # f => mail'[g] = mail[g]
      /\ mail' = [g \in Folders |-> mail'[g]]
  BY <1>1 DEF Shape
<1>4. /\ next'[f] = next[f] + 1
      /\ \A g \in Folders : g # f => next'[g] = next[g]
  BY <1>2 DEF Shape
<1>5. Shape'
  <2>1. step = "fetch" => fetch \subseteq DOMAIN mail'[here]
    BY <1>3 DEF Shape, Active
  <2>2. next' = [g \in Folders |-> next'[g]]
    BY <1>2 DEF Shape
  <2>. QED
    BY <1>2, <1>3, <2>1, <2>2 DEF Shape
<1>6. FoldersOriginal'
  <2>1. SUFFICES ASSUME NEW g \in Folders, validity[g] = 1, Original(g)
                 PROVE  Original(g)'
    BY <1>2 DEF FoldersOriginal
  <2>2. CASE g # f
    BY <1>2, <1>3, <1>4, <2>1, <2>2 DEF Original, Torn
  <2>3. CASE g = f
    <3>1. markLast[f] \in Nat /\ \A u \in DOMAIN mail[f] \cup DOMAIN cur[f] : u < next[f]
      BY <2>1, <2>3 DEF Shape, Original
    <3>. QED
      BY <1>2, <1>3, <1>4, <2>1, <2>3, <3>1 DEF Original, Torn
  <2>. QED
    BY <2>2, <2>3
<1>7. Coming'
  <2>1. SUFFICES ASSUME step \in Active, validity[here] = 1
                 PROVE  Coming'
    BY <1>2 DEF Coming
  <2>2. here \in Folders /\ Original(here)
    BY <2>1 DEF Shape, FoldersOriginal
  <2>3. CASE here # f
    BY <1>2, <1>3, <1>4, <2>1, <2>2, <2>3 DEF Coming
  <2>4. CASE here = f
    <3>1. step = "fetch" => \A w \in fetch : w < next[f]
      BY <2>2, <2>4 DEF Shape, Original
    <3>2. maxUID \in Nat /\ maxUID < next[f]
      BY <2>1, <2>4 DEF Shape, Coming
    <3>3. ASSUME NEW u \in DOMAIN mail'[f]
          PROVE  \/ u \in DOMAIN cur[f]
                 \/ step = "fetch" /\ u \in fetch
                 \/ u > maxUID /\ (step = "fetch" => \A w \in fetch : w < u)
      <4>1. CASE u = next[f]
        BY <2>2, <2>4, <3>1, <3>2, <4>1 DEF Original
      <4>2. CASE u \in DOMAIN mail[f]
        BY <2>1, <2>4, <4>2 DEF Coming
      <4>. QED
        BY <1>3, <4>1, <4>2
    <3>4. maxUID < next[f] + 1
      BY <2>2, <2>4, <3>2 DEF Original
    <3>. QED
      BY <1>2, <1>4, <2>4, <3>3, <3>4 DEF Coming
  <2>. QED
    BY <2>3, <2>4
<1>. QED
  BY <1>5, <1>6, <1>7

(* A message less, between two sessions. *)
LEMMA ExpungeStep ==
  ASSUME BoundAssumption, MailInv, NEW f \in Folders, Expunge(f)
  PROVE  MailInv'
<1>. USE DEF MailInv, marks, folder, tally
<1>1. PICK u \in DOMAIN mail[f] :
        mail' = [mail EXCEPT ![f] = Restrict(@, DOMAIN @ \ {u})]
  BY DEF Expunge
<1>2. UNCHANGED <<validity, next, cur, markValid, markLast, step, here, fetch, maxUID>> /\ step = "idle"
  BY DEF Expunge
<1>3. /\ DOMAIN mail'[f] \subseteq DOMAIN mail[f]
      /\ \A v \in DOMAIN mail'[f] : mail'[f][v] = mail[f][v]
      /\ \A g \in Folders : g # f => mail'[g] = mail[g]
      /\ mail' = [g \in Folders |-> mail'[g]]
  BY <1>1 DEF Shape, Restrict
<1>4. Shape' /\ Coming'
  BY <1>2, <1>3 DEF Shape, Active, Coming
<1>5. FoldersOriginal'
  <2>1. SUFFICES ASSUME NEW g \in Folders, validity[g] = 1, Original(g)
                 PROVE  Original(g)'
    BY <1>2 DEF FoldersOriginal
  <2>2. DOMAIN mail'[g] \subseteq DOMAIN mail[g] /\ \A v \in DOMAIN mail'[g] : mail'[g][v] = mail[g][v]
    BY <1>3
  <2>. QED
    BY <1>2, <2>1, <2>2 DEF Original, Torn
<1>. QED
  BY <1>4, <1>5

(* A folder that is renumbered is not original any more. *)
LEMMA RenumberStep ==
  ASSUME BoundAssumption, MailInv, NEW f \in Folders, Renumber(f)
  PROVE  MailInv'
<1>. USE DEF MailInv, marks, folder, tally
<1>1. PICK new, n : /\ mail' = [mail EXCEPT ![f] = new]
                    /\ next' = [next EXCEPT ![f] = n]
  BY DEF Renumber
<1>2. /\ validity' = [validity EXCEPT ![f] = @ + 1] /\ step = "idle"
      /\ UNCHANGED <<cur, markValid, markLast, step, here, fetch, maxUID>>
  BY DEF Renumber
<1>3. Shape' /\ Coming'
  <2>1. /\ mail' = [g \in Folders |-> mail'[g]]
        /\ next' = [g \in Folders |-> next'[g]]
        /\ validity' \in [Folders -> Nat \ {0}]
    <3>1. mail' = [g \in Folders |-> mail'[g]]
      BY <1>1 DEF Shape
    <3>2. next' = [g \in Folders |-> next'[g]]
      BY <1>1 DEF Shape
    <3>3. validity[f] + 1 \in Nat \ {0}
      BY DEF Shape
    <3>4. validity' \in [Folders -> Nat \ {0}]
      BY <1>2, <3>3 DEF Shape
    <3>. QED
      BY <3>1, <3>2, <3>4
  <2>2. step' \notin Active
    BY <1>2 DEF Active
  <2>. QED
    BY <1>2, <2>1, <2>2 DEF Shape, Active, Coming
<1>4. FoldersOriginal'
  <2>1. SUFFICES ASSUME NEW g \in Folders, validity'[g] = 1
                 PROVE  Original(g)'
    BY DEF FoldersOriginal
  <2>2. g # f /\ validity[g] = 1
    BY <1>2, <2>1 DEF Shape
  <2>3. mail'[g] = mail[g] /\ next'[g] = next[g] /\ Original(g)
    BY <1>1, <2>2 DEF Shape, FoldersOriginal
  <2>. QED
    BY <1>2, <2>3 DEF Original, Torn
<1>. QED
  BY <1>3, <1>4

(* What the server and the destination hold stays as it is. *)
LEMMA SameFolders ==
  ASSUME FoldersOriginal, UNCHANGED <<validity, mail, next, cur, markLast>>
  PROVE  FoldersOriginal'
  BY DEF FoldersOriginal, Original, Torn

(* Everything above the UID that was recorded is asked for. *)
LEMMA SelectStep ==
  ASSUME BoundAssumption, MailInv, NEW f \in Folders, Select(f)
  PROVE  MailInv'
<1>. USE DEF MailInv, server, marks
<1>1. FoldersOriginal'
  BY SameFolders DEF Select
<1>2. CASE Resumable(f)
  <2>1. /\ step' = "fetch" /\ here' = f /\ fetch' = Asked(f) /\ maxUID' = LastUID(f)
        /\ UNCHANGED <<validity, mail, next, cur, markValid, markLast>>
    BY <1>2 DEF Select
  <2>2. LastUID(f) \in Nat
    BY DEF Shape, LastUID
  <2>3. Shape'
    BY <2>1, <2>2 DEF Shape, Active, Asked
  <2>4. Coming'
    <3>1. SUFFICES ASSUME validity[f] = 1
                   PROVE  Coming'
      BY <2>1 DEF Coming
    <3>2. Original(f)
      BY <3>1 DEF FoldersOriginal
    <3>3. /\ LastUID(f) < next[f]
          /\ \A u \in DOMAIN mail[f] : u <= LastUID(f) => u \in DOMAIN cur[f]
      BY <1>2, <3>1, <3>2 DEF Original, Resumable, LastUID, Shape
    <3>4. \A u \in DOMAIN mail[f] : u \in DOMAIN cur[f] \/ u \in Asked(f)
      BY <2>2, <3>2, <3>3 DEF Asked, Original
    <3>. QED
      BY <2>1, <3>3, <3>4 DEF Coming
  <2>. QED
    BY <1>1, <2>3, <2>4
<1>3. CASE ~Resumable(f)
  BY <1>1, <1>3 DEF Select, FolderFails, Shape, Active, Coming
<1>. QED
  BY <1>2, <1>3

(* A message that is in the Maildir, or comes to be there. *)
LEMMA WriteMessageStep ==
  ASSUME BoundAssumption, MailInv, NEW u \in 1..MaxUid, WriteMessage(u)
  PROVE  MailInv' /\ KeepsMail
<1>. USE DEF MailInv, server, marks
<1>1. /\ step = "fetch" /\ step' = step /\ u \in fetch /\ fetch' = fetch \ {u} /\ here' = here
      /\ UNCHANGED <<validity, mail, next, markValid, markLast>>
      /\ maxUID' = IF u > maxUID THEN u ELSE maxUID
      /\ u \in Nat /\ here \in Folders /\ u \in DOMAIN mail[here]
  BY DEF WriteMessage, Shape, Active, BoundAssumption
<1>2. /\ cur' = [f \in Folders |-> cur'[f]]
      /\ \A f \in Folders : f # here => cur'[f] = cur[f]
      /\ DOMAIN cur'[here] = DOMAIN cur[here] \cup {u}
      /\ \A v \in DOMAIN cur[here] : cur'[here][v] = cur[here][v]
      /\ u \notin DOMAIN cur[here] => cur'[here][u] = mail[here][u]
  BY <1>1 DEF WriteMessage, Shape
<1>3. Shape'
  BY <1>1, <1>2 DEF Shape, Active
<1>4. FoldersOriginal'
  <2>1. SUFFICES ASSUME NEW f \in Folders, validity[f] = 1, Original(f)
                 PROVE  Original(f)'
    BY <1>1 DEF FoldersOriginal
  <2>2. CASE f # here
    BY <1>1, <1>2, <2>1, <2>2 DEF Original, Torn
  <2>3. CASE f = here
    BY <1>1, <1>2, <2>1, <2>3 DEF Original, Torn
  <2>. QED
    BY <2>2, <2>3
<1>5. Coming'
  <2>1. SUFFICES ASSUME validity[here] = 1
                 PROVE  Coming'
    BY <1>1 DEF Coming
  <2>2. Original(here) /\ maxUID \in Nat /\ maxUID < next[here] /\ u < next[here]
    BY <1>1, <2>1 DEF FoldersOriginal, Coming, Active, Shape, Original
  <2>3. maxUID' < next[here]
    BY <1>1, <2>2
  <2>4. ASSUME NEW v \in DOMAIN mail[here]
        PROVE  \/ v \in DOMAIN cur'[here]
               \/ v \in fetch'
               \/ v > maxUID' /\ \A w \in fetch' : w < v
    <3>1. \/ v \in DOMAIN cur[here]
          \/ v \in fetch
          \/ v > maxUID /\ \A w \in fetch : w < v
      BY <1>1, <2>1 DEF Coming, Active
    <3>. QED
      BY <1>1, <1>2, <2>2, <3>1 DEF Original
  <2>. QED
    BY <1>1, <2>3, <2>4 DEF Coming
<1>6. KeepsMail
  BY <1>1, <1>2 DEF KeepsMail
<1>. QED
  BY <1>3, <1>4, <1>5, <1>6

(* The markers, one file at a time; the last one covers what has come. *)
LEMMA MarkersStep ==
  ASSUME BoundAssumption, MailInv,
         TruncateValidity \/ WriteValidity \/ TruncateLast \/ WriteLast
  PROVE  MailInv'
<1>. USE DEF MailInv, server, folder, tally
<1>1. /\ step \in Active /\ here \in Folders /\ step' # "fetch" /\ step' \in Active \cup {"folder"}
      /\ UNCHANGED <<validity, mail, next, cur, here, fetch, maxUID>>
      /\ step = "fetch" => fetch = {}
  BY DEF TruncateValidity, WriteValidity, TruncateLast, WriteLast, Active, Shape
<1>2. Coming'
  BY <1>1 DEF Coming
<1>3. ASSUME TruncateValidity \/ WriteValidity
      PROVE  MailInv'
  <2>1. markLast' = markLast
    BY <1>3 DEF TruncateValidity, WriteValidity
  <2>2. FoldersOriginal'
    BY <1>1, <2>1, SameFolders
  <2>. QED
    BY <1>1, <1>2, <2>1, <2>2 DEF Shape
<1>4. ASSUME TruncateLast \/ WriteLast
      PROVE  MailInv'
  <2>1. PICK n : /\ markLast' = [markLast EXCEPT ![here] = n]
                 /\ n = Torn \/ (n = maxUID /\ step # "fetch")
    BY <1>4 DEF TruncateLast, WriteLast
  <2>2. n \in Nat
    BY <2>1 DEF Shape, Torn, BoundAssumption
  <2>3. Shape'
    BY <1>1, <2>1, <2>2 DEF Shape
  <2>4. FoldersOriginal'
    <3>1. SUFFICES ASSUME NEW f \in Folders, validity[f] = 1, Original(f)
                   PROVE  Original(f)'
      BY <1>1 DEF FoldersOriginal
    <3>2. CASE f # here
      BY <1>1, <2>1, <3>1, <3>2 DEF Original, Torn, Shape
    <3>3. CASE f = here
      <4>1. markLast'[f] = n
        BY <2>1, <3>3 DEF Shape
      <4>2. n # Torn => n < next[f] /\ \A u \in DOMAIN mail[f] : u <= n => u \in DOMAIN cur[f]
        BY <1>1, <2>1, <2>2, <3>1, <3>3 DEF Coming, Original
      <4>. QED
        BY <1>1, <3>1, <4>1, <4>2 DEF Original, Torn
    <3>. QED
      BY <3>2, <3>3
  <2>. QED
    BY <1>2, <2>3, <2>4
<1>. QED
  BY <1>3, <1>4

(* A run that begins, ends or is killed, and a folder that fails. *)
LEMMA ControlStep ==
  ASSUME BoundAssumption, MailInv, Connect \/ FolderAborts \/ MailDone \/ Killed \/ UNCHANGED mailVars
  PROVE  MailInv'
<1>. USE DEF MailInv, server, marks, folder, tally, mailVars, FolderFails, LogOut
<1>1. UNCHANGED <<validity, mail, next, cur, markValid, markLast>>
  BY DEF Connect, FolderAborts, MailDone, Killed
<1>2. FoldersOriginal'
  BY <1>1, SameFolders
<1>3. Shape' /\ Coming'
  <2>1. CASE UNCHANGED mailVars
    BY <2>1 DEF Shape, Coming
  <2>2. CASE Connect \/ FolderAborts \/ MailDone \/ Killed
    BY <1>1, <2>2 DEF Connect, FolderAborts, MailDone, Killed, Shape, Active, Coming
  <2>. QED
    BY <2>1, <2>2
<1>. QED
  BY <1>2, <1>3

(* Every step keeps the invariant and the mail. *)
LEMMA MailNextStep ==
  ASSUME BoundAssumption, MailInv, [MailNext]_mailVars
  PROVE  MailInv' /\ KeepsMail
<1>1. ASSUME NEW f \in Folders, Deliver(f) \/ Expunge(f) \/ Renumber(f) \/ Select(f)
      PROVE  MailInv' /\ cur' = cur
  BY <1>1, DeliverStep, ExpungeStep, RenumberStep, SelectStep
     DEF Deliver, Expunge, Renumber, Select
<1>2. ASSUME NEW u \in 1..MaxUid, WriteMessage(u)
      PROVE  MailInv' /\ KeepsMail
  BY <1>2, WriteMessageStep
<1>3. ASSUME TruncateValidity \/ WriteValidity \/ TruncateLast \/ WriteLast
      PROVE  MailInv' /\ cur' = cur
  BY <1>3, MarkersStep DEF TruncateValidity, WriteValidity, TruncateLast, WriteLast
<1>4. ASSUME Connect \/ FolderAborts \/ MailDone \/ Killed \/ UNCHANGED mailVars
      PROVE  MailInv' /\ cur' = cur
  BY <1>4, ControlStep DEF Connect, FolderAborts, MailDone, Killed, mailVars
<1>5. cur' = cur => KeepsMail
  BY DEF KeepsMail
<1>. QED
  BY <1>1, <1>2, <1>3, <1>4, <1>5 DEF MailNext

-----------------------------------------------------------------------------
(* A folder's recorded UID covers its mail, for any folders, messages and  *)
(* runs: as long as the folder was never renumbered, every message up to   *)
(* it is in the Maildir or was expunged.                                   *)
THEOREM RecordedIsMirrored ==
  ASSUME BoundAssumption
  PROVE  MailSpec => []MarkerCovers
<1>1. MailInit => MailInv
  BY MailInitHolds
<1>2. MailInv /\ [MailNext]_mailVars => MailInv'
  BY MailNextStep
<1>3. MailInv => MarkerCovers
  BY DEF MailInv, FoldersOriginal, Original, MarkerCovers
<1>. QED
  BY <1>1, <1>2, <1>3, PTL DEF MailSpec

(* No step of any run replaces or removes a message that is in the Maildir.*)
THEOREM MirroredStays ==
  ASSUME BoundAssumption
  PROVE  MailSpec => MailKept
<1>1. MailInit => MailInv
  BY MailInitHolds
<1>2. MailInv /\ [MailNext]_mailVars => MailInv'
  BY MailNextStep
<1>3. MailInv /\ [MailNext]_mailVars => [KeepsMail]_mailVars
  BY MailNextStep
<1>. QED
  BY <1>1, <1>2, <1>3, PTL DEF MailSpec, MailKept

-----------------------------------------------------------------------------
(* What the types of the markers rest on: the run's memory is in bounds.   *)
InBounds ==
    /\ MailTypes /\ markValid = [f \in Folders |-> markValid[f]]
    /\ maxUID \in 0..MaxUid
    /\ step \in Active => seen \in 1..MaxValidity

(* A folder's numbers fit when it is renumbered. *)
LEMMA NumbersFit ==
  ASSUME BoundAssumption, MailTypes, NEW f \in Folders
  PROVE  Cardinality(DOMAIN mail[f]) \in 0..MaxUid
<1>1. DOMAIN mail[f] \subseteq 1..MaxUid /\ MaxUid \in Nat \ {0}
  BY DEF MailTypes, BoundAssumption
<1>2. IsFiniteSet(1..MaxUid) /\ Cardinality(1..MaxUid) = MaxUid
  <2>1. /\ IsFiniteSet(1..MaxUid)
        /\ Cardinality(1..MaxUid) = IF 1 > MaxUid THEN 0 ELSE MaxUid - 1 + 1
    <3>1. 1 \in Int /\ MaxUid \in Int
      BY <1>1
    <3>. QED
      BY ONLY <3>1, FS_Interval
  <2>. QED
    BY <1>1, <2>1
<1>3. /\ IsFiniteSet(DOMAIN mail[f])
      /\ Cardinality(DOMAIN mail[f]) <= Cardinality(1..MaxUid)
  BY <1>1, <1>2, FS_Subset
<1>4. Cardinality(DOMAIN mail[f]) \in Nat
  BY <1>3, FS_CardinalityType
<1>. QED
  BY <1>1, <1>2, <1>3, <1>4

(* Mail that comes, goes or is renumbered. *)
LEMMA ServerTypes ==
  ASSUME BoundAssumption, MailInv, InBounds, NEW f \in Folders,
         Deliver(f) \/ Expunge(f) \/ Renumber(f)
  PROVE  InBounds'
<1>. USE DEF marks, folder, tally
<1>1. /\ UNCHANGED <<cur, markValid, markLast, step, folders, here, seen, maxUID,
                     mirrored, failed>>
      /\ MaxUid \in Nat \ {0} /\ MaxValidity \in Nat \ {0}
  BY DEF Deliver, Expunge, Renumber, BoundAssumption
<1>2. /\ \A g \in Folders :
            g # f => mail'[g] = mail[g] /\ next'[g] = next[g] /\ validity'[g] = validity[g]
      /\ validity'[f] \in 1..MaxValidity
  <2>1. validity[f] \in 1..MaxValidity
    BY DEF InBounds, MailTypes
  <2>2. Renumber(f) => validity'[f] = validity[f] + 1 /\ validity[f] < MaxValidity
    BY DEF Renumber, MailInv, Shape
  <2>3. ~Renumber(f) => validity' = validity
    BY DEF Deliver, Expunge
  <2>4. validity'[f] \in 1..MaxValidity
    BY <1>1, <2>1, <2>2, <2>3
  <2>5. ASSUME NEW g \in Folders, g # f
        PROVE  mail'[g] = mail[g] /\ next'[g] = next[g] /\ validity'[g] = validity[g]
    BY <2>5 DEF Deliver, Expunge, Renumber, MailInv, Shape
  <2>. QED
    BY <2>4, <2>5
<1>3. /\ next'[f] \in 1..MaxUid + 1
      /\ DOMAIN mail'[f] \subseteq 1..MaxUid /\ Range(mail'[f]) \subseteq Messages
  <2>1. /\ next[f] \in 1..MaxUid + 1
        /\ DOMAIN mail[f] \subseteq 1..MaxUid /\ Range(mail[f]) \subseteq Messages
    BY DEF InBounds, MailTypes
  <2>2. CASE Deliver(f)
    <3>1. PICK m \in Messages :
             mail' = [mail EXCEPT ![f] = [u \in DOMAIN @ \cup {next[f]} |->
                                            IF u = next[f] THEN m ELSE @[u]]]
      BY <2>2 DEF Deliver
    <3>2. next[f] <= MaxUid /\ next'[f] = next[f] + 1
      BY <2>2 DEF Deliver, MailInv, Shape
    <3>3. mail'[f] = [u \in DOMAIN mail[f] \cup {next[f]} |->
                        IF u = next[f] THEN m ELSE mail[f][u]]
      BY <3>1 DEF MailInv, Shape
    <3>4. \A u \in DOMAIN mail[f] : mail[f][u] \in Messages
      BY <2>1 DEF Range
    <3>5. Range(mail'[f]) \subseteq Messages
      BY <3>3, <3>4 DEF Range
    <3>. QED
      BY <1>1, <2>1, <3>2, <3>3, <3>5
  <2>3. CASE Expunge(f)
    <3>1. PICK u \in DOMAIN mail[f] :
             mail' = [mail EXCEPT ![f] = Restrict(@, DOMAIN @ \ {u})]
      BY <2>3 DEF Expunge
    <3>2. mail'[f] = [v \in DOMAIN mail[f] \ {u} |-> mail[f][v]]
      BY <3>1 DEF MailInv, Shape, Restrict
    <3>3. Range(mail'[f]) \subseteq Range(mail[f])
      BY <3>2 DEF Range
    <3>4. next' = next
      BY <2>3 DEF Expunge
    <3>. QED
      BY <2>1, <3>2, <3>3, <3>4
  <2>4. CASE Renumber(f)
    <3>1. PICK new \in [1..Cardinality(DOMAIN mail[f]) -> Range(mail[f])] :
             mail' = [mail EXCEPT ![f] = new]
      BY <2>4 DEF Renumber
    <3>2. mail'[f] = new /\ next'[f] = Cardinality(DOMAIN mail[f]) + 1
      BY <2>4, <3>1 DEF Renumber, MailInv, Shape
    <3>3. Cardinality(DOMAIN mail[f]) \in 0..MaxUid
      BY NumbersFit DEF InBounds
    <3>4. Range(new) \subseteq Range(mail[f])
      BY DEF Range
    <3>. QED
      BY <1>1, <2>1, <3>2, <3>3, <3>4
  <2>. QED
    BY <2>2, <2>3, <2>4
<1>4. ASSUME NEW g \in Folders
      PROVE  /\ validity'[g] \in 1..MaxValidity /\ next'[g] \in 1..MaxUid + 1
             /\ DOMAIN mail'[g] \subseteq 1..MaxUid /\ Range(mail'[g]) \subseteq Messages
  BY <1>2, <1>3 DEF InBounds, MailTypes
<1>. QED
  BY <1>1, <1>4 DEF InBounds, MailTypes, Torn

(* A message that comes to be in the Maildir. *)
LEMMA MaildirTypes ==
  ASSUME BoundAssumption, MailInv, InBounds, NEW u \in 1..MaxUid, WriteMessage(u)
  PROVE  InBounds'
<1>. USE DEF server, marks, tally
<1>1. /\ UNCHANGED <<validity, mail, next, markValid, markLast, step, folders, here, seen,
                     mirrored, failed>>
      /\ maxUID' = IF u > maxUID THEN u ELSE maxUID
      /\ here \in Folders /\ u \in DOMAIN mail[here]
  BY DEF WriteMessage, MailInv, Shape, Active
<1>2. maxUID' \in 0..MaxUid
  BY <1>1 DEF InBounds, BoundAssumption
<1>3. mail[here][u] \in Messages
  BY <1>1 DEF InBounds, MailTypes, Range
<1>4. ASSUME NEW f \in Folders
      PROVE  DOMAIN cur'[f] \subseteq 1..MaxUid /\ Range(cur'[f]) \subseteq Messages
  <2>1. DOMAIN cur[f] \subseteq 1..MaxUid /\ Range(cur[f]) \subseteq Messages
    BY DEF InBounds, MailTypes
  <2>2. CASE cur'[f] = cur[f]
    BY <2>1, <2>2
  <2>3. CASE cur'[f] # cur[f]
    <3>1. f = here /\ cur'[f] = [v \in DOMAIN cur[f] \cup {u} |->
                                   IF v = u THEN mail[here][u] ELSE cur[f][v]]
      BY <1>1, <2>3 DEF WriteMessage, MailInv, Shape
    <3>2. \A v \in DOMAIN cur[f] : cur[f][v] \in Messages
      BY <2>1 DEF Range
    <3>. QED
      BY <1>3, <2>1, <3>1, <3>2 DEF Range
  <2>. QED
    BY <2>2, <2>3
<1>. QED
  BY <1>1, <1>2, <1>4 DEF InBounds, MailTypes, Torn

(* A folder is selected, fails or is completed; a run begins or ends. *)
LEMMA RunTypes ==
  ASSUME BoundAssumption, MailInv, InBounds,
         \/ \E f \in Folders : Select(f)
         \/ Connect \/ FolderAborts \/ MailDone \/ Killed \/ UNCHANGED mailVars
  PROVE  InBounds'
<1>. USE DEF server, marks, folder, tally, mailVars
<1>1. /\ UNCHANGED <<validity, mail, next, cur, markValid, markLast>>
      /\ MaxUid \in Nat \ {0}
  BY DEF Select, Connect, FolderAborts, MailDone, Killed, BoundAssumption
<1>. DEFINE Memory == /\ maxUID \in 0..MaxUid
                      /\ step \in Active => seen \in 1..MaxValidity
                      /\ folders \subseteq Folders /\ mirrored \cup failed \subseteq Folders
<1>2. Memory'
  <2>1. ASSUME NEW f \in Folders, Select(f)
        PROVE  Memory'
    <3>1. CASE Resumable(f)
      <4>1. validity[f] \in 1..MaxValidity /\ markLast[f] \in 0..MaxUid \cup {Torn}
        BY DEF InBounds, MailTypes
      <4>2. LastUID(f) \in 0..MaxUid
        BY <1>1, <3>1, <4>1 DEF Resumable, LastUID
      <4>. QED
        BY <2>1, <3>1, <4>1, <4>2 DEF Select, InBounds, MailTypes
    <3>2. CASE ~Resumable(f)
      BY <1>1, <2>1, <3>2 DEF Select, FolderFails, InBounds, MailTypes, Active
    <3>. QED
      BY <3>1, <3>2
  <2>2. CASE FolderAborts
    BY <1>1, <2>2 DEF FolderAborts, FolderFails, InBounds, MailTypes, MailInv, Shape, Active
  <2>3. CASE Connect
    BY <2>3 DEF Connect, InBounds, MailTypes, Active
  <2>4. CASE MailDone \/ Killed
    BY <1>1, <2>4 DEF MailDone, Killed, LogOut, Active
  <2>5. CASE UNCHANGED mailVars
    BY <2>5 DEF InBounds, MailTypes
  <2>. QED
    BY <2>1, <2>2, <2>3, <2>4, <2>5
<1>. QED
  BY <1>1, <1>2 DEF InBounds, MailTypes, Torn

(* The markers, torn and written. *)
LEMMA MarkerTypes ==
  ASSUME BoundAssumption, MailInv, InBounds,
         TruncateValidity \/ WriteValidity \/ TruncateLast \/ WriteLast
  PROVE  InBounds'
<1>. USE DEF server, folder, tally
<1>1. /\ UNCHANGED <<validity, mail, next, cur, here, seen, maxUID, failed>>
      /\ step \in Active /\ here \in Folders
  BY DEF TruncateValidity, WriteValidity, TruncateLast, WriteLast, Active, MailInv, Shape
<1>2. folders' \subseteq Folders /\ mirrored' \cup failed' \subseteq Folders
  BY <1>1 DEF TruncateValidity, WriteValidity, TruncateLast, WriteLast, InBounds, MailTypes
<1>3. /\ markValid' = [f \in Folders |-> markValid'[f]]
      /\ \A f \in Folders : markValid'[f] \in 0..MaxValidity \cup {Torn}
  <2>1. seen \in 0..MaxValidity
    BY <1>1 DEF InBounds, BoundAssumption
  <2>2. PICK n \in 0..MaxValidity \cup {Torn} :
          markValid' = [markValid EXCEPT ![here] = n] \/ markValid' = markValid
    BY <2>1 DEF TruncateValidity, WriteValidity, TruncateLast, WriteLast
  <2>. QED
    BY <2>2 DEF InBounds, MailTypes
<1>4. \A f \in Folders : markLast'[f] \in 0..MaxUid \cup {Torn}
  <2>1. PICK n \in 0..MaxUid \cup {Torn} :
          markLast' = [markLast EXCEPT ![here] = n] \/ markLast' = markLast
    BY DEF TruncateValidity, WriteValidity, TruncateLast, WriteLast, InBounds
  <2>. QED
    BY <2>1 DEF InBounds, MailTypes, MailInv, Shape
<1>. QED
  BY <1>1, <1>2, <1>3, <1>4 DEF InBounds, MailTypes, Torn

(* The server, the Maildirs, the markers and the run's memory are well     *)
(* typed, for any folders and messages and any bounds on the numbers: no   *)
(* marker holds a UID or a UIDVALIDITY out of range, torn or not.          *)
THEOREM MailTypeCorrect ==
  ASSUME BoundAssumption
  PROVE  MailSpec => []MailTypes
<1>1. MailInit => MailInv /\ InBounds
  <2>1. MailInit => InBounds
    BY DEF MailInit, InBounds, MailTypes, NoMail, Torn, BoundAssumption, Active, Range
  <2>. QED
    BY <2>1, MailInitHolds
<1>2. MailInv /\ InBounds /\ [MailNext]_mailVars => (MailInv /\ InBounds)'
  <2>1. SUFFICES ASSUME MailInv, InBounds, [MailNext]_mailVars
                 PROVE  InBounds'
    BY MailNextStep
  <2>. QED
    BY <2>1, ServerTypes, MaildirTypes, RunTypes, MarkerTypes DEF MailNext
<1>3. InBounds => MailTypes
  BY DEF InBounds
<1>. QED
  BY <1>1, <1>2, <1>3, PTL DEF MailSpec
=============================================================================
