--------------------------- MODULE ProcessProofs ---------------------------
(***************************************************************************)
(* What a mirror process promises, of whatever method it is: first the     *)
(* bounds of what the walks of SourceForge, groups.io and Gopher keep in   *)
(* memory, and then that a process's step is a step of its method, so that *)
(* it keeps what the method's own theorems say.                            *)
(***************************************************************************)
EXTENDS MirrorProofs, CloudMailProofs

-----------------------------------------------------------------------------
(* How deep a walk goes: what is left on a level of the stack is further   *)
(* down the tree than that level, and on the way to a folder there are as  *)
(* many folders as its path has names.                                     *)
Deep == \A i \in 1..Len(stack) : \A e \in stack[i] : Len(stack) - i < Len(e[1])

LEMMA DeepPush ==
  ASSUME NEW X, stack \in Seq(SUBSET X), \A e \in X : Len(e[1]) \in Nat, Deep,
         NEW rows \in SUBSET X, \A e \in rows : Len(stack) < Len(e[1]),
         stack' = <<rows>> \o stack
  PROVE  Deep' /\ Len(stack') = Len(stack) + 1
<1>1. /\ Len(stack) \in Nat /\ Len(stack') = Len(stack) + 1 /\ stack'[1] = rows
      /\ \A i \in 1..Len(stack) + 1 : i > 1 => stack'[i] = stack[i - 1]
  OBVIOUS
<1>2. ASSUME NEW i \in 1..Len(stack) + 1, NEW e \in stack'[i]
      PROVE  Len(stack) + 1 - i < Len(e[1])
  <2>1. CASE i = 1
    BY <1>1, <1>2, <2>1
  <2>2. CASE i > 1
    <3>1. i - 1 \in 1..Len(stack) /\ e \in stack[i - 1] /\ stack[i - 1] \in SUBSET X
      BY <1>1, <1>2, <2>2
    <3>2. Len(stack) - (i - 1) < Len(e[1]) /\ Len(e[1]) \in Nat
      BY <3>1 DEF Deep
    <3>. QED
      BY <1>1, <3>2
  <2>. QED
    BY <2>1, <2>2
<1>. QED
  BY <1>1, <1>2 DEF Deep

LEMMA DeepTake ==
  ASSUME NEW X, stack \in Seq(SUBSET X), \A e \in X : Len(e[1]) \in Nat, Deep,
         stack # <<>>, NEW e \in Head(stack),
         stack' = <<Head(stack) \ {e}>> \o Tail(stack)
  PROVE  Deep' /\ Len(stack') = Len(stack) /\ Len(stack) <= Len(e[1])
<1>1. /\ Len(stack) \in Nat \ {0} /\ Head(stack) = stack[1] /\ Len(stack') = Len(stack)
      /\ \A i \in 1..Len(stack) : stack'[i] \subseteq stack[i] /\ stack[i] \in SUBSET X
  OBVIOUS
<1>2. Len(stack) - 1 < Len(e[1]) /\ Len(e[1]) \in Nat
  BY <1>1 DEF Deep
<1>3. Deep'
  BY <1>1 DEF Deep
<1>. QED
  BY <1>1, <1>2, <1>3

LEMMA DeepPop ==
  ASSUME NEW X, stack \in Seq(SUBSET X), \A e \in X : Len(e[1]) \in Nat, Deep,
         stack # <<>>, stack' = Tail(stack)
  PROVE  Deep' /\ Len(stack') = Len(stack) - 1
<1>1. /\ Len(stack) \in Nat \ {0} /\ Len(stack') = Len(stack) - 1
      /\ \A i \in 1..Len(stack') : i + 1 \in 1..Len(stack) /\ stack'[i] = stack[i + 1]
  OBVIOUS
<1>2. ASSUME NEW i \in 1..Len(stack'), NEW e \in stack'[i]
      PROVE  Len(stack') - i < Len(e[1])
  <2>1. i + 1 \in 1..Len(stack) /\ e \in stack[i + 1] /\ stack[i + 1] \in SUBSET X
    BY <1>1, <1>2
  <2>2. Len(stack) - (i + 1) < Len(e[1]) /\ Len(e[1]) \in Nat
    BY <2>1 DEF Deep
  <2>. QED
    BY <1>1, <2>2
<1>. QED
  BY <1>1, <1>2 DEF Deep

LEMMA FoldersAbove ==
  ASSUME NEW E, NEW D, Tree(E, D), IsFiniteSet(D), NEW d \in D
  PROVE  Len(d) \in Nat /\ Cardinality(D) \in Nat /\ Len(d) < Cardinality(D)
<1>1. d \in Seq(Range(d)) /\ Len(d) \in Nat /\ (d = <<>> \/ d \in E)
  <2>1. d \in E \cup {<<>>}
    BY DEF Tree
  <2>2. d \in Seq(Range(d))
    BY <2>1, PlacesArePaths
  <2>. QED
    BY <2>1, <2>2
<1>2. /\ \A k \in 0..Len(d) : Len(SubSeq(d, 1, k)) = k
      /\ SubSeq(d, 1, Len(d)) = d
  BY <1>1
<1>3. \A k \in 0..Len(d) : SubSeq(d, 1, k) \in D
  <2>1. ASSUME NEW k \in 0..Len(d), k # Len(d)
        PROVE  SubSeq(d, 1, k) \in D
    <3>1. d \in E /\ k \in 0..Len(d) - 1
      BY <1>1, <2>1
    <3>. QED
      BY <3>1 DEF Tree
  <2>. QED
    BY <1>2, <2>1
<1>. DEFINE above == [k \in 0..Len(d) |-> SubSeq(d, 1, k)]
<1>4. above \in Injection(0..Len(d), D)
  BY <1>2, <1>3 DEF Injection, IsInjective
<1>. HIDE DEF above
<1>5. Cardinality(0..Len(d)) <= Cardinality(D)
  BY <1>4, FS_Injection
<1>6. Cardinality(0..Len(d)) = Len(d) + 1
  <2>1. 0 \in Int /\ Len(d) \in Int /\ ~(0 > Len(d))
    BY <1>1
  <2>2. Cardinality(0..Len(d)) = IF 0 > Len(d) THEN 0 ELSE Len(d) - 0 + 1
    BY <2>1, FS_Interval
  <2>. QED
    BY <1>1, <2>2
<1>7. Cardinality(D) \in Nat
  BY FS_CardinalityType
<1>. QED
  BY <1>1, <1>5, <1>6, <1>7

LEMMA OneDeeper ==
  ASSUME NEW q, q \in Seq(Range(q)), q # <<>>
  PROVE  Len(q) = Len(Front(q)) + 1 /\ Len(Front(q)) \in Nat
<1>1. Len(q) \in Nat \ {0} /\ Len(q) - 1 \in 0..Len(q)
  OBVIOUS
<1>2. Len(SubSeq(q, 1, Len(q) - 1)) = Len(q) - 1
  BY <1>1
<1>. QED
  BY <1>1, <1>2 DEF Front

-----------------------------------------------------------------------------
(* SourceForge: the files the run knows of and the versions they have, and *)
(* what it holds of the folders.                                           *)
ForgeData ==
    /\ edits <= Area.MaxEdits /\ \A f \in DOMAIN site : site[f] <= Area.MaxEdits + 1
    /\ DOMAIN goal \subseteq S!Files /\ parts \subseteq S!Files
    /\ DOMAIN kept \subseteq S!Files
    /\ \A f \in DOMAIN kept : kept[f] \in 0..Area.MaxEdits + 1
    /\ at = "body" => copy[3] \in 0..Area.MaxEdits + 1
    /\ attempt \in 0..Area.Retries
    /\ Busy <=> copy # S!Nothing

ForgeDepth ==
    /\ Deep /\ Len(stack) <= Cardinality(Area.Dirs)
    /\ at = "list" /\ copy[1] \in Area.Dirs => Len(stack) <= Len(copy[1])

LEMMA ForgeDataStep ==
  ASSUME S!AreaAssumption, ForgeInv, ForgeData, [S!Next]_(S!vars)
  PROVE  ForgeData'
<1>. USE DEF S!area, S!dest, S!run, S!hist
<1>1. /\ Area.MaxEdits \in Nat /\ Area.Retries \in Nat /\ edits \in Nat
      /\ DOMAIN site \subseteq S!Files /\ \A f \in DOMAIN site : site[f] \in Nat
      /\ \A f \in DOMAIN site : site[f] \in 0..Area.MaxEdits + 1
  BY DEF S!AreaAssumption, ForgeInv, ForgeTypes, ForgeData, Versions
<1>2. CASE UNCHANGED S!vars
  BY <1>2 DEF S!vars, ForgeData, Busy, S!Nothing
<1>3. ASSUME NEW f \in S!Files, S!Edit(f)
      PROVE  ForgeData'
  <2>1. /\ edits < Area.MaxEdits /\ edits' = edits + 1
        /\ UNCHANGED <<goal, parts, kept, at, copy, attempt>>
        /\ \/ site' = [g \in DOMAIN site \cup {f} |-> IF g = f THEN edits' + 1 ELSE site[g]]
           \/ site' = S!Restrict(site, DOMAIN site \ {f})
    BY <1>3 DEF S!Edit
  <2>2. \A g \in DOMAIN site' : site'[g] <= Area.MaxEdits + 1
    <3>1. CASE site' = [g \in DOMAIN site \cup {f} |-> IF g = f THEN edits' + 1 ELSE site[g]]
      BY <1>1, <2>1, <3>1
    <3>2. CASE site' = S!Restrict(site, DOMAIN site \ {f})
      BY <1>1, <3>2 DEF S!Restrict
    <3>. QED
      BY <2>1, <3>1, <3>2
  <2>. QED
    BY <1>1, <2>1, <2>2 DEF ForgeData, Busy, S!Nothing
<1>4. ASSUME NEW p \in Area.Roots, S!Start(p)
      PROVE  ForgeData'
  BY <1>1, <1>4 DEF S!Start, ForgeData, Busy, S!Nothing
<1>5. ASSUME S!Forget, UNCHANGED <<edits, site, kept>>, parts' \subseteq parts
      PROVE  ForgeData'
  BY <1>1, <1>5 DEF S!Forget, ForgeData, Busy, S!Nothing, S!NoFiles
<1>6. CASE S!List
  BY <1>1, <1>6 DEF S!List, ForgeData, Busy, S!Nothing
<1>7. CASE S!Redirected
  BY <1>1, <1>7 DEF S!Redirected, ForgeData, Busy, S!Nothing
<1>8. CASE S!FindRoot
  BY <1>1, <1>8 DEF S!FindRoot, ForgeData, Busy, S!Nothing
<1>9. ASSUME NEW d \in Area.Dirs, S!EnterFolder(d)
      PROVE  ForgeData'
  BY <1>1, <1>9 DEF S!EnterFolder, S!NextIs, ForgeData, Busy, S!Nothing
<1>10. ASSUME NEW f \in S!Files, NEW v \in 1..Area.MaxEdits + 1, S!File(f, v)
       PROVE  ForgeData'
  <2>1. /\ at = "walk"
        /\ \/ UNCHANGED <<at, copy>>
           \/ at' = "get" /\ copy' = <<f, v>>
        /\ UNCHANGED <<edits, site, kept, parts, goal, attempt>>
    BY <1>10 DEF S!File, S!NextIs
  <2>2. CASE UNCHANGED <<at, copy>>
    BY <2>1, <2>2 DEF ForgeData, Busy
  <2>3. CASE at' = "get" /\ copy' = <<f, v>>
    <3>1. copy' # S!Nothing
      BY <2>3 DEF S!Nothing
    <3>2. Busy'
      BY <2>3 DEF Busy
    <3>. QED
      BY <2>1, <2>3, <3>1, <3>2 DEF ForgeData
  <2>. QED
    BY <2>1, <2>2, <2>3
<1>11. CASE S!Get
  <2>1. /\ at = "get" /\ at' = "body" /\ parts' = parts \cup {copy[1]}
        /\ copy[1] \in S!Files
        /\ UNCHANGED <<edits, site, kept, goal, attempt>>
        /\ \/ copy[1] \in DOMAIN site /\ copy' = <<copy[1], copy[2], site[copy[1]]>>
           \/ copy' = <<copy[1], copy[2], S!OtherAnswer>>
    BY <1>11 DEF S!Get, ForgeInv, ForgeTypes
  <2>2. copy'[3] \in 0..Area.MaxEdits + 1 /\ copy' # S!Nothing
    BY <1>1, <2>1 DEF S!OtherAnswer, S!Nothing
  <2>. QED
    BY <1>1, <2>1, <2>2 DEF ForgeData, Busy, S!Nothing
<1>12. CASE S!Commit
  <2>1. copy[1] \in S!Files
    BY <1>12 DEF S!Commit, ForgeInv, ForgeTypes
  <2>. QED
    BY <1>1, <1>12, <2>1 DEF S!Commit, ForgeData, Busy, S!Nothing
<1>13. CASE S!Retry
  BY <1>1, <1>13 DEF S!Retry, S!Discard, ForgeData, Busy, S!Nothing
<1>14. CASE S!GiveUp
  <2>1. parts' \subseteq parts /\ UNCHANGED <<edits, site, kept>>
    BY <1>14 DEF S!GiveUp, S!Discard
  <2>2. CASE stack = <<>>
    BY <1>5, <1>14, <2>1, <2>2 DEF S!GiveUp
  <2>3. CASE stack # <<>>
    BY <1>1, <1>14, <2>1, <2>3 DEF S!GiveUp, ForgeData, Busy, S!Nothing
  <2>. QED
    BY <2>2, <2>3
<1>15. CASE S!LeaveFolder \/ S!TimedOut
  BY <1>1, <1>15 DEF S!TimedOut, S!LeaveFolder, ForgeData, Busy, S!Nothing
<1>16. CASE S!Finish \/ S!Crash
  BY <1>5, <1>16 DEF S!Finish, S!Crash
<1>. QED
  BY <1>2, <1>3, <1>4, <1>6, <1>7, <1>8, <1>9, <1>10, <1>11, <1>12, <1>13, <1>14, <1>15, <1>16
  DEF S!Next

LEMMA ForgeDepthStep ==
  ASSUME S!AreaAssumption, ForgeInv, ForgeDepth, [S!Next]_(S!vars)
  PROVE  ForgeDepth'
<1>. USE DEF S!area, S!dest, S!run, S!hist
<1>. DEFINE Row == ForgePaths \X Nat
<1>1. /\ \A p \in ForgePaths : p \in Seq(Range(p)) /\ Len(p) \in Nat
      /\ \A e \in Row : e[1] \in ForgePaths /\ Len(e[1]) \in Nat
  <2>1. \A p \in ForgePaths : p \in Seq(Range(p))
    BY TreesOfMethods, PlacesArePaths DEF ForgePaths
  <2>. QED
    BY <2>1
<1>2. /\ Cardinality(Area.Dirs) \in Nat
      /\ \A d \in Area.Dirs : d \in ForgePaths /\ Len(d) < Cardinality(Area.Dirs)
  <2>1. IsFiniteSet(Area.Dirs)
    <3>1. IsFiniteSet(Area.Entries)
      BY DEF S!AreaAssumption, S!IsFiniteSet, IsFiniteSet
    <3>2. IsFiniteSet(Area.Entries \cup {<<>>})
      BY <3>1, FS_AddElement
    <3>3. Area.Dirs \subseteq Area.Entries \cup {<<>>}
      BY DEF S!AreaAssumption
    <3>. QED
      BY <3>2, <3>3, FS_Subset
  <2>2. Cardinality(Area.Dirs) \in Nat
    BY <2>1, FS_CardinalityType
  <2>3. \A d \in Area.Dirs : Len(d) < Cardinality(Area.Dirs)
    BY <2>1, FoldersAbove, TreesOfMethods
  <2>4. Area.Dirs \subseteq ForgePaths
    BY DEF S!AreaAssumption, ForgePaths
  <2>. QED
    BY <2>2, <2>3, <2>4
<1>3. stack \in Seq(SUBSET Row) /\ Len(stack) \in Nat /\ root \in ForgePaths
  <2>1. stack \in Seq(SUBSET Row) /\ root \in ForgePaths
    BY DEF ForgeInv, ForgeTypes
  <2>. QED
    BY <2>1
<1>. HIDE DEF Row
<1>4. ASSUME stack' = stack, at' # "list" \/ (at = "list" /\ copy'[1] = copy[1])
      PROVE  ForgeDepth'
  BY <1>4 DEF ForgeDepth, Deep
<1>5. ASSUME stack' = <<>>, at' # "list"
      PROVE  ForgeDepth'
  BY <1>2, <1>5 DEF ForgeDepth, Deep
<1>6. ASSUME NEW p \in Area.Roots, S!Start(p)
      PROVE  ForgeDepth'
  <2>1. /\ stack' = <<>> /\ copy'[1] = p /\ p \in ForgePaths
    BY <1>6 DEF S!Start, S!AreaAssumption, S!Files, ForgePaths, ForgeInv, ForgeTypes
  <2>2. Len(p) \in Nat /\ Len(stack') = 0
    BY <1>1, <2>1
  <2>. QED
    BY <1>2, <2>1, <2>2 DEF ForgeDepth, Deep
<1>7. CASE S!List
  <2>. DEFINE rows == S!Children(copy[1])
  <2>1. /\ at = "list" /\ copy[1] \in Area.Dirs /\ stack' = <<rows>> \o stack
        /\ at' = "walk"
    BY <1>7 DEF S!List
  <2>2. Len(stack) <= Len(copy[1]) /\ Deep
    BY <2>1 DEF ForgeDepth
  <2>3. \A e \in rows : e \in Row /\ Len(stack) < Len(e[1])
    <3>1. SUFFICES ASSUME NEW q \in Area.Entries, q \in Area.Dirs \cup DOMAIN site,
                          S!Front(q) = copy[1]
                   PROVE  S!Entry(q) \in Row /\ Len(stack) < Len(S!Entry(q)[1])
      BY DEF S!Children
    <3>2. S!Entry(q) \in Row /\ S!Entry(q)[1] = q
      BY <3>1 DEF S!Entry, Row, ForgePaths, ForgeInv, ForgeTypes, Versions
    <3>3. q \in Seq(Range(q)) /\ q # <<>>
      BY <1>1 DEF ForgePaths, S!AreaAssumption
    <3>4. Len(q) = Len(copy[1]) + 1 /\ Len(copy[1]) \in Nat
      BY <3>1, <3>3, OneDeeper DEF S!Front, Front
    <3>. QED
      BY <1>3, <2>2, <3>2, <3>4
  <2>4. rows \in SUBSET Row
    BY <2>3
  <2>. HIDE DEF rows
  <2>5. Deep' /\ Len(stack') = Len(stack) + 1
    BY <1>1, <1>3, <2>1, <2>2, <2>3, <2>4, DeepPush
  <2>6. Len(stack) + 1 <= Cardinality(Area.Dirs)
    BY <1>1, <1>2, <1>3, <2>1, <2>2
  <2>. QED
    BY <2>1, <2>5, <2>6 DEF ForgeDepth
<1>8. CASE S!Redirected
  BY <1>4, <1>8 DEF S!Redirected
<1>9. CASE S!FindRoot
  <2>. DEFINE rows == {S!Entry(root)}
  <2>1. stack' = <<rows>> /\ at' = "walk" /\ root \in DOMAIN site
    BY <1>9 DEF S!FindRoot
  <2>2. S!Entry(root)[1] = root
    BY DEF S!Entry
  <2>3. root \in Area.Entries /\ Len(root) \in Nat \ {0} /\ <<>> \in Area.Dirs
    <3>1. root \in Area.Entries /\ root # <<>>
      BY <2>1 DEF ForgeInv, ForgeTypes, S!Files, S!AreaAssumption
    <3>2. root \in Seq(Range(root))
      BY <1>1, <1>3
    <3>3. Len(root) \in Nat \ {0} /\ SubSeq(root, 1, 0) = <<>>
      BY <3>1, <3>2
    <3>4. SubSeq(root, 1, 0) \in Area.Dirs
      BY <3>1, <3>3 DEF S!AreaAssumption
    <3>. QED
      BY <3>1, <3>3, <3>4
  <2>4. Len(stack') = 1 /\ stack'[1] = rows
    BY <2>1
  <2>5. Deep'
    BY <2>2, <2>3, <2>4 DEF Deep
  <2>6. 1 <= Cardinality(Area.Dirs)
    BY <1>1, <1>2, <2>3
  <2>. QED
    BY <2>1, <2>4, <2>5, <2>6 DEF ForgeDepth
<1>10. ASSUME NEW e, S!NextIs(e)
       PROVE  /\ Deep' /\ Len(stack') = Len(stack) /\ Len(stack) <= Len(e[1])
              /\ Len(stack') <= Cardinality(Area.Dirs)
  BY <1>1, <1>3, <1>10, DeepTake DEF S!NextIs, ForgeDepth
<1>11. ASSUME NEW d \in Area.Dirs, S!EnterFolder(d)
       PROVE  ForgeDepth'
  <2>1. S!NextIs(<<d, 0>>) /\ copy'[1] = d /\ <<d, 0>>[1] = d
    BY <1>11 DEF S!EnterFolder
  <2>. QED
    BY <1>10, <2>1 DEF ForgeDepth
<1>12. ASSUME NEW f \in S!Files, NEW v \in 1..Area.MaxEdits + 1, S!File(f, v)
       PROVE  ForgeDepth'
  <2>1. S!NextIs(<<f, v>>) /\ at' # "list"
    BY <1>12 DEF S!File, S!NextIs
  <2>. QED
    BY <1>10, <2>1 DEF ForgeDepth
<1>13. CASE S!Get \/ S!Commit
  BY <1>4, <1>13 DEF S!Get, S!Commit
<1>14. CASE S!Retry \/ S!TimedOut
  BY <1>4, <1>14 DEF S!Retry, S!TimedOut
<1>15. CASE S!GiveUp
  <2>1. CASE stack = <<>>
    BY <1>5, <1>15, <2>1 DEF S!GiveUp, S!Forget
  <2>2. CASE stack # <<>>
    BY <1>4, <1>15, <2>2 DEF S!GiveUp
  <2>. QED
    BY <2>1, <2>2
<1>16. CASE S!LeaveFolder
  <2>1. Deep' /\ Len(stack') = Len(stack) - 1 /\ at' # "list"
    BY <1>1, <1>3, <1>16, DeepPop DEF S!LeaveFolder, ForgeDepth
  <2>. QED
    BY <1>2, <1>3, <2>1 DEF ForgeDepth
<1>17. CASE S!Finish \/ S!Crash
  BY <1>5, <1>17 DEF S!Finish, S!Crash, S!Forget
<1>18. ASSUME NEW f \in S!Files, S!Edit(f)
       PROVE  ForgeDepth'
  BY <1>4, <1>18 DEF S!Edit
<1>19. CASE UNCHANGED S!vars
  BY <1>4, <1>19 DEF S!vars
<1>. QED
  BY <1>6, <1>7, <1>8, <1>9, <1>11, <1>12, <1>13, <1>14, <1>15, <1>16, <1>17, <1>18, <1>19
  DEF S!Next

(* The SourceForge mirror's area, directory and memory are well typed, and *)
(* a walk is never in more folders than the area has (folder).             *)
THEOREM ForgeTypesCorrect ==
  ASSUME S!AreaAssumption
  PROVE  S!Spec => []S!TypeOK
<1>1. S!Init => ForgeData /\ ForgeDepth
  <2>1. SUFFICES ASSUME S!Init
                 PROVE  ForgeData /\ ForgeDepth
    OBVIOUS
  <2>2. ForgeData
    BY <2>1 DEF S!Init, S!AreaAssumption, ForgeData, Busy, S!Nothing, S!NoFiles
  <2>3. Cardinality(Area.Dirs) \in Nat
    <3>1. IsFiniteSet(Area.Entries \cup {<<>>})
      BY FS_AddElement DEF S!AreaAssumption, S!IsFiniteSet, IsFiniteSet
    <3>. QED
      BY <3>1, FS_Subset, FS_CardinalityType DEF S!AreaAssumption
  <2>4. ForgeDepth
    BY <2>1, <2>3 DEF S!Init, ForgeDepth, Deep
  <2>. QED
    BY <2>2, <2>4
<1>2. ForgeInv /\ ForgeData /\ ForgeDepth => S!TypeOK
  <2>1. \A X : S!Cardinality(X) = Cardinality(X)
    BY DEF S!Cardinality, Cardinality, S!IsFiniteSet, IsFiniteSet
  <2>. QED
    BY <2>1 DEF ForgeInv, ForgeTypes, ForgeData, ForgeDepth, Busy, Versions, S!TypeOK, S!Range
<1>. QED
  BY <1>1, <1>2, ForgeInvariant, ForgeDataStep, ForgeDepthStep, PTL DEF S!Spec

-----------------------------------------------------------------------------
(* groups.io: the same, where a folder is listed in pages. *)
GroupData ==
    /\ edits <= Section.MaxEdits
    /\ \A f \in DOMAIN group : group[f] \in 1..Section.MaxEdits + 1
    /\ DOMAIN goal \subseteq O!Files
    /\ \A f \in DOMAIN goal : goal[f] \in 1..Section.MaxEdits + 1
    /\ attempt \in Nat /\ attempt < Section.MaxAttempts
    /\ Working <=> copy # O!Nothing

GroupDepth ==
    /\ Deep /\ Len(stack) <= Cardinality(Section.Dirs)
    /\ at = "list" => /\ Len(stack) <= Len(copy)
                      /\ \A e \in rest : Len(e[1]) = Len(copy) + 1

LEMMA GroupDataStep ==
  ASSUME O!GroupAssumption, GroupInv, GroupInv', GroupData, [O!Next]_(O!vars)
  PROVE  GroupData'
<1>. USE DEF O!run, O!hist
<1>1. /\ Section.MaxEdits \in Nat /\ Section.MaxAttempts \in Nat \ {0} /\ edits \in Nat
      /\ DOMAIN group \subseteq O!Files
  BY DEF O!GroupAssumption, GroupInv, GroupTypes
<1>2. Working' => copy' # O!Nothing
  <2>1. Working' => copy' \in GroupPaths
    BY DEF GroupInv, GroupTypes, Working, GroupPaths, O!GroupAssumption, O!Files
  <2>2. O!Nothing \notin GroupPaths
    BY DEF GroupPaths, O!GroupAssumption, O!Nothing
  <2>. QED
    BY <2>1, <2>2
<1>3. ASSUME UNCHANGED <<group, edits, goal>>,
             attempt' \in Nat, attempt' < Section.MaxAttempts,
             Working' \/ copy' = O!Nothing
      PROVE  GroupData'
  <2>1. O!Nothing' = O!Nothing
    BY DEF O!Nothing
  <2>. QED
    BY <1>2, <1>3, <2>1 DEF GroupData
<1>4. ASSUME UNCHANGED <<at, copy>>
      PROVE  Working' \/ copy' = O!Nothing
  BY <1>4 DEF GroupData, Working, O!Nothing
<1>5. ASSUME NEW f \in O!Files, O!Upload(f) \/ O!Delete(f)
      PROVE  GroupData'
  <2>1. /\ edits < Section.MaxEdits /\ edits' = edits + 1
        /\ UNCHANGED <<at, copy, attempt, goal>>
        /\ \/ group' = [g \in DOMAIN group \cup {f} |-> IF g = f THEN edits' + 1 ELSE group[g]]
           \/ group' = O!Restrict(group, DOMAIN group \ {f})
    BY <1>5 DEF O!Upload, O!Delete, O!Edit
  <2>2. \A g \in DOMAIN group' : group'[g] \in 1..Section.MaxEdits + 1
    <3>1. CASE group' = [g \in DOMAIN group \cup {f} |-> IF g = f THEN edits' + 1 ELSE group[g]]
      <4>1. edits' + 1 \in 1..Section.MaxEdits + 1
        BY <1>1, <2>1
      <4>. QED
        BY <3>1, <4>1 DEF GroupData
    <3>2. CASE group' = O!Restrict(group, DOMAIN group \ {f})
      BY <3>2 DEF O!Restrict, GroupData
    <3>. QED
      BY <2>1, <3>1, <3>2
  <2>. QED
    BY <1>1, <2>1, <2>2 DEF GroupData, Working, O!Nothing
<1>6. CASE O!Start
  BY <1>1, <1>2, <1>6 DEF O!Start, GroupData, Working, GroupInv, GroupTypes, O!Nothing
<1>7. ASSUME O!Forget, UNCHANGED <<group, edits>>
      PROVE  GroupData'
  BY <1>1, <1>7 DEF O!Forget, GroupData, Working, O!Nothing, O!NoFiles
<1>8. CASE O!ListPage
  <2>1. /\ at = "list" /\ attempt' = 0 /\ UNCHANGED <<group, edits, goal>>
        /\ copy' = O!Nothing \/ UNCHANGED <<at, copy>>
    BY <1>8, Zenon DEF O!ListPage
  <2>. QED
    BY <1>1, <1>3, <1>4, <2>1
<1>9. CASE O!ListFails
  BY <1>1, <1>3, <1>4, <1>7, <1>9 DEF O!ListFails, GroupData
<1>10. ASSUME NEW d \in Section.Dirs, O!EnterDir(d)
       PROVE  GroupData'
  BY <1>3, <1>10 DEF O!EnterDir, GroupData, Working
<1>11. ASSUME NEW f \in O!Files, NEW v \in 1..Section.MaxEdits + 1, O!GetFile(f, v)
       PROVE  GroupData'
  BY <1>3, <1>4, <1>11 DEF O!GetFile, GroupData, Working
<1>12. CASE O!Body \/ O!LeaveDir
  BY <1>3, <1>4, <1>12 DEF O!Body, O!LeaveDir, GroupData, Working
<1>13. CASE O!Commit
  BY <1>1, <1>3, <1>13 DEF O!Commit, O!EndFile
<1>14. CASE O!DownloadFails
  BY <1>1, <1>3, <1>14 DEF O!DownloadFails, O!EndFile, GroupData, Working
<1>15. CASE O!Finish \/ O!Crash
  BY <1>7, <1>15 DEF O!Finish, O!Crash
<1>16. CASE UNCHANGED O!vars
  BY <1>3, <1>4, <1>16 DEF O!vars, GroupData
<1>. QED
  BY <1>5, <1>6, <1>8, <1>9, <1>10, <1>11, <1>12, <1>13, <1>14, <1>15, <1>16 DEF O!Next

LEMMA GroupDepthStep ==
  ASSUME O!GroupAssumption, GroupInv, GroupDepth, [O!Next]_(O!vars)
  PROVE  GroupDepth'
<1>. USE DEF O!run, O!hist
<1>1. /\ \A p \in GroupPaths : p \in Seq(Range(p)) /\ Len(p) \in Nat
      /\ \A e \in Rows : e[1] \in GroupPaths /\ Len(e[1]) \in Nat
  <2>1. \A p \in GroupPaths : p \in Seq(Range(p))
    BY TreesOfMethods, PlacesArePaths DEF GroupPaths
  <2>. QED
    BY <2>1 DEF Rows
<1>2. /\ Cardinality(Section.Dirs) \in Nat
      /\ \A d \in Section.Dirs : d \in GroupPaths /\ Len(d) < Cardinality(Section.Dirs)
  <2>1. IsFiniteSet(Section.Dirs)
    <3>1. IsFiniteSet(Section.Entries \cup {<<>>})
      BY FS_AddElement, OfInstances DEF O!GroupAssumption
    <3>. QED
      BY <3>1, FS_Subset DEF O!GroupAssumption
  <2>2. Cardinality(Section.Dirs) \in Nat
    BY <2>1, FS_CardinalityType
  <2>3. \A d \in Section.Dirs : Len(d) < Cardinality(Section.Dirs)
    BY <2>1, FoldersAbove, TreesOfMethods
  <2>4. Section.Dirs \subseteq GroupPaths
    BY DEF O!GroupAssumption, GroupPaths
  <2>. QED
    BY <2>2, <2>3, <2>4
<1>3. stack \in Seq(SUBSET Rows) /\ Len(stack) \in Nat /\ rest \in SUBSET Rows
  <2>1. stack \in Seq(SUBSET Rows) /\ rest \in SUBSET Rows
    BY DEF GroupInv, GroupTypes
  <2>. QED
    BY <2>1
<1>4. ASSUME stack' = stack, at' # "list" \/ (at = "list" /\ UNCHANGED <<copy, rest>>)
      PROVE  GroupDepth'
  BY <1>4 DEF GroupDepth, Deep
<1>5. ASSUME stack' = <<>>, at' # "list"
      PROVE  GroupDepth'
  BY <1>2, <1>5 DEF GroupDepth, Deep
<1>6. CASE O!Start
  <2>1. stack' = <<>> /\ copy' = <<>> /\ rest' = {}
    BY <1>6 DEF O!Start, GroupInv, GroupTypes
  <2>2. Len(copy') = 0 /\ Len(stack') = 0
    BY <2>1
  <2>. QED
    BY <1>2, <2>1, <2>2 DEF GroupDepth, Deep
<1>7. CASE O!ListPage
  <2>. DEFINE onPage == {e \in O!Children(copy) :
                            e[3] \in pageToken..pageToken + Section.PageSize - 1}
  <2>1. /\ at = "list" /\ copy \in Section.Dirs
        /\ \/ stack' = <<rest \cup onPage>> \o stack /\ at' = "walk"
           \/ rest' = rest \cup onPage /\ UNCHANGED <<stack, at, copy>>
    BY <1>7 DEF O!ListPage, GroupInv, GroupTypes
  <2>2. /\ Len(stack) <= Len(copy) /\ Len(copy) \in Nat /\ Deep
        /\ \A e \in rest : Len(e[1]) = Len(copy) + 1
    BY <1>1, <1>2, <2>1 DEF GroupDepth
  <2>3. \A e \in onPage : e \in Rows /\ Len(e[1]) = Len(copy) + 1
    <3>1. SUFFICES ASSUME NEW p \in O!Here(copy)
                   PROVE  LET e == <<p, IF p \in Section.Dirs THEN 0 ELSE group[p], O!Age(p)>>
                          IN  e \in Rows /\ Len(e[1]) = Len(copy) + 1
      BY DEF O!Children
    <3>. DEFINE e == <<p, IF p \in Section.Dirs THEN 0 ELSE group[p], O!Age(p)>>
    <3>2. p \in Section.Entries /\ p \in Section.Dirs \cup DOMAIN group /\ O!Front(p) = copy
      BY <3>1 DEF O!Here
    <3>3. O!Age(p) \in Nat
      BY PlacesInListing
    <3>4. e \in Rows
      BY <3>2, <3>3 DEF Rows, GroupPaths, GroupInv, GroupTypes
    <3>5. p \in Seq(Range(p)) /\ p # <<>>
      BY <1>1, <3>2 DEF GroupPaths, O!GroupAssumption
    <3>6. Len(p) = Len(copy) + 1
      BY <3>2, <3>5, OneDeeper DEF O!Front, Front
    <3>. QED
      BY <3>4, <3>6
  <2>4. rest \cup onPage \in SUBSET Rows
    BY <1>3, <2>3
  <2>5. \A e \in rest \cup onPage : Len(e[1]) = Len(copy) + 1
    BY <2>2, <2>3
  <2>. HIDE DEF onPage
  <2>6. CASE stack' = <<rest \cup onPage>> \o stack /\ at' = "walk"
    <3>1. \A e \in rest \cup onPage : Len(stack) < Len(e[1])
      BY <1>3, <2>2, <2>5
    <3>2. Deep' /\ Len(stack') = Len(stack) + 1
      BY <1>1, <1>3, <2>2, <2>4, <2>6, <3>1, DeepPush
    <3>3. Len(stack) + 1 <= Cardinality(Section.Dirs)
      BY <1>1, <1>2, <1>3, <2>1, <2>2
    <3>. QED
      BY <2>6, <3>2, <3>3 DEF GroupDepth
  <2>7. CASE rest' = rest \cup onPage /\ UNCHANGED <<stack, at, copy>>
    BY <2>2, <2>5, <2>7 DEF GroupDepth, Deep
  <2>. QED
    BY <2>1, <2>6, <2>7
<1>8. CASE O!ListFails
  <2>1. CASE UNCHANGED <<at, stack, copy, rest>>
    BY <1>4, <2>1 DEF GroupDepth, Deep
  <2>2. CASE O!Forget
    BY <1>5, <2>2 DEF O!Forget
  <2>3. CASE at' = "walk" /\ stack' = stack
    BY <1>4, <2>3
  <2>. QED
    BY <1>8, <2>1, <2>2, <2>3 DEF O!ListFails
<1>9. ASSUME NEW e, O!NextIs(e)
      PROVE  /\ Deep' /\ Len(stack') = Len(stack) /\ Len(stack) <= Len(e[1])
             /\ Len(stack') <= Cardinality(Section.Dirs)
  BY <1>1, <1>3, <1>9, DeepTake DEF O!NextIs, GroupDepth
<1>10. ASSUME NEW d \in Section.Dirs, O!EnterDir(d)
       PROVE  GroupDepth'
  <2>1. PICK k \in 0..O!Cardinality(Section.Entries) : O!NextIs(<<d, 0, k>>)
    BY <1>10 DEF O!EnterDir
  <2>2. copy' = d /\ rest' = {} /\ <<d, 0, k>>[1] = d
    BY <1>10, <2>1 DEF O!EnterDir, O!NextIs, GroupInv, GroupTypes
  <2>. QED
    BY <1>9, <2>1, <2>2 DEF GroupDepth
<1>11. ASSUME NEW f \in O!Files, NEW v \in 1..Section.MaxEdits + 1, O!GetFile(f, v)
       PROVE  GroupDepth'
  <2>1. PICK k \in 0..O!Cardinality(Section.Entries) : O!NextIs(<<f, v, k>>)
    BY <1>11 DEF O!GetFile
  <2>2. at' # "list"
    BY <1>11, <2>1 DEF O!GetFile, O!NextIs
  <2>. QED
    BY <1>9, <2>1, <2>2 DEF GroupDepth
<1>12. CASE O!Body \/ O!Commit \/ O!DownloadFails
  BY <1>4, <1>12 DEF O!Body, O!Commit, O!DownloadFails, O!EndFile
<1>13. CASE O!LeaveDir
  <2>1. Deep' /\ Len(stack') = Len(stack) - 1 /\ at' # "list"
    BY <1>1, <1>3, <1>13, DeepPop DEF O!LeaveDir, GroupDepth
  <2>. QED
    BY <1>2, <1>3, <2>1 DEF GroupDepth
<1>14. CASE O!Finish \/ O!Crash
  BY <1>5, <1>14 DEF O!Finish, O!Crash, O!Forget
<1>15. ASSUME NEW f \in O!Files, O!Upload(f) \/ O!Delete(f)
       PROVE  GroupDepth'
  BY <1>4, <1>15 DEF O!Upload, O!Delete
<1>16. CASE UNCHANGED O!vars
  BY <1>4, <1>16 DEF O!vars
<1>. QED
  BY <1>6, <1>7, <1>8, <1>10, <1>11, <1>12, <1>13, <1>14, <1>15, <1>16 DEF O!Next

(* The groups.io mirror's group and memory are well typed, and a walk is   *)
(* never in more directories than the group has (walkDir).                 *)
THEOREM GroupTypesCorrect ==
  ASSUME O!GroupAssumption
  PROVE  O!Spec => []O!TypeOK
<1>1. O!Init => GroupData /\ GroupDepth
  <2>1. SUFFICES ASSUME O!Init
                 PROVE  GroupData /\ GroupDepth
    OBVIOUS
  <2>2. GroupData
    BY <2>1 DEF O!Init, O!GroupAssumption, GroupData, Working, O!Nothing, O!NoFiles
  <2>3. Cardinality(Section.Dirs) \in Nat
    <3>1. IsFiniteSet(Section.Entries \cup {<<>>})
      BY FS_AddElement, OfInstances DEF O!GroupAssumption
    <3>. QED
      BY <3>1, FS_Subset, FS_CardinalityType DEF O!GroupAssumption
  <2>4. GroupDepth
    BY <2>1, <2>3 DEF O!Init, GroupDepth, Deep
  <2>. QED
    BY <2>2, <2>4
<1>2. GroupInv /\ GroupData /\ GroupDepth => O!TypeOK
  BY OfInstances DEF GroupInv, GroupTypes, GroupData, GroupDepth, Working, O!TypeOK, O!Range
<1>. QED
  BY <1>1, <1>2, GroupInvariant, GroupDataStep, GroupDepthStep, PTL DEF O!Spec

-----------------------------------------------------------------------------
(* Gopher: the menus a run is in were got, each once, and the selector in  *)
(* hand is none of them.                                                   *)
MenuTypes ==
    /\ at \in {"idle", "walk", "fetch", "body", "readme"} /\ stack \in Seq(Frames)
    /\ shown \cup visited \cup goal \subseteq Hole.Selectors
    /\ attempt \in 0..Hole.MaxAttempts
    /\ Fetching <=> copy # P!NoItem
    /\ Fetching => copy[1] \in visited
    /\ at = "idle" => stack = <<>>
    /\ at = "readme" => stack # <<>> /\ Head(stack).info # P!NoInfo

MenusOnce ==
    /\ \A i \in 1..Len(stack) :
          /\ stack[i].attempt <= Hole.MaxAttempts
          /\ stack[i].menu \in visited \cup {P!NoMenu}
          /\ Fetching => stack[i].menu # copy[1]
    /\ \A i, j \in 1..Len(stack) : stack[i].menu = stack[j].menu => i = j

MenuInv == MenuTypes /\ MenusOnce

LEMMA MenuStep ==
  ASSUME P!SelectorAssumption, MenuInv, [P!Next]_(P!vars)
  PROVE  MenuInv'
<1>. USE DEF P!run, P!hist
<1>1. /\ Hole.MaxAttempts \in Nat \ {0} /\ P!NoMenu \notin Hole.Selectors
      /\ Hole.Root \in Hole.Selectors
      /\ stack \in Seq(Frames) /\ Len(stack) \in Nat
  BY DEF P!SelectorAssumption, MenuInv, MenuTypes
<1>2. ASSUME UNCHANGED <<at, visited, stack, goal>>, shown' \subseteq Hole.Selectors,
             copy' = copy \/ (Fetching /\ copy'[1] = copy[1] /\ copy' # P!NoItem),
             attempt' = attempt
      PROVE  MenuInv'
  BY <1>2 DEF MenuInv, MenuTypes, MenusOnce, Fetching, P!NoItem
<1>3. ASSUME at' = "walk", attempt' = 0, copy' = P!NoItem,
             UNCHANGED <<shown, visited, stack, goal>>
      PROVE  MenuInv'
  BY <1>1, <1>3 DEF MenuInv, MenuTypes, MenusOnce, Fetching, P!NoItem
<1>4. ASSUME P!Forget, UNCHANGED shown
      PROVE  MenuInv'
  BY <1>1, <1>4 DEF P!Forget, MenuInv, MenuTypes, MenusOnce, Fetching, P!NoItem
<1>5. CASE P!Start
  <2>. DEFINE f == [menu |-> P!NoMenu, left |-> {<<1, Hole.Root>>}, info |-> P!NoInfo,
                    attempt |-> 0]
  <2>1. /\ at' = "walk" /\ stack' = <<f>> /\ goal' = shown
        /\ UNCHANGED <<shown, visited, copy, attempt>> /\ ~Fetching
    BY <1>5 DEF P!Start, Fetching
  <2>2. f \in Frames
    <3>1. {<<1, Hole.Root>>} \in SUBSET (Nat \X Hole.Selectors)
      BY <1>1
    <3>. QED
      BY <3>1 DEF Frames
  <2>3. stack' \in Seq(Frames) /\ Len(stack') = 1 /\ stack'[1] = f
    BY <2>1, <2>2
  <2>4. MenuTypes'
    BY <2>1, <2>3 DEF MenuInv, MenuTypes, Fetching, P!NoItem
  <2>5. MenusOnce'
    BY <1>1, <2>1, <2>3 DEF MenusOnce, Fetching, P!NoMenu
  <2>. QED
    BY <2>4, <2>5 DEF MenuInv
<1>6. CASE P!Get
  <2>1. PICK e \in Head(stack).left :
           /\ at = "walk" /\ stack # <<>>
           /\ visited' = (IF e[2] \in Hole.Foreign THEN visited ELSE visited \cup {e[2]})
           /\ stack' = <<[Head(stack) EXCEPT !.left = @ \ {e}]>> \o Tail(stack)
           /\ \/ P!Settled(e[2]) /\ UNCHANGED <<at, copy, attempt>>
              \/ /\ ~P!Settled(e[2]) /\ at' = "fetch" /\ attempt' = 1
                 /\ copy' = <<e[2], e[2] \in Hole.Menus \/ P!IsDir(Hole.Place[e[2]])>>
           /\ UNCHANGED <<shown, goal>>
    BY <1>6 DEF P!Get, P!Top
  <2>2. stack' \in Seq(Frames) /\ e[2] \in Hole.Selectors
    BY <1>1, <2>1, TakeEntry
  <2>3. /\ Len(stack') = Len(stack)
        /\ \A i \in 1..Len(stack) : /\ stack'[i].menu = stack[i].menu
                                    /\ stack'[i].attempt = stack[i].attempt
    <3>. DEFINE f == [Head(stack) EXCEPT !.left = @ \ {e}]
    <3>1. Head(stack) = stack[1] /\ Head(stack) \in Frames
      BY <1>1, <2>1
    <3>2. f.menu = stack[1].menu /\ f.attempt = stack[1].attempt
      BY <3>1 DEF Frames
    <3>. HIDE DEF f
    <3>3. /\ Len(<<f>> \o Tail(stack)) = Len(stack) /\ (<<f>> \o Tail(stack))[1] = f
          /\ \A i \in 1..Len(stack) : i > 1 => (<<f>> \o Tail(stack))[i] = stack[i]
      BY <1>1, <2>1
    <3>4. stack' = <<f>> \o Tail(stack)
      BY <2>1 DEF f
    <3>. QED
      BY <3>2, <3>3, <3>4
  <2>4. \/ at' = "walk" /\ UNCHANGED <<copy, attempt>>
        \/ /\ at' = "fetch" /\ attempt' = 1 /\ copy' # P!NoItem /\ copy'[1] = e[2]
           /\ e[2] \notin visited /\ e[2] \in visited'
    BY <2>1 DEF P!Settled, P!NoItem
  <2>5. visited \subseteq visited' /\ visited' \subseteq Hole.Selectors
    BY <2>1, <2>2 DEF MenuInv, MenuTypes
  <2>6. MenuTypes'
    BY <1>1, <2>1, <2>2, <2>4, <2>5 DEF MenuInv, MenuTypes, Fetching, P!NoItem
  <2>7. \A i \in 1..Len(stack') : /\ stack'[i].menu = stack[i].menu
                                  /\ stack'[i].attempt <= Hole.MaxAttempts
                                  /\ stack[i].menu \in visited \cup {P!NoMenu}
    BY <2>3 DEF MenuInv, MenusOnce
  <2>8. \A i, j \in 1..Len(stack') : stack'[i].menu = stack'[j].menu => i = j
    BY <2>3 DEF MenuInv, MenusOnce
  <2>9. ASSUME NEW i \in 1..Len(stack'), Fetching'
        PROVE  stack'[i].menu # copy'[1]
    BY <1>1, <2>2, <2>4, <2>7, <2>9 DEF Fetching
  <2>10. MenusOnce'
    BY <2>5, <2>7, <2>8, <2>9 DEF MenusOnce, P!NoMenu
  <2>. QED
    BY <2>6, <2>10 DEF MenuInv
<1>7. CASE P!ReadMenu
  <2>0. PICK s : s = copy[1]
    OBVIOUS
  <2>1. /\ at = "fetch" /\ at' = "walk" /\ attempt' = 0 /\ copy' = P!NoItem
        /\ UNCHANGED <<shown, visited, goal>>
    BY <1>7 DEF P!ReadMenu
  <2>2. PICK k \in 0..P!Length(s), info \in P!Arrived(s) :
           stack' = <<[menu |-> s, left |-> P!Entries(s, k), info |-> info,
                       attempt |-> attempt]>> \o stack
    BY <1>7, <2>0 DEF P!ReadMenu
  <2>. DEFINE f == [menu |-> s, left |-> P!Entries(s, k), info |-> info, attempt |-> attempt]
  <2>3. /\ s \in visited /\ s \in Hole.Selectors /\ attempt \in 0..Hole.MaxAttempts
        /\ \A i \in 1..Len(stack) : stack[i].menu # s
    BY <2>0, <2>1 DEF MenuInv, MenuTypes, MenusOnce, Fetching
  <2>4. f \in Frames
    <3>1. k = 0 \/ (s \in Hole.Menus /\ Len(Hole.Lines[s]) \in Nat /\ k \in 0..Len(Hole.Lines[s]))
      BY <2>2 DEF P!Length, P!SelectorAssumption
    <3>2. P!Entries(s, k) \in SUBSET (Nat \X Hole.Selectors)
      BY <3>1 DEF P!Entries, P!SelectorAssumption
    <3>3. info \in {P!Readme, P!Cut, P!NoInfo} /\ (info # P!NoInfo => s \in Hole.Info)
      BY <2>2 DEF P!Arrived
    <3>. QED
      BY <1>1, <2>3, <3>2, <3>3 DEF Frames
  <2>5. f.menu = s /\ f.attempt = attempt
    OBVIOUS
  <2>6. stack' = <<f>> \o stack
    BY <2>2
  <2>. HIDE DEF f
  <2>7. /\ stack' \in Seq(Frames) /\ Len(stack') = Len(stack) + 1 /\ stack'[1] = f
        /\ \A i \in 1..Len(stack') : i > 1 => i - 1 \in 1..Len(stack) /\ stack'[i] = stack[i - 1]
    BY <1>1, <2>4, <2>6
  <2>8. MenuTypes'
    BY <1>1, <2>1, <2>7 DEF MenuInv, MenuTypes, Fetching, P!NoItem
  <2>9. \A i \in 1..Len(stack') : /\ stack'[i].attempt <= Hole.MaxAttempts
                                  /\ stack'[i].menu \in visited \cup {P!NoMenu}
    BY <1>1, <2>3, <2>5, <2>7 DEF MenuInv, MenusOnce
  <2>10. ASSUME NEW i \in 1..Len(stack'), NEW j \in 1..Len(stack'),
                stack'[i].menu = stack'[j].menu
         PROVE  i = j
    <3>1. CASE i = 1 \/ j = 1
      BY <2>3, <2>5, <2>7, <2>10, <3>1
    <3>2. CASE i > 1 /\ j > 1
      BY <2>7, <2>10, <3>2 DEF MenuInv, MenusOnce
    <3>. QED
      BY <3>1, <3>2
  <2>11. MenusOnce'
    BY <2>1, <2>9, <2>10 DEF MenusOnce, Fetching, P!NoMenu
  <2>. QED
    BY <2>8, <2>11 DEF MenuInv
<1>8. CASE P!Misread
  <2>1. /\ UNCHANGED <<shown, at, visited, stack, attempt, goal>> /\ at = "fetch"
        /\ copy[1] = Hole.Root /\ copy'[1] = Hole.Root /\ copy' # P!NoItem
    BY <1>8 DEF P!Misread, P!NoItem
  <2>. QED
    BY <1>2, <2>1 DEF Fetching, MenuInv, MenuTypes
<1>9. CASE P!Create
  BY <1>9 DEF P!Create, MenuInv, MenuTypes, MenusOnce, Fetching, P!NoItem
<1>10. CASE P!Commit \/ P!Empty
  BY <1>3, <1>10 DEF P!Commit, P!Empty
<1>11. CASE P!FetchFails
  <2>1. CASE attempt < Hole.MaxAttempts
    <3>1. /\ Fetching /\ at' = "fetch" /\ attempt' = attempt + 1
          /\ copy'[1] = copy[1] /\ copy' # P!NoItem
          /\ UNCHANGED <<shown, visited, stack, goal>>
      BY <1>11, <2>1 DEF P!FetchFails, Fetching, P!NoItem
    <3>. QED
      BY <1>1, <2>1, <3>1 DEF MenuInv, MenuTypes, MenusOnce, Fetching, P!NoItem
  <2>2. CASE ~(attempt < Hole.MaxAttempts)
    BY <1>3, <1>11, <2>2 DEF P!FetchFails
  <2>. QED
    BY <2>1, <2>2
<1>12. ASSUME stack # <<>>, stack' = Tail(stack)
       PROVE  /\ stack' \in Seq(Frames) /\ Len(stack') = Len(stack) - 1
              /\ Head(stack) = stack[1] /\ 1 \in 1..Len(stack)
              /\ \A i \in 1..Len(stack') : i + 1 \in 1..Len(stack) /\ stack'[i] = stack[i + 1]
  BY <1>1, <1>12
<1>13. CASE P!Leave \/ P!OpenReadme \/ P!WriteReadme
  <2>1. CASE P!Leave \/ P!WriteReadme
    <3>1. /\ at \in {"walk", "readme"} /\ at' = "walk" /\ stack # <<>> /\ stack' = Tail(stack)
          /\ UNCHANGED <<shown, visited, copy, attempt, goal>>
      BY <2>1 DEF P!Leave, P!WriteReadme, P!MayLeave, MenuInv, MenuTypes
    <3>. QED
      BY <1>12, <3>1 DEF MenuInv, MenuTypes, MenusOnce, Fetching, P!NoItem
  <2>2. CASE P!OpenReadme
    <3>1. /\ at = "walk" /\ at' = "readme" /\ stack # <<>> /\ Head(stack).info # P!NoInfo
          /\ UNCHANGED <<shown, visited, stack, copy, attempt, goal>>
      BY <2>2 DEF P!OpenReadme, P!MayLeave, P!Top
    <3>. QED
      BY <3>1 DEF MenuInv, MenuTypes, MenusOnce, Fetching, P!NoItem, P!NoInfo
  <2>. QED
    BY <1>13, <2>1, <2>2
<1>14. CASE P!ReadmeFails
  <2>. DEFINE m == Head(stack).menu
  <2>0. /\ at \in {"walk", "readme"} /\ stack # <<>> /\ Head(stack).info # P!NoInfo
    BY <1>14 DEF P!ReadmeFails, P!Top, P!MayLeave, MenuInv, MenuTypes
  <2>1. /\ at \in {"walk", "readme"} /\ stack # <<>> /\ stack' = Tail(stack) /\ m \in Hole.Info
        /\ UNCHANGED <<shown, visited, goal>>
        /\ \/ /\ Head(stack).attempt < Hole.MaxAttempts /\ at' = "fetch" /\ copy' = <<m, TRUE>>
              /\ attempt' = Head(stack).attempt + 1
           \/ at' = "walk" /\ UNCHANGED <<copy, attempt>>
    <3>1. Head(stack) \in Frames
      BY <1>1, <2>0
    <3>. QED
      BY <1>14, <2>0, <3>1 DEF P!ReadmeFails, P!Top, Frames
  <2>2. /\ stack' \in Seq(Frames) /\ Len(stack') = Len(stack) - 1
        /\ Head(stack) = stack[1] /\ 1 \in 1..Len(stack)
        /\ \A i \in 1..Len(stack') : i + 1 \in 1..Len(stack) /\ stack'[i] = stack[i + 1]
    BY <1>12, <2>1
  <2>3. m \in visited
    BY <1>1, <2>1, <2>2 DEF MenuInv, MenusOnce, P!SelectorAssumption
  <2>4. Head(stack).attempt \in Nat
    <3>1. stack[1] \in Frames
      BY <1>1, <2>2
    <3>. QED
      BY <2>2, <3>1 DEF Frames
  <2>5. ASSUME NEW i \in 1..Len(stack')
        PROVE  /\ stack'[i].menu # m /\ stack'[i].attempt <= Hole.MaxAttempts
               /\ stack'[i].menu \in visited \cup {P!NoMenu}
    <3>1. /\ i + 1 \in 1..Len(stack) /\ stack'[i] = stack[i + 1] /\ i + 1 # 1
          /\ m = stack[1].menu
      BY <2>2
    <3>. QED
      BY <2>2, <3>1 DEF MenuInv, MenusOnce
  <2>6. copy' = <<m, TRUE>> => copy'[1] = m /\ copy' # P!NoItem
    BY DEF P!NoItem
  <2>. HIDE DEF m
  <2>7. MenuTypes'
    <3>1. attempt' \in 0..Hole.MaxAttempts
      <4>1. \/ Head(stack).attempt < Hole.MaxAttempts /\ attempt' = Head(stack).attempt + 1
            \/ attempt' = attempt
        BY <2>1
      <4>2. attempt \in 0..Hole.MaxAttempts
        BY DEF MenuInv, MenuTypes
      <4>. QED
        BY <1>1, <2>4, <4>1, <4>2
    <3>2. CASE at' = "fetch" /\ copy' = <<m, TRUE>>
      <4>1. at' = "fetch" /\ copy'[1] = m /\ copy' # P!NoItem /\ m \in visited'
        BY <2>1, <2>3, <2>6, <3>2
      <4>2. UNCHANGED <<shown, visited, goal>>
        BY <2>1
      <4>. QED
        BY <2>2, <3>1, <4>1, <4>2 DEF MenuInv, MenuTypes, Fetching, P!NoItem
    <3>3. CASE at' = "walk" /\ UNCHANGED <<copy, attempt>>
      BY <2>1, <2>2, <3>1, <3>3 DEF MenuInv, MenuTypes, Fetching, P!NoItem
    <3>. QED
      BY <2>1, <3>2, <3>3
  <2>8. ASSUME NEW i \in 1..Len(stack'), NEW j \in 1..Len(stack'),
               stack'[i].menu = stack'[j].menu
        PROVE  i = j
    <3>1. /\ i + 1 \in 1..Len(stack) /\ stack'[i] = stack[i + 1]
          /\ j + 1 \in 1..Len(stack) /\ stack'[j] = stack[j + 1]
      BY <2>2
    <3>2. i + 1 = j + 1
      BY <2>8, <3>1 DEF MenuInv, MenusOnce
    <3>. QED
      BY <3>2
  <2>9. Fetching' => copy'[1] = m
    BY <2>1, <2>6 DEF Fetching
  <2>10. MenusOnce'
    BY <2>1, <2>5, <2>8, <2>9 DEF MenusOnce, P!NoMenu
  <2>. QED
    BY <2>7, <2>10 DEF MenuInv
<1>15. CASE P!Finish \/ P!Crash
  BY <1>4, <1>15 DEF P!Finish, P!Crash
<1>16. ASSUME NEW s \in Hole.Selectors, P!Grow(s)
       PROVE  MenuInv'
  BY <1>2, <1>16 DEF P!Grow, MenuInv, MenuTypes
<1>17. CASE UNCHANGED P!vars
  BY <1>2, <1>17 DEF P!vars, MenuInv, MenuTypes
<1>. QED
  BY <1>5, <1>6, <1>7, <1>8, <1>9, <1>10, <1>11, <1>13, <1>14, <1>15, <1>16, <1>17 DEF P!Next

(* The Gopher mirror's memory is well typed, and a run is never twice in   *)
(* one menu, although menus lead back to each other (get and readMenu).    *)
THEOREM MenuTypesCorrect ==
  ASSUME P!SelectorAssumption
  PROVE  P!Spec => []P!TypeOK
<1>1. P!Init => MenuInv
  BY DEF P!Init, P!SelectorAssumption, MenuInv, MenuTypes, MenusOnce, Fetching, P!NoItem
<1>2. MenuInv => P!TypeOK
  BY DEF MenuInv, MenuTypes, MenusOnce, Fetching, P!TypeOK
<1>. QED
  BY <1>1, <1>2, MenuStep, PTL DEF P!Spec

-----------------------------------------------------------------------------
(* A mirror process: its method stays, and what it does is what a run of   *)
(* its method does, so that it promises what the method promises.          *)
GP == INSTANCE GPhotosProofs WITH
        Items <- Photos.Items, Raws <- Photos.Raws, Names <- Photos.Names,
        NameOf <- Photos.NameOf, Videos <- Photos.Videos,
        VideoNames <- Photos.VideoNames, PosterName <- Photos.PosterName,
        RawsOf <- Photos.RawsOf, TakenAt <- Photos.TakenAt, Before <- Photos.Before,
        After <- Photos.After, PageSize <- Photos.PageSize, pc <- at, disk <- kept,
        tmp <- parts, open <- copy, target <- goal, todo <- rest, session <- cookies,
        saved <- written, index <- entries, used <- taken, files <- found

Runs(m) == method = m

LEMMA StartOfRun ==
  ASSUME ProcessInit
  PROVE  /\ Init /\ MailInit
         /\ Runs("gphotos") => G!Init
         /\ Runs("git") => T!Init
         /\ Runs("archiveorg") => A!Init
         /\ Runs("gopher") => P!Init
         /\ Runs("groupsio") => O!Init
         /\ Runs("sourceforge") => S!Init
BY DEF ProcessInit, Runs

LEMMA StepOfRun ==
  ASSUME [ProcessNext]_allVars
  PROVE  /\ method' = method
         /\ [Next]_vars /\ [MailNext]_mailVars
         /\ Runs("gphotos") => [G!Next]_(G!vars)
         /\ Runs("git") => [T!Next]_(T!vars)
         /\ Runs("archiveorg") => [A!Next]_(A!vars)
         /\ Runs("gopher") => [P!Next]_(P!vars)
         /\ Runs("groupsio") => [O!Next]_(O!vars)
         /\ Runs("sourceforge") => [S!Next]_(S!vars)
<1>1. CASE UNCHANGED allVars
  <2>1. UNCHANGED <<method, vars, mailVars, common, google, git, others>>
    BY <1>1 DEF allVars
  <2>2. UNCHANGED <<archive, gopher, groups, forge, walk>>
    BY <2>1 DEF others
  <2>3. UNCHANGED <<at, kept, parts, rest, copy, goal>>
    BY <2>1 DEF common
  <2>4. UNCHANGED G!vars
    BY <2>1, <2>3 DEF google, G!vars, G!env, G!dest, G!item, G!page, G!hist
  <2>5. UNCHANGED T!vars
    BY <2>1, <2>3 DEF git, T!vars, T!upstream
  <2>6. UNCHANGED A!vars
    BY <2>2, <2>3 DEF archive, walk, A!vars, A!dest, A!run
  <2>7. UNCHANGED P!vars
    BY <2>2, <2>3 DEF gopher, walk, P!vars, P!run, P!hist
  <2>8. UNCHANGED O!vars
    BY <2>2, <2>3 DEF groups, walk, O!vars, O!run, O!hist
  <2>9. UNCHANGED S!vars
    BY <2>2, <2>3 DEF forge, walk, S!vars, S!area, S!dest, S!run, S!hist
  <2>. QED
    BY <2>1, <2>4, <2>5, <2>6, <2>7, <2>8, <2>9
<1>2. CASE ProcessNext
  BY <1>2 DEF ProcessNext, Runs
<1>. QED
  BY <1>1, <1>2

LEMMA RunOfMethod ==
  ProcessSpec =>
      /\ Spec /\ MailSpec
      /\ []~Runs("gphotos") \/ ([]Runs("gphotos") /\ G!Spec)
      /\ []~Runs("git") \/ ([]Runs("git") /\ T!Spec)
      /\ []~Runs("archiveorg") \/ ([]Runs("archiveorg") /\ A!Spec)
      /\ []~Runs("gopher") \/ ([]Runs("gopher") /\ P!Spec)
      /\ []~Runs("groupsio") \/ ([]Runs("groupsio") /\ O!Spec)
      /\ []~Runs("sourceforge") \/ ([]Runs("sourceforge") /\ S!Spec)
<1>1. ProcessSpec => Spec /\ MailSpec
  BY StartOfRun, StepOfRun, PTL DEF ProcessSpec, Spec, MailSpec
<1>2. [ProcessNext]_allVars =>
         /\ Runs("gphotos")' <=> Runs("gphotos")
         /\ Runs("git")' <=> Runs("git")
         /\ Runs("archiveorg")' <=> Runs("archiveorg")
         /\ Runs("gopher")' <=> Runs("gopher")
         /\ Runs("groupsio")' <=> Runs("groupsio")
         /\ Runs("sourceforge")' <=> Runs("sourceforge")
  BY StepOfRun DEF Runs
<1>3. ProcessSpec => []~Runs("gphotos") \/ ([]Runs("gphotos") /\ G!Spec)
  BY <1>2, StartOfRun, StepOfRun, PTL DEF ProcessSpec, G!Spec
<1>4. ProcessSpec => []~Runs("git") \/ ([]Runs("git") /\ T!Spec)
  BY <1>2, StartOfRun, StepOfRun, PTL DEF ProcessSpec, T!Spec
<1>5. ProcessSpec => []~Runs("archiveorg") \/ ([]Runs("archiveorg") /\ A!Spec)
  BY <1>2, StartOfRun, StepOfRun, PTL DEF ProcessSpec, A!Spec
<1>6. ProcessSpec => []~Runs("gopher") \/ ([]Runs("gopher") /\ P!Spec)
  BY <1>2, StartOfRun, StepOfRun, PTL DEF ProcessSpec, P!Spec
<1>7. ProcessSpec => []~Runs("groupsio") \/ ([]Runs("groupsio") /\ O!Spec)
  BY <1>2, StartOfRun, StepOfRun, PTL DEF ProcessSpec, O!Spec
<1>8. ProcessSpec => []~Runs("sourceforge") \/ ([]Runs("sourceforge") /\ S!Spec)
  BY <1>2, StartOfRun, StepOfRun, PTL DEF ProcessSpec, S!Spec
<1>. QED
  BY <1>1, <1>3, <1>4, <1>5, <1>6, <1>7, <1>8, PTL

(* GPhotosProofs is about the runs of Mirrors' instance.                   *)
LEMMA PhotosAssumed == GP!RangeAssumption /\ GP!NameAssumption
<1>1. \A X : G!IsFiniteSet(X) = GP!IsFiniteSet(X)
  BY DEF G!IsFiniteSet, GP!IsFiniteSet
<1>2. G!RangeAssumption /\ G!NameAssumption
  BY MethodAssumption
<1>. QED
  BY <1>1, <1>2 DEF G!RangeAssumption, GP!RangeAssumption, G!NameAssumption,
     GP!NameAssumption

LEMMA RunOfPhotos == G!Spec => GP!Spec
<1>1. G!Init => GP!Init
  BY DEF G!Init, GP!Init, G!NoFile, GP!NoFile
<1>2. [G!Next]_(G!vars) => [GP!Next]_(GP!vars)
  <2>. USE DEF G!env, GP!env, G!dest, GP!dest, G!page, GP!page, G!item, GP!item, G!hist,
               GP!hist, G!NoFile, GP!NoFile, G!Current, GP!Current
  <2>1. /\ G!Upload => GP!Upload
        /\ G!Age => GP!Age
        /\ G!Start => GP!Start
        /\ G!Refresh => GP!Refresh
        /\ G!NextPage => GP!NextPage
        /\ G!ResolveGroup => GP!ResolveGroup
        /\ G!CompanionsDone => GP!CompanionsDone
    BY DEF G!Upload, GP!Upload, G!Age, GP!Age, G!Start, GP!Start, G!Refresh, GP!Refresh,
           G!NextPage, GP!NextPage, G!ResolveGroup, GP!ResolveGroup, G!CompanionsDone,
           GP!CompanionsDone
  <2>2. G!Bootstrap => GP!Bootstrap
    BY DEF G!Bootstrap, GP!Bootstrap, G!Range, GP!Range
  <2>3. G!Record => GP!Record
    BY DEF G!Record, GP!Record
  <2>4. /\ G!Abort => GP!Abort
        /\ G!Finish => GP!Finish
        /\ G!Crash => GP!Crash
    BY DEF G!Forget, GP!Forget, G!Abort, GP!Abort, G!Finish, GP!Finish, G!Crash, GP!Crash
  <2>5. G!ListPage => GP!ListPage
    <3>1. G!Listing = GP!Listing /\ G!Remaining = GP!Remaining
      <4>1. ASSUME NEW X PROVE G!Cardinality(X) = GP!Cardinality(X)
        BY DEF G!Cardinality, GP!Cardinality
      <4>. QED
        BY <4>1 DEF G!Listing, GP!Listing, G!Remaining, GP!Remaining, G!Newer, GP!Newer
    <3>. DEFINE items == GP!Listing
    <3>2. G!New(items) = GP!New(items) /\ G!Oldest(items) = GP!Oldest(items)
      BY DEF G!New, GP!New, G!Oldest, GP!Oldest
    <3>3. G!IsLast(items) = GP!IsLast(items)
      BY <3>1 DEF G!IsLast, GP!IsLast
    <3>. HIDE DEF items
    <3>4. G!Listing = items /\ GP!Listing = items
      BY <3>1 DEF items
    <3>5. SUFFICES ASSUME G!ListPage
                   PROVE  GP!ListPage
      OBVIOUS
    <3>. QED
      BY <3>2, <3>3, <3>4, <3>5, Zenon DEF G!ListPage, GP!ListPage
  <2>6. /\ \A q, p, S1 : G!Resolves(q, p, S1) = GP!Resolves(q, p, S1)
        /\ \A q : G!Candidates(q) = GP!Candidates(q)
    BY DEF G!Resolves, GP!Resolves, G!Candidates, GP!Candidates, G!Numbered, GP!Numbered
  <2>7. /\ G!CompanionStage = GP!CompanionStage
        /\ \A i : G!Target(i) = GP!Target(i)
        /\ \A p : G!Poster(p) = GP!Poster(p) /\ G!IsVideoPath(p) = GP!IsVideoPath(p)
    BY DEF G!CompanionStage, GP!CompanionStage, G!Target, GP!Target, G!Poster, GP!Poster,
           G!IsVideoPath, GP!IsVideoPath
  <2>8. \A i, p : G!Original(i, p) = GP!Original(i, p)
    BY Zenon DEF G!Original, GP!Original, G!IsVideoPath, GP!IsVideoPath
  <2>9. /\ G!Take => GP!Take
        /\ G!TakePoster => GP!TakePoster
        /\ G!TakeCompanion => GP!TakeCompanion
    BY <2>6, <2>7, <2>8 DEF G!Take, GP!Take, G!TakePoster, GP!TakePoster, G!TakeCompanion,
       GP!TakeCompanion
  <2>10. /\ G!Commit => GP!Commit
         /\ G!FetchFails => GP!FetchFails
    BY <2>7 DEF G!Commit, GP!Commit, G!FetchFails, GP!FetchFails
  <2>11. UNCHANGED G!vars => UNCHANGED GP!vars
    BY DEF G!vars, GP!vars
  <2>. QED
    BY <2>1, <2>2, <2>3, <2>4, <2>5, <2>9, <2>10, <2>11 DEF G!Next, GP!Next
<1>. QED
  BY <1>1, <1>2, PTL DEF G!Spec, GP!Spec

(* A git mirror process that reports success leaves a clone with what it   *)
(* fetched and, unless its HEAD is detached or upstream deleted the branch *)
(* that it is on, a work tree with all of that history (updateWorktree).   *)
THEOREM ProcessIsCurrent == ProcessSpec => []DoneIsCurrent
<1>1. T!Spec => []T!DoneIsCurrent
  BY CloneIsCurrent, MethodAssumption
<1>2. /\ T!DoneIsCurrent => DoneIsCurrent
      /\ ~Runs("git") => DoneIsCurrent
  BY DEF Runs, DoneIsCurrent
<1>. QED
  BY <1>1, <1>2, RunOfMethod, PTL

(* A Google Photos mirror process never has two items in one file, nor an  *)
(* item in the index whose file is not there (resolveFilename and the save *)
(* of the index).                                                          *)
THEOREM ProcessIndexIsSound == ProcessSpec => []DistinctFiles
<1>1. GP!Spec => []GP!DistinctFiles
  BY PhotosAssumed, GP!IndexIsSound
<1>2. GP!DistinctFiles => G!DistinctFiles
  BY DEF G!DistinctFiles, GP!DistinctFiles, G!Sound, GP!Sound, G!Range, GP!Range
<1>3. /\ G!DistinctFiles => DistinctFiles
      /\ ~Runs("gphotos") => DistinctFiles
  BY DEF Runs, DistinctFiles
<1>. QED
  BY <1>1, <1>2, <1>3, RunOfMethod, RunOfPhotos, PTL

(* Whatever the method, a mirror process that ends without an error, or    *)
(* the mark it leaves, means that everything it was to fetch is there; for *)
(* Gopher and groups.io, which give up on a request that keeps failing and *)
(* end without an error all the same, it does so where no request failed,  *)
(* and for Gopher as long as no file has the path of a menu or is named    *)
(* like a 00README (PlacesApart).                                          *)
THEOREM ProcessIsComplete ==
  ASSUME P!PlacesApart
  PROVE  ProcessSpec => []DoneMeansAll
<1>1. GP!Spec => []GP!DoneMeansAll
  BY PhotosAssumed, GP!SuccessIsComplete
<1>2. GP!DoneMeansAll => G!DoneMeansAll
  BY DEF G!DoneMeansAll, GP!DoneMeansAll
<1>3. A!Spec => []A!DoneMeansAll
  BY MarkedIsComplete, MethodAssumption
<1>4. P!Spec => []P!DoneMeansAll
  BY GopherIsComplete, MethodAssumption
<1>5. O!Spec => []O!DoneMeansAll
  BY GroupIsComplete, MethodAssumption
<1>6. S!Spec => []S!DoneMeansAll
  BY ForgeIsComplete, MethodAssumption
<1>7. /\ ~Runs("gphotos") \/ G!DoneMeansAll
      /\ ~Runs("archiveorg") \/ A!DoneMeansAll
      /\ ~Runs("gopher") \/ P!DoneMeansAll
      /\ ~Runs("groupsio") \/ O!DoneMeansAll
      /\ ~Runs("sourceforge") \/ S!DoneMeansAll
      => DoneMeansAll
  BY DEF Runs, DoneMeansAll
<1>. QED
  BY <1>1, <1>2, <1>3, <1>4, <1>5, <1>6, <1>7, RunOfMethod, RunOfPhotos, PTL

(* Google Photos and Gopher: no step of a mirror process replaces or       *)
(* removes a file that was mirrored, other than Gopher's 00READMEs, as     *)
(* long as no Gopher file has the path of a menu or is named like a        *)
(* 00README (PlacesApart).                                                 *)
THEOREM ProcessKeepsFiles ==
  ASSUME P!PlacesApart
  PROVE  ProcessSpec => Kept
<1>1. GP!Spec => [][GP!KeepsFiles]_(GP!vars)
  BY PhotosAssumed, GP!NothingOverwritten DEF GP!Kept
<1>2. P!Spec => [][P!KeepsFiles]_(P!vars)
  BY NothingReplaced, MethodAssumption DEF P!Kept
<1>3. ASSUME [ProcessNext]_allVars,
             ~Runs("gphotos") \/ [GP!KeepsFiles]_(GP!vars),
             ~Runs("gopher") \/ [P!KeepsFiles]_(P!vars)
      PROVE  [/\ method = "gphotos" => G!KeepsFiles
              /\ method = "gopher" => P!KeepsFiles]_allVars
  BY <1>3 DEF Runs, GP!KeepsFiles, G!KeepsFiles, P!KeepsFiles, GP!vars, GP!dest, P!vars
<1>. QED
  BY <1>1, <1>2, <1>3, RunOfMethod, RunOfPhotos, PTL DEF ProcessSpec, Kept

(* Whatever the method, what a mirror process keeps is well typed: its     *)
(* places, indexes and versions are those there are, it is never deeper in *)
(* a tree than the tree is, never twice in one menu, and tries no request  *)
(* more often than it may.                                                 *)
THEOREM ProcessTypesCorrect == ProcessSpec => []AllTypes
<1>1. (Spec => []TypeOK) /\ (MailSpec => []MailTypes)
  BY TypeCorrect, MailTypeCorrect, MethodAssumption
<1>2. GP!Spec => []GP!TypeOK
  BY PhotosAssumed, GP!TypeCorrect
<1>3. GP!TypeOK => G!TypeOK
  <2>1. /\ G!Paths = GP!Paths /\ G!Bases = GP!Bases /\ G!NoFile = GP!NoFile
        /\ \A p : G!IsVideoPath(p) = GP!IsVideoPath(p)
    BY DEF G!Paths, GP!Paths, G!Bases, GP!Bases, G!IsVideoPath, GP!IsVideoPath, G!NoFile,
       GP!NoFile
  <2>. QED
    BY <2>1 DEF G!TypeOK, GP!TypeOK
<1>4. T!Spec => []GitInv
  BY GitInvariant, MethodAssumption
<1>5. A!Spec => []A!TypeOK
  BY ItemTypesCorrect, MethodAssumption
<1>6. P!Spec => []P!TypeOK
  BY MenuTypesCorrect, MethodAssumption
<1>7. O!Spec => []O!TypeOK
  BY GroupTypesCorrect, MethodAssumption
<1>8. S!Spec => []S!TypeOK
  BY ForgeTypesCorrect, MethodAssumption
<1>9. GitInv => repo.form \in {"absent", "partial", "bare", ".git"}
  BY GitRecords DEF GitInv, GitTypes, GitForms
<1>10. /\ TypeOK /\ MailTypes
       /\ ~Runs("gphotos") \/ G!TypeOK
       /\ ~Runs("git") \/ GitInv
       /\ ~Runs("archiveorg") \/ A!TypeOK
       /\ ~Runs("gopher") \/ P!TypeOK
       /\ ~Runs("groupsio") \/ O!TypeOK
       /\ ~Runs("sourceforge") \/ S!TypeOK
       => AllTypes
  BY <1>9 DEF Runs, AllTypes
<1>. QED
  BY <1>1, <1>2, <1>3, <1>4, <1>5, <1>6, <1>7, <1>8, <1>10, RunOfMethod, RunOfPhotos, PTL
=============================================================================
