--------------------------- MODULE FtpCrawlProofs ---------------------------
(***************************************************************************)
(* What holds of the crawl of ftpmirror for every tree, every size of its  *)
(* files, and any number of runs, attempts, changes and interruptions.     *)
(***************************************************************************)
EXTENDS FtpCrawl, FiniteSetTheorems, TLAPS

USE DEF disk, call, loop, task, world

-----------------------------------------------------------------------------
(* Types. *)

LEMMA InsertType ==
  ASSUME DOMAIN entries \subseteq Path, entries \in [DOMAIN entries -> Entry],
         IsFiniteSet(DOMAIN entries),
         NEW p \in Path, NEW v \in Version \cup {0}
  PROVE  /\ Insert(p, v) \in [DOMAIN entries \cup {p} -> Entry]
         /\ DOMAIN Insert(p, v) = DOMAIN entries \cup {p}
  <1>1. Cardinality(DOMAIN entries) \in Nat
    BY FS_CardinalityType
  <1> QED
    BY <1>1 DEF Insert, Entry, State

(* The rows are the rows of a table: finitely many, numbered as they came. *)
RowsOK ==
  /\ IsFiniteSet(DOMAIN entries)
  /\ \A p \in DOMAIN entries : entries[p].id \in 1 .. Cardinality(DOMAIN entries)
  /\ \A p, q \in DOMAIN entries : entries[p].id = entries[q].id => p = q

THEOREM TypeInit == Init => TypeOK /\ RowsOK
  <1> SUFFICES ASSUME Init PROVE TypeOK /\ RowsOK
    OBVIOUS
  <1>1. 1 \in Version
    BY SizeAssumption DEF Version
  <1>2. RowsOK
    <2>1. DOMAIN entries = {}
      BY DEF Init
    <2> QED
      BY <2>1, FS_EmptySet DEF RowsOK
  <1>3. entries \in [DOMAIN entries -> Entry] /\ DOMAIN entries \subseteq Path
    BY DEF Init
  <1>4. local \in [Files -> Content] /\ partial \in [Files -> Content]
    BY DEF Init, Content, Nothing
  <1>5. todo \in [DOMAIN todo -> Version \cup {0}] /\ DOMAIN todo \subseteq Path
    BY DEF Init
  <1>6. remote \in [Files -> Version \cup {0}]
    BY <1>1 DEF Init
  <1>7. root \in Roots /\ root \in Path /\ cur \in Path
    BY PathsAssumption DEF Init
  <1>8. attempt \in 1 .. MaxAttempts /\ runs \in 0 .. MaxRuns /\ changes \in 0 .. MaxChanges
    BY BoundsAssumption DEF Init
  <1>9. lastID \in Nat /\ errors \in BOOLEAN /\ update \in BOOLEAN
    BY DEF Init
  <1>10. result \in {"none", "ok", "error"} /\ quiet \in BOOLEAN /\ sent \in Version \cup {0}
    BY DEF Init
  <1>11. pc = "idle"
    BY DEF Init
  <1> QED
    BY <1>2, <1>3, <1>4, <1>5, <1>6, <1>7, <1>8, <1>9, <1>10, <1>11 DEF TypeOK

(* What a run does to the rows leaves every row a row. *)
LEMMA UpdateType ==
  ASSUME entries \in [DOMAIN entries -> Entry], NEW p \in DOMAIN entries,
         NEW v \in Version \cup {0}, NEW st \in State
  PROVE  /\ [entries EXCEPT ![p].state = st] \in [DOMAIN entries -> Entry]
         /\ [entries EXCEPT ![p].listed = v, ![p].state = st] \in [DOMAIN entries -> Entry]
  BY DEF Entry

LEMMA EmptyTodo ==
  DOMAIN [p \in {} |-> 0] \subseteq Path /\ [p \in {} |-> 0] \in [DOMAIN [p \in {} |-> 0] -> Version \cup {0}]
  OBVIOUS

LEMMA ReturnType ==
  ASSUME TypeOK, NEW res \in {"none", "ok", "error"}, Return(res)
  PROVE  TypeOK'
  <1>1. cur' \in Path /\ attempt' \in 1 .. MaxAttempts
    BY PathsAssumption, BoundsAssumption DEF Return, TypeOK
  <1>2. DOMAIN todo' \subseteq Path /\ todo' \in [DOMAIN todo' -> Version \cup {0}]
    BY EmptyTodo DEF Return
  <1> QED
    BY <1>1, <1>2 DEF Return, TypeOK

LEMMA RecordType ==
  ASSUME TypeOK, NEW st \in State, pc \in {"ask", "upsert", "receive", "mark"},
         Record(st), partial' = partial, errors' \in BOOLEAN
  PROVE  TypeOK'
  <1>1. DOMAIN entries' = DOMAIN entries
    BY DEF Record, TypeOK
  <1>2. entries' \in [DOMAIN entries' -> Entry]
    BY <1>1, UpdateType DEF Record, TypeOK
  <1>3. DOMAIN todo' \subseteq Path /\ todo' \in [DOMAIN todo' -> Version \cup {0}]
    BY EmptyTodo DEF Record
  <1>4. pc' = "next" /\ sent' = 0
    BY DEF Record
  <1> QED
    BY <1>1, <1>2, <1>3, <1>4 DEF Record, TypeOK

THEOREM TypeNext == TypeOK /\ RowsOK /\ [Next]_vars => TypeOK'
  <1> SUFFICES ASSUME TypeOK, RowsOK, [Next]_vars PROVE TypeOK'
    OBVIOUS
  <1>1. ASSUME NEW r \in Roots, NEW u \in BOOLEAN, Begin(r, u) PROVE TypeOK'
    BY <1>1, BoundsAssumption DEF TypeOK, Begin
  <1>2. CASE AddRoot
    <2>1. root \in Path /\ Listed(root) \in Version \cup {0}
      BY PathsAssumption DEF TypeOK, Listed
    <2>2. DOMAIN entries' \subseteq Path /\ entries' \in [DOMAIN entries' -> Entry]
      <3>1. CASE entries' = Insert(root, Listed(root))
        <4>1. /\ Insert(root, Listed(root)) \in [DOMAIN entries \cup {root} -> Entry]
              /\ DOMAIN Insert(root, Listed(root)) = DOMAIN entries \cup {root}
          BY <2>1, InsertType DEF TypeOK, RowsOK
        <4> QED
          BY <3>1, <4>1, <2>1 DEF TypeOK
      <3> QED
        BY <1>2, <3>1 DEF AddRoot, TypeOK
    <2> QED
      BY <1>2, <2>2 DEF TypeOK, AddRoot
  <1>3. CASE AddRootFails
    BY <1>3, ReturnType DEF AddRootFails
  <1>4. CASE Reset
    <2>1. DOMAIN entries' = DOMAIN entries
      BY <1>4 DEF Reset
    <2>2. ASSUME NEW p \in DOMAIN entries PROVE entries'[p] \in Entry
      BY <1>4, <2>2 DEF Reset, TypeOK, Entry, State
    <2>3. entries' \in [DOMAIN entries' -> Entry]
      BY <1>4, <2>1, <2>2 DEF Reset
    <2> QED
      BY <1>4, <2>1, <2>3 DEF TypeOK, Reset
  <1>5. ASSUME NEW p \in Path, Pick(p) PROVE TypeOK'
    <2>1. p \in DOMAIN entries /\ entries[p].id \in Nat
      BY <1>5 DEF Pick, Work, TypeOK, Entry
    <2> QED
      BY <1>5, <2>1, BoundsAssumption DEF TypeOK, Pick
  <1>6. CASE Finish
    BY <1>6, ReturnType DEF Finish
  <1>7. CASE Done
    BY <1>7, RecordType DEF Done, State, TypeOK
  <1>8. CASE Permanent
    BY <1>8, RecordType DEF Permanent, State, TypeOK
  <1>9. CASE Transient
    <2>1. CASE MayRetry
      <3>1. attempt' \in 1 .. MaxAttempts
        BY <1>9, <2>1, BoundsAssumption DEF Transient, MayRetry, Retry, TypeOK
      <3>2. DOMAIN todo' \subseteq Path /\ todo' \in [DOMAIN todo' -> Version \cup {0}]
        BY <1>9, <2>1, EmptyTodo DEF Transient
      <3> QED
        BY <1>9, <2>1, <3>1, <3>2 DEF Transient, TypeOK
    <2>2. CASE ~ MayRetry
      BY <1>9, <2>2, RecordType DEF Transient, State
    <2> QED
      BY <2>1, <2>2
  <1>10. CASE DiskFails
    BY <1>10, RecordType DEF DiskFails, State
  <1>11. CASE ConnectFails
    BY <1>11, ReturnType DEF ConnectFails
  <1>12. CASE ListDir
    <2>1. \A p \in Path : Listed(p) \in Version \cup {0}
      BY DEF Listed, TypeOK
    <2>2. DOMAIN todo' \subseteq Path /\ todo' \in [DOMAIN todo' -> Version \cup {0}]
      BY <1>12, <2>1 DEF ListDir
    <2> QED
      BY <1>12, <2>2 DEF TypeOK, ListDir
  <1>13. ASSUME NEW p \in Path, Upsert(p) PROVE TypeOK'
    <2>1. p \in DOMAIN todo /\ todo[p] \in Version \cup {0}
      BY <1>13 DEF Upsert, TypeOK
    <2>2. DOMAIN entries \subseteq DOMAIN entries' /\ DOMAIN entries' \subseteq Path
          /\ entries' \in [DOMAIN entries' -> Entry]
      <3>1. CASE entries' = Insert(p, todo[p])
        <4>1. /\ Insert(p, todo[p]) \in [DOMAIN entries \cup {p} -> Entry]
              /\ DOMAIN Insert(p, todo[p]) = DOMAIN entries \cup {p}
          BY <2>1, InsertType DEF TypeOK, RowsOK
        <4> QED
          BY <3>1, <4>1, <2>1 DEF TypeOK
      <3>2. CASE /\ entries' = [entries EXCEPT ![p].listed = todo[p], ![p].state = "pending"]
                 /\ p \in DOMAIN entries
        BY <3>2, <2>1, UpdateType DEF TypeOK, State
      <3> QED
        BY <1>13, <3>1, <3>2 DEF Upsert, Upserted, TypeOK
    <2>3. DOMAIN todo' \subseteq Path /\ todo' \in [DOMAIN todo' -> Version \cup {0}]
      BY <1>13 DEF Upsert, TypeOK
    <2> QED
      BY <1>13, <2>2, <2>3 DEF TypeOK, Upsert
  <1>14. CASE ListedAll
    BY <1>14 DEF TypeOK, ListedAll
  <1>15. CASE Retrieve
    <2>1. Kept \in Content /\ Nothing \in Content
      BY <1>15 DEF Kept, Nothing, Content, TypeOK, Retrieve
    <2>2. partial' \in [Files -> Content]
      BY <1>15, <2>1 DEF Retrieve, TypeOK
    <2>3. remote[cur] \in Version \cup {0} /\ remote[cur] # 0 /\ cur \in Files
      BY <1>15 DEF Retrieve, TypeOK, Exists
    <2> QED
      BY <1>15, <2>2, <2>3 DEF TypeOK, Retrieve
  <1>16. CASE Receive
    <2>1. cur \in Files /\ sent \in Version
      BY <1>16 DEF Receive, TypeOK
    <2>2. [len |-> partial[cur].len + 1, of |-> partial[cur].of \cup {sent}] \in Content
      BY <2>1 DEF TypeOK, Content
    <2>3. partial' \in [Files -> Content]
      BY <1>16, <2>2 DEF Receive, TypeOK
    <2> QED
      BY <1>16, <2>3 DEF TypeOK, Receive
  <1>17. CASE Rename
    <2>1. local' \in [Files -> Content] /\ partial' \in [Files -> Content]
      BY <1>17 DEF Rename, TypeOK, Content, Nothing
    <2> QED
      BY <1>17, <2>1 DEF TypeOK, Rename
  <1>18. CASE Interrupted
    BY <1>18, ReturnType DEF Interrupted
  <1>19. ASSUME NEW f \in Files, RemoteChange(f) PROVE TypeOK'
    <2>1. remote' \in [Files -> Version \cup {0}] /\ changes' \in 0 .. MaxChanges
      BY <1>19, BoundsAssumption DEF RemoteChange, Outside, TypeOK
    <2> QED
      BY <1>19, <2>1 DEF TypeOK, RemoteChange, Outside
  <1>20. ASSUME NEW f \in Files, LocalLost(f) PROVE TypeOK'
    <2>1. local' \in [Files -> Content] /\ changes' \in 0 .. MaxChanges
      BY <1>20, BoundsAssumption DEF LocalLost, Outside, TypeOK, Content, Nothing
    <2> QED
      BY <1>20, <2>1 DEF TypeOK, LocalLost, Outside
  <1>21. CASE UNCHANGED vars
    BY <1>21 DEF TypeOK, vars
  <1> QED
    BY <1>1, <1>2, <1>3, <1>4, <1>5, <1>6, <1>7, <1>8, <1>9, <1>10, <1>11, <1>12, <1>13,
       <1>14, <1>15, <1>16, <1>17, <1>18, <1>19, <1>20, <1>21
    DEF Next, Mirror, Process

-----------------------------------------------------------------------------
(* Rows keep their numbers, and a new one gets the next. *)

LEMMA RowStep ==
  ASSUME TypeOK, [Next]_vars
  PROVE  \/ /\ DOMAIN entries' = DOMAIN entries
            /\ \A p \in DOMAIN entries : entries'[p].id = entries[p].id
         \/ \E p \in Path \ DOMAIN entries, v \in Version \cup {0} : entries' = Insert(p, v)
  <1>1. CASE UNCHANGED entries
    BY <1>1
  <1>2. CASE AddRoot
    <2>1. root \in Path /\ Listed(root) \in Version \cup {0}
      BY PathsAssumption DEF TypeOK, Listed
    <2> QED
      BY <1>2, <2>1 DEF AddRoot
  <1>3. CASE Reset
    BY <1>3 DEF Reset, TypeOK, Entry
  <1>4. ASSUME NEW st \in State, Record(st) PROVE \A p \in DOMAIN entries :
          DOMAIN entries' = DOMAIN entries /\ entries'[p].id = entries[p].id
    BY <1>4 DEF Record, TypeOK, Entry
  <1>5. CASE Done \/ Permanent \/ Transient \/ DiskFails
    <2>1. UNCHANGED entries \/ \E st \in State : Record(st)
      BY <1>5 DEF Done, Permanent, Transient, DiskFails, State
    <2>2. ASSUME NEW st \in State, Record(st) PROVE DOMAIN entries' = DOMAIN entries
      BY <2>2 DEF Record
    <2> QED
      BY <2>1, <2>2, <1>4
  <1>6. ASSUME NEW p \in Path, Upsert(p)
        PROVE  \/ /\ DOMAIN entries' = DOMAIN entries
                  /\ \A q \in DOMAIN entries : entries'[q].id = entries[q].id
               \/ p \in Path \ DOMAIN entries /\ entries' = Insert(p, todo[p])
    BY <1>6 DEF Upsert, Upserted, TypeOK, Entry
  <1>7. ASSUME NEW p \in Path, Upsert(p) PROVE todo[p] \in Version \cup {0}
    BY <1>7 DEF Upsert, TypeOK
  <1>8. CASE \E p \in Path : Upsert(p)
    BY <1>6, <1>7, <1>8
  <1> QED
    BY <1>1, <1>2, <1>3, <1>5, <1>8
    DEF Next, Mirror, Process, Begin, AddRootFails, Interrupted, Return, Pick, Finish,
        ConnectFails, ListDir, ListedAll, Retrieve, Receive, Rename, RemoteChange, LocalLost,
        Outside, vars

LEMMA InsertRows ==
  ASSUME RowsOK, NEW p \in Path \ DOMAIN entries, NEW v, entries' = Insert(p, v)
  PROVE  RowsOK'
  <1>1. DOMAIN entries' = DOMAIN entries \cup {p}
    BY DEF Insert
  <1>2. /\ IsFiniteSet(DOMAIN entries')
        /\ Cardinality(DOMAIN entries) \in Nat
        /\ Cardinality(DOMAIN entries') = Cardinality(DOMAIN entries) + 1
    BY <1>1, FS_AddElement, FS_CardinalityType DEF RowsOK
  <1>3. /\ entries'[p].id = Cardinality(DOMAIN entries) + 1
        /\ \A q \in DOMAIN entries : entries'[q] = entries[q]
    BY DEF Insert
  <1>4. \A q \in DOMAIN entries : entries'[q].id \in 1 .. Cardinality(DOMAIN entries)
    BY <1>3 DEF RowsOK
  <1>5. \A q \in DOMAIN entries' : entries'[q].id \in 1 .. Cardinality(DOMAIN entries')
    BY <1>1, <1>2, <1>3, <1>4
  <1>6. ASSUME NEW q \in DOMAIN entries', NEW r \in DOMAIN entries', entries'[q].id = entries'[r].id
        PROVE  q = r
    <2>1. CASE q = p \/ r = p
      BY <1>1, <1>2, <1>3, <1>4, <1>6, <2>1
    <2>2. CASE q # p /\ r # p
      BY <1>1, <1>3, <1>6, <2>2 DEF RowsOK
    <2> QED
      BY <2>1, <2>2
  <1> QED
    BY <1>2, <1>5, <1>6 DEF RowsOK

THEOREM RowsNext == TypeOK /\ RowsOK /\ [Next]_vars => RowsOK'
  <1> SUFFICES ASSUME TypeOK, RowsOK, [Next]_vars PROVE RowsOK'
    OBVIOUS
  <1>1. CASE /\ DOMAIN entries' = DOMAIN entries
             /\ \A p \in DOMAIN entries : entries'[p].id = entries[p].id
    BY <1>1 DEF RowsOK
  <1> QED
    BY <1>1, RowStep, InsertRows

(* Every reachable state is well typed (ftpmirror.go:118-148). *)
THEOREM TypeCorrect == Spec => [](TypeOK /\ RowsOK)
  BY TypeInit, TypeNext, RowsNext, PTL DEF Spec

-----------------------------------------------------------------------------
(* A file of which the server has had one version only. *)

(* What is listed existed, and is no newer than what the server has. *)
ListedOK(p, v) == p \in Files => v \in 1 .. remote[p]

(* The beginning of the first version. *)
Beginning(c) == c.len \in 0 .. Size[1] /\ c.of = IF c.len = 0 THEN {} ELSE {1}

(* The offset a download resumes at is taken from the temporary file alone, and
   its end is judged by the size that was listed: so the invariant speaks of
   both, and of the version being sent. *)
PiecesOK ==
  /\ \A p \in DOMAIN entries : ListedOK(p, entries[p].listed)
  /\ \A p \in DOMAIN todo : ListedOK(p, todo[p])
  /\ (pc = "receive" => sent <= remote[cur])
  /\ \A f \in Files : remote[f] <= 1 => Beginning(partial[f]) /\ local[f] \in {Nothing, Whole(1)}

LEMMA Versions == Version \subseteq Nat \ {0} /\ 1 \in Version /\ Size[1] \in Nat \ {0}
  BY SizeAssumption DEF Version

LEMMA PiecesInit == Init => PiecesOK
  <1> SUFFICES ASSUME Init PROVE PiecesOK
    OBVIOUS
  <1>1. DOMAIN entries = {} /\ DOMAIN todo = {} /\ pc = "idle"
    BY DEF Init
  <1>2. \A f \in Files : partial[f] = Nothing /\ local[f] = Nothing
    BY DEF Init
  <1>3. Beginning(Nothing)
    BY Versions DEF Beginning, Nothing
  <1> QED
    BY <1>1, <1>2, <1>3 DEF PiecesOK

(* Steps of which the files on disk and on the server see nothing. *)
LEMMA PiecesFrame ==
  ASSUME PiecesOK, UNCHANGED <<remote, local, partial>>,
         \A p \in DOMAIN entries' : ListedOK(p, entries'[p].listed),
         \A p \in DOMAIN todo' : ListedOK(p, todo'[p]),
         pc' # "receive"
  PROVE  PiecesOK'
  <1>1. \A p, v : ListedOK(p, v)' <=> ListedOK(p, v)
    BY DEF ListedOK
  <1> QED
    BY <1>1 DEF PiecesOK, ListedOK, Beginning, Nothing, Whole

LEMMA ListedNow ==
  ASSUME TypeOK, NEW p \in Path, Exists(p)
  PROVE  ListedOK(p, Listed(p))
  BY Versions DEF ListedOK, Listed, Exists, TypeOK

LEMMA PiecesReturn ==
  ASSUME PiecesOK, NEW res, Return(res)
  PROVE  PiecesOK'
  <1>1. DOMAIN todo' = {} /\ pc' # "receive" /\ UNCHANGED <<entries, remote, local, partial>>
    BY DEF Return
  <1> QED
    BY <1>1, PiecesFrame DEF PiecesOK

LEMMA PiecesRecord ==
  ASSUME PiecesOK, TypeOK, NEW st \in State, Record(st), UNCHANGED partial
  PROVE  PiecesOK'
  <1>1. DOMAIN todo' = {} /\ pc' # "receive" /\ UNCHANGED <<remote, local, partial>>
    BY DEF Record
  <1>2. DOMAIN entries' = DOMAIN entries /\ \A p \in DOMAIN entries : entries'[p].listed = entries[p].listed
    BY DEF Record, TypeOK, Entry
  <1> QED
    BY <1>1, <1>2, PiecesFrame DEF PiecesOK

THEOREM PiecesNext == TypeOK /\ PiecesOK /\ [Next]_vars => PiecesOK'
  <1> SUFFICES ASSUME TypeOK, PiecesOK, [Next]_vars PROVE PiecesOK'
    OBVIOUS
  <1>1. ASSUME NEW r \in Roots, NEW u \in BOOLEAN, Begin(r, u) PROVE PiecesOK'
    BY <1>1, PiecesFrame DEF PiecesOK, Begin
  <1>2. CASE AddRoot
    <2>1. CASE UNCHANGED entries
      BY <1>2, <2>1, PiecesFrame DEF PiecesOK, AddRoot
    <2>2. CASE Exists(root) /\ entries' = Insert(root, Listed(root))
      <3>1. root \in Path /\ ListedOK(root, Listed(root))
        BY <2>2, ListedNow, PathsAssumption DEF TypeOK
      <3>2. \A p \in DOMAIN entries' : ListedOK(p, entries'[p].listed)
        BY <2>2, <3>1 DEF Insert, PiecesOK
      <3> QED
        BY <1>2, <3>2, PiecesFrame DEF PiecesOK, AddRoot
    <2> QED
      BY <1>2, <2>1, <2>2 DEF AddRoot
  <1>3. CASE AddRootFails \/ ConnectFails \/ Finish \/ Interrupted
    BY <1>3, PiecesReturn DEF AddRootFails, ConnectFails, Finish, Interrupted
  <1>4. CASE Reset
    <2>1. DOMAIN entries' = DOMAIN entries /\ \A p \in DOMAIN entries : entries'[p].listed = entries[p].listed
      BY <1>4 DEF Reset, TypeOK, Entry
    <2> QED
      BY <1>4, <2>1, PiecesFrame DEF PiecesOK, Reset
  <1>5. ASSUME NEW p \in Path, Pick(p) PROVE PiecesOK'
    BY <1>5, PiecesFrame DEF PiecesOK, Pick
  <1>6. CASE Done \/ Permanent \/ DiskFails
    BY <1>6, PiecesRecord DEF Done, Permanent, DiskFails, State
  <1>7. CASE Transient
    <2>1. CASE MayRetry
      BY <1>7, <2>1, PiecesFrame DEF PiecesOK, Transient
    <2>2. CASE ~ MayRetry
      BY <1>7, <2>2, PiecesRecord DEF Transient, State
    <2> QED
      BY <2>1, <2>2
  <1>8. CASE ListDir
    <2>1. \A p \in DOMAIN todo' : ListedOK(p, todo'[p])
      BY <1>8, ListedNow DEF ListDir
    <2> QED
      BY <1>8, <2>1, PiecesFrame DEF PiecesOK, ListDir
  <1>9. ASSUME NEW p \in Path, Upsert(p) PROVE PiecesOK'
    <2>1. p \in DOMAIN todo /\ ListedOK(p, todo[p])
      BY <1>9 DEF Upsert, PiecesOK
    <2>2. \A q \in DOMAIN entries' : ListedOK(q, entries'[q].listed)
      BY <1>9, <2>1 DEF Upsert, Upserted, Insert, PiecesOK, TypeOK, Entry
    <2>3. \A q \in DOMAIN todo' : ListedOK(q, todo'[q])
      BY <1>9 DEF Upsert, PiecesOK
    <2> QED
      BY <1>9, <2>2, <2>3, PiecesFrame DEF Upsert
  <1>10. CASE ListedAll
    BY <1>10, PiecesFrame DEF PiecesOK, ListedAll
  <1>11. CASE Retrieve
    <2>1. Beginning(Nothing)
      BY Versions DEF Beginning, Nothing
    <2>2. /\ cur \in Files /\ sent' = remote[cur] /\ remote[cur] \in Nat
          /\ \A f \in Files : partial'[f] \in {partial[f], Nothing}
      BY <1>11, Versions DEF Retrieve, Kept, TypeOK
    <2>3. \A f \in Files : remote[f] <= 1 => Beginning(partial'[f])
      BY <2>1, <2>2 DEF PiecesOK
    <2>4. UNCHANGED <<entries, todo, remote, cur, local>>
      BY <1>11 DEF Retrieve
    <2> QED
      BY <2>2, <2>3, <2>4 DEF PiecesOK, ListedOK, Beginning, Nothing, Whole
  <1>12. CASE Receive
    <2>1. cur \in Files /\ sent \in Version /\ sent <= remote[cur] /\ remote[cur] \in Nat
      BY <1>12, Versions DEF Receive, TypeOK, PiecesOK
    <2>2. ASSUME remote[cur] <= 1 PROVE Beginning(partial'[cur])
      <3>1. sent = 1 /\ Beginning(partial[cur]) /\ partial[cur].len < Size[1]
        BY <1>12, <2>1, <2>2, Versions DEF Receive, PiecesOK
      <3>2. /\ partial'[cur].len = partial[cur].len + 1
            /\ partial'[cur].of = partial[cur].of \cup {1} /\ cur' = cur
        BY <1>12, <2>1, <3>1 DEF Receive, TypeOK
      <3>3. partial'[cur].of = {1}
        BY <3>1, <3>2 DEF Beginning
      <3>4. partial'[cur].len \in 1 .. Size[1]
        BY <3>1, <3>2, Versions DEF Beginning
      <3> QED
        BY <3>2, <3>3, <3>4, Versions DEF Beginning
    <2>3. \A f \in Files \ {cur} : partial'[f] = partial[f]
      BY <1>12 DEF Receive, TypeOK
    <2>4. UNCHANGED <<entries, todo, remote, cur, sent, local>>
      BY <1>12 DEF Receive
    <2>5. \A f \in Files : remote[f] <= 1 => Beginning(partial'[f])
      BY <2>2, <2>3, <2>4 DEF PiecesOK, Beginning
    <2> QED
      BY <2>1, <2>4, <2>5 DEF PiecesOK, ListedOK, Beginning, Nothing, Whole
  <1>13. CASE Rename
    <2>1. cur \in Files /\ cur \in DOMAIN entries /\ partial[cur] \in Content
      BY <1>13 DEF Rename, TypeOK
    <2>2. ASSUME remote[cur] <= 1 PROVE partial[cur] = Whole(1)
      <3>1. entries[cur].listed = 1
        BY <2>1, <2>2, Versions DEF PiecesOK, ListedOK, TypeOK
      <3>2. partial[cur].len = Size[1] /\ partial[cur].of = {1}
        BY <1>13, <2>1, <2>2, <3>1, Versions DEF Rename, PiecesOK, Beginning
      <3> QED
        BY <2>1, <3>2 DEF Content, Whole
    <2>3. /\ local'[cur] = partial[cur] /\ partial'[cur] = Nothing
          /\ \A f \in Files \ {cur} : local'[f] = local[f] /\ partial'[f] = partial[f]
      BY <1>13, <2>1 DEF Rename, TypeOK
    <2>4. UNCHANGED <<entries, todo, remote>> /\ pc' = "mark" /\ Beginning(Nothing)
      BY <1>13, Versions DEF Rename, Beginning, Nothing
    <2>5. \A f \in Files : remote[f] <= 1 => Beginning(partial'[f]) /\ local'[f] \in {Nothing, Whole(1)}
      BY <2>2, <2>3, <2>4 DEF PiecesOK
    <2> QED
      BY <2>4, <2>5 DEF PiecesOK, ListedOK, Beginning, Nothing, Whole
  <1>14. ASSUME NEW f \in Files, RemoteChange(f) PROVE PiecesOK'
    <2>1. \A g \in Files : remote[g] \in Nat /\ remote'[g] \in Nat /\ remote[g] <= remote'[g]
      BY <1>14, Versions DEF RemoteChange, TypeOK
    <2>2. UNCHANGED <<entries, todo, local, partial, pc, cur, sent>>
      BY <1>14 DEF RemoteChange, Outside
    <2>3. \A p \in Path, v \in Version \cup {0} : ListedOK(p, v) => ListedOK(p, v)'
      BY <2>1, Versions DEF ListedOK
    <2>4. pc' = "receive" => sent' <= remote'[cur']
      BY <2>1, <2>2, Versions DEF PiecesOK, TypeOK
    <2>5. \A g \in Files : remote'[g] <= 1 => Beginning(partial[g]) /\ local[g] \in {Nothing, Whole(1)}
      BY <2>1 DEF PiecesOK
    <2>6. \A p \in DOMAIN entries : ListedOK(p, entries[p].listed)'
      BY <2>2, <2>3 DEF PiecesOK, TypeOK, Entry
    <2>7. \A p \in DOMAIN todo : ListedOK(p, todo[p])'
      BY <2>2, <2>3 DEF PiecesOK, TypeOK
    <2> QED
      BY <2>2, <2>4, <2>5, <2>6, <2>7 DEF PiecesOK, ListedOK, Beginning, Nothing, Whole
  <1>15. ASSUME NEW f \in Files, LocalLost(f) PROVE PiecesOK'
    BY <1>15 DEF LocalLost, Outside, PiecesOK, ListedOK, Beginning, Nothing, Whole, TypeOK
  <1>16. CASE UNCHANGED vars
    BY <1>16 DEF vars, PiecesOK, ListedOK, Beginning, Nothing, Whole
  <1> QED
    BY <1>1, <1>2, <1>3, <1>4, <1>5, <1>6, <1>7, <1>8, <1>9, <1>10, <1>11, <1>12, <1>13,
       <1>14, <1>15, <1>16
    DEF Next, Mirror, Process

(* A file that never changed on the server is never seen truncated or mixed
   under its final name, whatever is interrupted, resumed or restarted
   (ftpmirror.go:584-641). *)
THEOREM FilesAreWhole == Spec => []NeverTruncated
  <1>1. PiecesOK => NeverTruncated
    BY DEF PiecesOK, NeverTruncated
  <1> QED
    BY <1>1, TypeCorrect, PiecesInit, PiecesNext, PTL DEF Spec

-----------------------------------------------------------------------------
(* One pass over ascending ids is enough when every start path is a directory:
   a file is then found by listing its directory, so that its row is younger,
   and the only rows an upsert puts back are files.  With a start path that is
   a file the pass is not enough. *)

Working == {"ask", "upsert", "receive", "mark"}

(* The rows: files after their directories; directories never look changed. *)
YoungerThanParent ==
  \A f \in Files \cap DOMAIN entries :
    Parent[f] \in DOMAIN entries /\ entries[Parent[f]].id < entries[f].id
DirsUnlisted == \A d \in Dirs \cap DOMAIN entries : entries[d].listed = 0
ListingOf ==
  pc = "upsert" =>
    /\ cur \in Dirs
    /\ \A p \in DOMAIN todo : Parent[p] = cur /\ (p \in Dirs => todo[p] = 0)

(* The pass: what it has passed is settled, and it remembers its errors. *)
Position == pc \in Working => entries[cur].id = lastID
Passed ==
  pc \in Working \cup {"next"} =>
    \A p \in DOMAIN entries :
      entries[p].id <= lastID /\ InScope(p) /\ (pc = "next" \/ p # cur)
      => entries[p].state # "pending"
ErrorsCounted ==
  pc \in Working \cup {"next"} =>
    errors \/ \A p \in DOMAIN entries : entries[p].state # "error"
Reported == result = "ok" => pc = "idle" /\ NothingLeftPending

PassOK ==
  YoungerThanParent /\ DirsUnlisted /\ ListingOf
  /\ Position /\ Passed /\ ErrorsCounted /\ Reported

USE DEF Working

LEMMA PassInit == Init => PassOK
  <1> SUFFICES ASSUME Init PROVE PassOK
    OBVIOUS
  <1>1. DOMAIN entries = {} /\ pc = "idle" /\ result = "none"
    BY DEF Init
  <1> QED
    BY <1>1 DEF PassOK, YoungerThanParent, DirsUnlisted, ListingOf, Position, Passed,
                ErrorsCounted, Reported

LEMMA ScopeFrame == ASSUME root' = root PROVE \A p : InScope(p)' <=> InScope(p)
  BY DEF InScope

(* A run ends without success. *)
LEMMA PassReturn ==
  ASSUME PassOK, NEW res \in {"none", "error"}, Return(res)
  PROVE  PassOK'
  <1>1. pc' = "idle" /\ result' # "ok" /\ UNCHANGED entries
    BY DEF Return
  <1> QED
    BY <1>1 DEF PassOK, YoungerThanParent, DirsUnlisted, ListingOf, Position, Passed,
                ErrorsCounted, Reported

LEMMA PassRecord ==
  ASSUME PassOK, TypeOK, NEW st \in State \ {"pending"}, Record(st), pc \in Working,
         st = "error" => errors', errors => errors'
  PROVE  PassOK'
  <1>1. /\ DOMAIN entries' = DOMAIN entries
        /\ \A p \in DOMAIN entries :
             /\ entries'[p].id = entries[p].id /\ entries'[p].listed = entries[p].listed
             /\ entries'[p].state = IF p = cur THEN st ELSE entries[p].state
    BY DEF Record, TypeOK, Entry
  <1>2. pc' = "next" /\ UNCHANGED <<lastID, root, result, cur>>
    BY DEF Record
  <1>3. YoungerThanParent' /\ DirsUnlisted'
    BY <1>1 DEF PassOK, YoungerThanParent, DirsUnlisted
  <1>4. Passed'
    BY <1>1, <1>2, ScopeFrame DEF PassOK, Passed
  <1>5. ErrorsCounted'
    BY <1>1, <1>2 DEF PassOK, ErrorsCounted
  <1> QED
    BY <1>2, <1>3, <1>4, <1>5 DEF PassOK, ListingOf, Position, Reported

(* Steps within the treatment of an entry that write no row. *)
LEMMA PassWithin ==
  ASSUME PassOK, pc \in Working, pc' \in Working, UNCHANGED <<entries, cur, loop, call, result>>,
         ListingOf'
  PROVE  PassOK'
  <1>1. \A p : InScope(p)' <=> InScope(p)
    BY ScopeFrame
  <1> QED
    BY <1>1 DEF PassOK, YoungerThanParent, DirsUnlisted, Position, Passed, ErrorsCounted, Reported

(* A new row comes after all others. *)
LEMMA PassInsert ==
  ASSUME TypeOK, RowsOK, PassOK, NEW p \in Path \ DOMAIN entries, NEW v,
         entries' = Insert(p, v),
         p \in Dirs => v = 0,
         p \in Files => Parent[p] \in DOMAIN entries
  PROVE  /\ YoungerThanParent' /\ DirsUnlisted'
         /\ DOMAIN entries' = DOMAIN entries \cup {p}
         /\ \A q \in DOMAIN entries : entries'[q] = entries[q] /\ entries[q].id < entries'[p].id
         /\ entries'[p].state = "pending"
  <1>1. /\ DOMAIN entries' = DOMAIN entries \cup {p}
        /\ \A q \in DOMAIN entries : entries'[q] = entries[q]
        /\ entries'[p].id = Cardinality(DOMAIN entries) + 1
        /\ entries'[p].listed = v /\ entries'[p].state = "pending"
    BY DEF Insert
  <1>2. \A q \in DOMAIN entries : entries[q].id < entries'[p].id
    BY <1>1, FS_CardinalityType DEF RowsOK
  <1>3. DirsUnlisted'
    BY <1>1 DEF PassOK, DirsUnlisted
  <1>4. YoungerThanParent'
    BY <1>1, <1>2 DEF PassOK, YoungerThanParent
  <1> QED
    BY <1>1, <1>2, <1>3, <1>4

LEMMA PassUpsert ==
  ASSUME TypeOK, RowsOK, PassOK, NEW p \in Path, Upsert(p)
  PROVE  PassOK'
  <1>1. /\ pc = "upsert" /\ pc' = "upsert" /\ UNCHANGED <<cur, loop, call, result>>
        /\ p \in DOMAIN todo /\ Parent[p] = cur /\ cur \in Dirs /\ cur \in DOMAIN entries
        /\ (p \in Dirs => todo[p] = 0)
    BY DEF Upsert, PassOK, ListingOf, TypeOK
  <1>2. ListingOf'
    BY <1>1 DEF Upsert, PassOK, ListingOf
  <1>3. CASE UNCHANGED entries
    BY <1>1, <1>2, <1>3, PassWithin
  <1>4. CASE p \notin DOMAIN entries /\ entries' = Insert(p, todo[p])
    <2>1. /\ YoungerThanParent' /\ DirsUnlisted'
          /\ DOMAIN entries' = DOMAIN entries \cup {p}
          /\ \A q \in DOMAIN entries : entries'[q] = entries[q] /\ entries[q].id < entries'[p].id
          /\ entries'[p].state = "pending"
      BY <1>1, <1>4, PassInsert
    <2>2. entries[cur].id = lastID /\ lastID \in Nat /\ entries[cur].id < entries'[p].id
      BY <1>1, <2>1 DEF PassOK, Position, TypeOK
    <2>3. Passed'
      <3>1. entries'[p].id \in Nat
        BY <1>4, FS_CardinalityType DEF Insert, RowsOK
      <3>2. ~ (entries'[p].id <= lastID)
        BY <2>2, <3>1
      <3> QED
        BY <1>1, <2>1, <3>2, ScopeFrame DEF PassOK, Passed
    <2>4. ErrorsCounted'
      BY <1>1, <2>1 DEF PassOK, ErrorsCounted
    <2>5. Position' /\ Reported'
      BY <1>1, <2>1, <2>2 DEF PassOK, Position, Reported
    <2> QED
      BY <1>2, <2>1, <2>3, <2>4, <2>5 DEF PassOK
  <1>5. CASE /\ p \in DOMAIN entries /\ Changed(p, todo[p])
             /\ entries' = [entries EXCEPT ![p].listed = todo[p], ![p].state = "pending"]
    <2>1. p \in Files
      BY <1>1, <1>5 DEF Changed, PassOK, DirsUnlisted, Path
    <2>2. lastID < entries[p].id /\ lastID \in Nat
      BY <1>1, <1>5, <2>1 DEF PassOK, YoungerThanParent, Position, TypeOK
    <2>3. /\ DOMAIN entries' = DOMAIN entries
          /\ \A q \in DOMAIN entries : entries'[q].id = entries[q].id
          /\ \A q \in DOMAIN entries \ {p} : entries'[q] = entries[q]
          /\ entries'[p].state = "pending"
      BY <1>5 DEF TypeOK, Entry
    <2>4. YoungerThanParent' /\ DirsUnlisted'
      BY <2>1, <2>3, PathsAssumption DEF PassOK, YoungerThanParent, DirsUnlisted
    <2>5. Passed'
      BY <1>1, <2>2, <2>3, ScopeFrame DEF PassOK, Passed, RowsOK
    <2>6. ErrorsCounted' /\ Position' /\ Reported'
      BY <1>1, <2>3 DEF PassOK, ErrorsCounted, Position, Reported
    <2> QED
      BY <1>2, <2>4, <2>5, <2>6 DEF PassOK
  <1> QED
    BY <1>3, <1>4, <1>5 DEF Upsert, Upserted

LEMMA PassPick ==
  ASSUME TypeOK, RowsOK, PassOK, NEW p \in Path, Pick(p)
  PROVE  PassOK'
  <1>1. /\ p \in DOMAIN entries /\ entries[p].id > lastID /\ lastID' = entries[p].id
        /\ pc = "next" /\ UNCHANGED <<entries, root, errors, result>>
        /\ \A q \in Work : entries[p].id <= entries[q].id
    BY DEF Pick, Work
  <1>2. (InScope(p) /\ pc' = "ask" /\ cur' = p) \/ (~ InScope(p) /\ pc' = "next")
    BY <1>1 DEF Pick
  <1>3. ASSUME NEW q \in DOMAIN entries, entries[q].id <= lastID', InScope(q), q # p
        PROVE  entries[q].state # "pending"
    <2>1. entries[q].id \in Nat /\ entries[p].id \in Nat /\ lastID \in Nat
      BY <1>1 DEF TypeOK, Entry
    <2>2. entries[q].id < entries[p].id
      BY <1>1, <1>3, <2>1 DEF RowsOK
    <2>3. CASE entries[q].id <= lastID
      BY <1>1, <1>3, <2>3 DEF PassOK, Passed
    <2>4. CASE entries[q].id > lastID
      BY <1>1, <2>1, <2>2, <2>4 DEF Work
    <2> QED
      BY <2>1, <2>3, <2>4
  <1>4. Passed'
    BY <1>1, <1>2, <1>3, ScopeFrame DEF Passed
  <1> QED
    BY <1>1, <1>2, <1>4 DEF PassOK, YoungerThanParent, DirsUnlisted, ListingOf, Position,
                            ErrorsCounted, Reported

LEMMA PassFinish ==
  ASSUME TypeOK, PassOK, Finish
  PROVE  PassOK'
  <1>1. pc' = "idle" /\ pc = "next" /\ Work = {} /\ UNCHANGED <<entries, root>>
    BY DEF Finish, Return
  <1>2. ASSUME result' = "ok" PROVE NothingLeftPending'
    <2>1. ~ errors
      BY <1>2 DEF Finish, Return
    <2>2. ASSUME NEW p \in DOMAIN entries, InScope(p)
          PROVE  entries[p].state \in {"done", "failed"}
      <3>1. entries[p].state \in State /\ entries[p].state # "error"
        BY <1>1, <2>1 DEF PassOK, ErrorsCounted, TypeOK, Entry
      <3>2. entries[p].state # "pending"
        BY <1>1, <2>2 DEF PassOK, Passed, Work, TypeOK, Entry
      <3> QED
        BY <3>1, <3>2 DEF State
    <2> QED
      BY <1>1, <2>2, ScopeFrame DEF NothingLeftPending
  <1> QED
    BY <1>1, <1>2 DEF PassOK, YoungerThanParent, DirsUnlisted, ListingOf, Position, Passed,
                      ErrorsCounted, Reported

(* Nothing of the crawl changes. *)
LEMMA PassFrame ==
  ASSUME PassOK, UNCHANGED <<entries, pc, cur, todo, loop, call, result>>
  PROVE  PassOK'
  <1>1. \A p : InScope(p)' <=> InScope(p)
    BY ScopeFrame
  <1>2. NothingLeftPending' <=> NothingLeftPending
    BY <1>1 DEF NothingLeftPending
  <1> QED
    BY <1>1, <1>2 DEF PassOK, YoungerThanParent, DirsUnlisted, ListingOf, Position, Passed,
                      ErrorsCounted, Reported

THEOREM PassNext ==
  ASSUME Roots \subseteq Dirs
  PROVE  TypeOK /\ RowsOK /\ PassOK /\ [Next]_vars => PassOK'
  <1> SUFFICES ASSUME TypeOK, RowsOK, PassOK, [Next]_vars PROVE PassOK'
    OBVIOUS
  <1>1. ASSUME NEW r \in Roots, NEW u \in BOOLEAN, Begin(r, u) PROVE PassOK'
    BY <1>1 DEF Begin, PassOK, YoungerThanParent, DirsUnlisted, ListingOf, Position, Passed,
                ErrorsCounted, Reported
  <1>2. CASE AddRoot
    <2>1. root \in Dirs /\ root \in Path /\ root \notin Files /\ Listed(root) = 0
      BY PathsAssumption DEF TypeOK, Listed
    <2>2. YoungerThanParent' /\ DirsUnlisted'
      <3>1. CASE UNCHANGED entries
        BY <3>1 DEF PassOK, YoungerThanParent, DirsUnlisted
      <3>2. CASE root \notin DOMAIN entries /\ entries' = Insert(root, Listed(root))
        BY <3>2, <2>1, PassInsert
      <3> QED
        BY <1>2, <3>1, <3>2 DEF AddRoot
    <2>3. pc' = "reset" /\ pc = "addRoot" /\ result' = result
      BY <1>2 DEF AddRoot
    <2> QED
      BY <2>2, <2>3 DEF PassOK, ListingOf, Position, Passed, ErrorsCounted, Reported
  <1>3. CASE AddRootFails \/ ConnectFails \/ Interrupted
    BY <1>3, PassReturn DEF AddRootFails, ConnectFails, Interrupted
  <1>4. CASE Reset
    <2>1. /\ DOMAIN entries' = DOMAIN entries
          /\ \A p \in DOMAIN entries :
               /\ entries'[p].id = entries[p].id /\ entries'[p].listed = entries[p].listed
               /\ entries'[p].state # "error"
      BY <1>4 DEF Reset, Again, TypeOK, Entry
    <2>2. pc = "reset" /\ pc' = "next" /\ lastID' = 0 /\ result' = result
      BY <1>4 DEF Reset
    <2>3. \A p \in DOMAIN entries : ~ (entries[p].id <= 0)
      BY FS_CardinalityType DEF RowsOK
    <2> QED
      BY <2>1, <2>2, <2>3 DEF PassOK, YoungerThanParent, DirsUnlisted, ListingOf, Position,
                              Passed, ErrorsCounted, Reported
  <1>5. ASSUME NEW p \in Path, Pick(p) PROVE PassOK'
    BY <1>5, PassPick
  <1>6. CASE Finish
    BY <1>6, PassFinish
  <1>7. CASE Done \/ Permanent
    BY <1>7, PassRecord DEF Done, Permanent, State
  <1>8. CASE DiskFails
    BY <1>8, PassRecord DEF DiskFails, State
  <1>9. CASE Transient
    <2>1. CASE MayRetry
      BY <1>9, <2>1, PassWithin DEF Transient, ListingOf
    <2>2. CASE ~ MayRetry
      BY <1>9, <2>2, PassRecord DEF Transient, State
    <2> QED
      BY <2>1, <2>2
  <1>10. CASE ListDir
    <2>1. ListingOf'
      BY <1>10, PathsAssumption DEF ListDir, ListingOf, Listed
    <2> QED
      BY <1>10, <2>1, PassWithin DEF ListDir
  <1>11. ASSUME NEW p \in Path, Upsert(p) PROVE PassOK'
    BY <1>11, PassUpsert
  <1>12. CASE ListedAll \/ Retrieve \/ Receive \/ Rename
    BY <1>12, PassWithin DEF ListedAll, Retrieve, Receive, Rename, ListingOf
  <1>13. ASSUME NEW f \in Files, RemoteChange(f) \/ LocalLost(f) PROVE PassOK'
    BY <1>13, PassFrame DEF RemoteChange, LocalLost, Outside
  <1>14. CASE UNCHANGED vars
    BY <1>14, PassFrame DEF vars
  <1> QED
    BY <1>1, <1>2, <1>3, <1>4, <1>5, <1>6, <1>7, <1>8, <1>9, <1>10, <1>11, <1>12, <1>13, <1>14
    DEF Next, Mirror, Process

(* Started from directories only, a run that reports success leaves nothing
   within its scope pending or in error, for every tree, every bound, every
   interruption and every earlier scope (ftpmirror.go:414-443). *)
THEOREM PassIsComplete ==
  ASSUME Roots \subseteq Dirs
  PROVE  Spec => []NothingLeftPending
  <1>1. PassOK => NothingLeftPending
    BY DEF PassOK, Reported, NothingLeftPending
  <1>2. TypeOK /\ RowsOK /\ PassOK /\ [Next]_vars => PassOK'
    BY PassNext
  <1> QED
    BY <1>1, <1>2, TypeCorrect, PassInit, PTL DEF Spec

-----------------------------------------------------------------------------
(* A run writes the row and the file of the entry at hand only, which is
   pending; an upsert writes others, but with -update only. *)

CurPending ==
  /\ pc \in Working => entries[cur].state = "pending"
  /\ pc = "upsert" => cur \notin DOMAIN todo

THEOREM CurPendingNext == TypeOK /\ CurPending /\ [Next]_vars => CurPending'
  <1> SUFFICES ASSUME TypeOK, CurPending, [Next]_vars PROVE CurPending'
    OBVIOUS
  <1>1. CASE pc' \notin Working
    BY <1>1 DEF CurPending
  <1>2. ASSUME NEW p \in Path, Pick(p) PROVE CurPending'
    BY <1>2 DEF Pick, Work, CurPending
  <1>3. ASSUME NEW p \in Path, Upsert(p) PROVE CurPending'
    <2>1. p # cur /\ cur \in DOMAIN entries /\ pc = "upsert" /\ UNCHANGED <<cur, pc>>
      BY <1>3 DEF Upsert, CurPending, TypeOK
    <2>2. entries'[cur] = entries[cur]
      BY <1>3, <2>1 DEF Upsert, Upserted, Insert, TypeOK
    <2> QED
      BY <1>3, <2>1, <2>2 DEF CurPending, Upsert
  <1>4. CASE \/ Transient \/ ListDir \/ ListedAll \/ Retrieve \/ Receive \/ Rename
             \/ \E f \in Files : RemoteChange(f) \/ LocalLost(f)
             \/ UNCHANGED vars
    BY <1>1, <1>4 DEF CurPending, Transient, Record, ListDir, ListedAll, Retrieve, Receive, Rename,
       RemoteChange, LocalLost, Outside, vars
  <1>5. CASE \/ \E r \in Roots, u \in BOOLEAN : Begin(r, u)
             \/ AddRoot \/ AddRootFails \/ Reset \/ Finish \/ Done \/ Permanent \/ DiskFails
             \/ ConnectFails \/ Interrupted
    BY <1>1, <1>5 DEF Begin, AddRoot, AddRootFails, Reset, Finish, Done, Permanent, DiskFails,
       ConnectFails, Interrupted, Return, Record
  <1> QED
    BY <1>2, <1>3, <1>4, <1>5 DEF Next, Mirror, Process

LEMMA LeftAlone ==
  ASSUME TypeOK, CurPending, [Next]_vars, ~ update,
         NEW p \in DOMAIN entries, entries[p].state = "done"
  PROVE  /\ entries'[p] = entries[p]
         /\ p \in Files => local'[p] = local[p] \/ LocalLost(p)
  <1>1. pc \in Working => p # cur
    BY DEF CurPending
  <1>2. CASE AddRoot
    BY <1>2 DEF AddRoot, Insert
  <1>3. CASE Reset
    BY <1>3 DEF Reset, Again
  <1>4. CASE \E q \in Path : Upsert(q)
    BY <1>4 DEF Upsert, Upserted, Insert
  <1>5. CASE Done \/ Permanent \/ Transient \/ DiskFails
    BY <1>1, <1>5 DEF Done, Permanent, Transient, DiskFails, Record, TypeOK
  <1>6. CASE Rename
    BY <1>1, <1>6 DEF Rename, TypeOK
  <1>7. ASSUME NEW f \in Files, LocalLost(f)
        PROVE  entries' = entries /\ (p \in Files => local'[p] = local[p] \/ LocalLost(p))
    BY <1>7 DEF LocalLost, Outside, TypeOK
  <1>8. CASE UNCHANGED <<entries, local>>
    BY <1>8
  <1> QED
    BY <1>2, <1>3, <1>4, <1>5, <1>6, <1>7, <1>8
    DEF Next, Mirror, Process, Begin, AddRootFails, Interrupted, Return, Pick, Finish,
        ConnectFails, ListDir, ListedAll, Retrieve, Receive, RemoteChange, Outside, vars

(* Without -update nothing that is done is touched, in the table or on disk
   (ftpmirror.go:241-247, 381-383). *)
THEOREM DoneStaysDone == Spec => MirroredIsLeftAlone
  <1>1. Init => CurPending
    BY DEF Init, CurPending
  <1>2. TypeOK /\ CurPending /\ [Next]_vars =>
          [\A p \in DOMAIN entries :
             entries[p].state = "done" /\ ~ update =>
               /\ entries'[p] = entries[p]
               /\ p \in Files => local'[p] = local[p] \/ LocalLost(p)]_vars
    BY LeftAlone
  <1> QED
    BY <1>1, <1>2, CurPendingNext, TypeCorrect, PTL DEF Spec, MirroredIsLeftAlone

-----------------------------------------------------------------------------
(* A listing is recorded before its directory is done, so a directory that is
   done hides nothing.  This is certain while nothing on the server has ever
   changed, and within a run with -update, which takes up every directory. *)

ChildrenKnown(d) == \A p \in Path : Parent[p] = d /\ Exists(p) => p \in DOMAIN entries

Passing == pc \in Working \cup {"next"} \/ result = "ok"
Certain == changes = 0 \/ (quiet /\ update /\ Passing)

(* What the listing at hand has still to add, and where the run started. *)
ListingRest ==
  /\ quiet /\ pc = "upsert" =>
       /\ cur \in Dirs
       /\ \A p \in Path : Parent[p] = cur /\ Exists(p) => p \in DOMAIN todo \cup DOMAIN entries
  /\ quiet /\ pc = "mark" /\ cur \in Dirs => ChildrenKnown(cur)
RootKnown == pc = "reset" \/ Passing => root \in DOMAIN entries
History == (changes = 0 => quiet) /\ (result = "ok" => pc = "idle")
DoneIsKnown ==
  Certain => \A d \in Dirs \cap DOMAIN entries : entries[d].state = "done" => ChildrenKnown(d)

KnownOK == History /\ RootKnown /\ ListingRest /\ DoneIsKnown

LEMMA KnownStays ==
  ASSUME UNCHANGED remote, DOMAIN entries \subseteq DOMAIN entries', NEW d, ChildrenKnown(d)
  PROVE  ChildrenKnown(d)'
  BY DEF ChildrenKnown, Exists

(* Within the pass: rows are only added, and a directory becomes done only when
   its listing is recorded. *)
LEMMA KnownWithin ==
  ASSUME KnownOK, pc \in Working \cup {"next"}, pc' \in Working \cup {"next"},
         UNCHANGED <<remote, root, update, quiet, changes, result>>,
         DOMAIN entries \subseteq DOMAIN entries', ListingRest',
         \A d \in Dirs \cap DOMAIN entries' :
           entries'[d].state = "done" =>
             \/ d \in DOMAIN entries /\ entries[d].state = "done"
             \/ quiet => ChildrenKnown(d)
  PROVE  KnownOK'
  <1>1. History' /\ RootKnown'
    BY DEF KnownOK, History, RootKnown, Passing
  <1>2. DoneIsKnown'
    <2> SUFFICES ASSUME Certain', NEW d \in Dirs \cap DOMAIN entries', entries'[d].state = "done"
                 PROVE  ChildrenKnown(d)'
      BY DEF DoneIsKnown
    <2>1. Certain /\ quiet
      BY DEF Certain, Passing, KnownOK, History
    <2>2. ChildrenKnown(d)
      BY <2>1 DEF KnownOK, DoneIsKnown
    <2> QED
      BY <2>2, KnownStays
  <1> QED
    BY <1>1, <1>2 DEF KnownOK

LEMMA KnownReturn ==
  ASSUME KnownOK, NEW res \in {"none", "error", "ok"}, Return(res), res = "ok" => pc = "next"
  PROVE  KnownOK'
  <1>1. pc' = "idle" /\ result' = res /\ UNCHANGED <<entries, remote, root, update, quiet, changes>>
    BY DEF Return
  <1>2. Passing' => Passing
    BY <1>1 DEF Passing
  <1>3. \A d : ChildrenKnown(d)' <=> ChildrenKnown(d)
    BY <1>1 DEF ChildrenKnown, Exists
  <1> QED
    BY <1>1, <1>2, <1>3 DEF KnownOK, History, RootKnown, ListingRest, DoneIsKnown, Certain

LEMMA KnownRecord ==
  ASSUME TypeOK, KnownOK, NEW st \in State, pc \in Working, Record(st), st = "done" => pc = "mark"
  PROVE  KnownOK'
  <1>1. /\ DOMAIN entries' = DOMAIN entries
        /\ \A p \in DOMAIN entries : entries'[p].state = IF p = cur THEN st ELSE entries[p].state
    BY DEF Record, TypeOK, Entry
  <1>2. pc' = "next" /\ UNCHANGED <<remote, root, update, quiet, changes, result>>
    BY DEF Record
  <1>3. ListingRest'
    BY <1>2 DEF ListingRest
  <1>4. \A d \in Dirs \cap DOMAIN entries' :
          entries'[d].state = "done" =>
            \/ d \in DOMAIN entries /\ entries[d].state = "done"
            \/ quiet => ChildrenKnown(d)
    BY <1>1 DEF KnownOK, ListingRest
  <1> QED
    BY <1>1, <1>2, <1>3, <1>4, KnownWithin

LEMMA KnownFrame ==
  ASSUME KnownOK, UNCHANGED <<remote, entries, pc, cur, todo, call, result, quiet, changes>>
  PROVE  KnownOK'
  <1>1. \A d : ChildrenKnown(d)' <=> ChildrenKnown(d)
    BY DEF ChildrenKnown, Exists
  <1> QED
    BY <1>1 DEF KnownOK, History, RootKnown, ListingRest, DoneIsKnown, Certain, Passing, Exists

LEMMA KnownUpsert ==
  ASSUME TypeOK, KnownOK, NEW p \in Path, Upsert(p)
  PROVE  KnownOK'
  <1>1. /\ pc = "upsert" /\ pc' = "upsert" /\ DOMAIN todo' = DOMAIN todo \ {p}
        /\ UNCHANGED <<remote, cur, root, update, quiet, changes, result>>
    BY DEF Upsert
  <1>2. /\ DOMAIN entries' = DOMAIN entries \cup {p}
        /\ \A q \in DOMAIN entries : entries'[q].state \in {entries[q].state, "pending"}
        /\ p \notin DOMAIN entries => entries'[p].state = "pending"
    BY DEF Upsert, Upserted, Insert, TypeOK, Entry
  <1>3. ListingRest'
    BY <1>1, <1>2 DEF KnownOK, ListingRest, Exists
  <1> QED
    BY <1>1, <1>2, <1>3, KnownWithin

LEMMA KnownOutside ==
  ASSUME TypeOK, KnownOK, Outside
  PROVE  KnownOK'
  <1>1. ~ quiet' /\ changes' # 0 /\ UNCHANGED <<entries, pc, root, result>>
    BY DEF Outside, TypeOK
  <1> QED
    BY <1>1 DEF KnownOK, History, RootKnown, ListingRest, DoneIsKnown, Certain, Passing

THEOREM KnownNext == TypeOK /\ KnownOK /\ [Next]_vars => KnownOK'
  <1> SUFFICES ASSUME TypeOK, KnownOK, [Next]_vars PROVE KnownOK'
    OBVIOUS
  <1>1. ASSUME NEW r \in Roots, NEW u \in BOOLEAN, Begin(r, u) PROVE KnownOK'
    <2>1. pc' = "addRoot" /\ result' = "none" /\ quiet' /\ UNCHANGED <<entries, remote, changes>>
      BY <1>1 DEF Begin
    <2>2. Certain' => Certain
      BY <2>1 DEF Certain, Passing
    <2> QED
      BY <2>1, <2>2 DEF KnownOK, History, RootKnown, ListingRest, DoneIsKnown, Passing,
                        ChildrenKnown, Exists
  <1>2. CASE AddRoot
    <2>1. pc = "addRoot" /\ pc' = "reset" /\ UNCHANGED <<remote, root, update, quiet, changes, result>>
      BY <1>2 DEF AddRoot
    <2>2. /\ DOMAIN entries' = DOMAIN entries \cup {root}
          /\ \A q \in DOMAIN entries : entries'[q] = entries[q]
          /\ root \notin DOMAIN entries => entries'[root].state = "pending"
      BY <1>2 DEF AddRoot, Insert
    <2>3. result # "ok"
      BY <2>1 DEF KnownOK, History
    <2>4. DoneIsKnown'
      BY <2>1, <2>2, <2>3, KnownStays DEF KnownOK, DoneIsKnown, Certain, Passing
    <2> QED
      BY <2>1, <2>2, <2>3, <2>4 DEF KnownOK, History, RootKnown, ListingRest, Passing
  <1>3. CASE AddRootFails \/ ConnectFails \/ Interrupted
    BY <1>3, KnownReturn DEF AddRootFails, ConnectFails, Interrupted
  <1>4. CASE Finish
    BY <1>4, KnownReturn DEF Finish
  <1>5. CASE Reset
    <2>1. /\ pc = "reset" /\ pc' = "next"
          /\ UNCHANGED <<remote, root, update, quiet, changes, result>>
      BY <1>5 DEF Reset
    <2>2. /\ DOMAIN entries' = DOMAIN entries
          /\ \A d \in Dirs \cap DOMAIN entries :
               entries'[d].state = "done" => ~ update /\ entries[d].state = "done"
      BY <1>5 DEF Reset, Again, TypeOK, Entry
    <2>3. DoneIsKnown'
      BY <2>1, <2>2, KnownStays DEF KnownOK, DoneIsKnown, Certain
    <2> QED
      BY <2>1, <2>2, <2>3 DEF KnownOK, History, RootKnown, ListingRest
  <1>6. ASSUME NEW p \in Path, Pick(p) PROVE KnownOK'
    BY <1>6, KnownWithin DEF Pick, ListingRest
  <1>7. CASE Done \/ Permanent \/ DiskFails
    BY <1>7, KnownRecord DEF Done, Permanent, DiskFails, State
  <1>8. CASE Transient
    <2>1. CASE MayRetry
      BY <1>8, <2>1, KnownWithin DEF Transient, ListingRest
    <2>2. CASE ~ MayRetry
      BY <1>8, <2>2, KnownRecord DEF Transient, State
    <2> QED
      BY <2>1, <2>2
  <1>9. CASE ListDir
    <2>1. cur \in DOMAIN entries /\ cur \in Dirs
      BY <1>9 DEF ListDir, TypeOK
    <2>2. ListingRest'
      BY <1>9, <2>1 DEF ListDir, ListingRest, Exists
    <2> QED
      BY <1>9, <2>2, KnownWithin DEF ListDir
  <1>10. ASSUME NEW p \in Path, Upsert(p) PROVE KnownOK'
    BY <1>10, KnownUpsert
  <1>11. CASE ListedAll
    <2>1. ListingRest'
      BY <1>11 DEF ListedAll, KnownOK, ListingRest, ChildrenKnown, Exists
    <2> QED
      BY <1>11, <2>1, KnownWithin DEF ListedAll
  <1>12. CASE Retrieve \/ Receive \/ Rename
    <2>1. pc' = "receive" \/ (pc' = "mark" /\ cur' \notin Dirs)
      BY <1>12, PathsAssumption DEF Retrieve, Receive, Rename, TypeOK
    <2> QED
      BY <1>12, <2>1, KnownWithin DEF Retrieve, Receive, Rename, ListingRest
  <1>13. ASSUME NEW f \in Files, RemoteChange(f) \/ LocalLost(f) PROVE KnownOK'
    BY <1>13, KnownOutside DEF RemoteChange, LocalLost
  <1>14. CASE UNCHANGED vars
    BY <1>14, KnownFrame DEF vars
  <1> QED
    BY <1>1, <1>2, <1>3, <1>4, <1>5, <1>6, <1>7, <1>8, <1>9, <1>10, <1>11, <1>12, <1>13, <1>14
    DEF Next, Mirror, Process

(* A run that reports success, while nothing changed, has a row for everything
   the directories it went through hold, whatever was interrupted between a
   listing and its records (ftpmirror.go:460, 523-542). *)
THEOREM TreeIsKnown == Spec => []NothingMissed
  <1>1. Init => KnownOK
    BY DEF Init, KnownOK, History, RootKnown, ListingRest, DoneIsKnown, Passing
  <1>2. KnownOK => NothingMissed
    BY DEF KnownOK, RootKnown, DoneIsKnown, Certain, Passing, ChildrenKnown, NothingMissed
  <1> QED
    BY <1>1, <1>2, KnownNext, TypeCorrect, PTL DEF Spec

-----------------------------------------------------------------------------
(* With -update every file of a listing is compared with its row and its local
   copy before the directory is done; from then on its row says what the server
   has, and a download can only make the copy agree with the row. *)

Fresh(f) ==
  /\ entries[f].listed = remote[f]
  /\ entries[f].state = "done" => local[f].len = Size[remote[f]]

ListingCompared ==
  /\ pc = "upsert" =>
       /\ cur \in Dirs
       /\ \A p \in DOMAIN todo : Parent[p] = cur /\ todo[p] = Listed(p)
       /\ \A f \in Files \cap DOMAIN entries : Parent[f] = cur => f \in DOMAIN todo \/ Fresh(f)
  /\ pc = "mark" /\ cur \in Dirs =>
       \A f \in Files \cap DOMAIN entries : Parent[f] = cur => Fresh(f)
Downloading ==
  /\ pc = "receive" =>
       sent = remote[cur] /\ (entries[cur].listed = sent => partial[cur].len <= Size[sent])
  /\ pc = "mark" /\ cur \in Files /\ entries[cur].listed = remote[cur] =>
       local[cur].len = Size[remote[cur]]
FilesFresh ==
  Passing =>
    \A f \in Files \cap DOMAIN entries :
      Parent[f] \in DOMAIN entries /\ entries[Parent[f]].state = "done" => Fresh(f)

FreshOK == quiet /\ update => ListingCompared /\ Downloading /\ FilesFresh

LEMMA FreshStays ==
  ASSUME UNCHANGED remote, NEW f \in Files \cap DOMAIN entries, Fresh(f),
         entries'[f].listed = entries[f].listed,
         entries'[f].state = "done" =>
           /\ entries[f].state = "done" /\ local'[f].len = local[f].len
  PROVE  Fresh(f)'
  BY DEF Fresh

(* The run is over, or has only begun. *)
LEMMA FreshOutside ==
  ASSUME pc' \in {"idle", "addRoot", "reset"}, result' # "ok"
  PROVE  FreshOK'
  BY DEF FreshOK, ListingCompared, Downloading, FilesFresh, Passing

(* Within the pass, when neither the rows nor the files change. *)
LEMMA FreshWithin ==
  ASSUME FreshOK, Passing, UNCHANGED <<remote, entries, local, update, quiet>>,
         quiet /\ update => ListingCompared' /\ Downloading'
  PROVE  FreshOK'
  <1>1. \A f : Fresh(f)' <=> Fresh(f)
    BY DEF Fresh
  <1> QED
    BY <1>1 DEF FreshOK, FilesFresh

LEMMA FreshRecord ==
  ASSUME TypeOK, FreshOK, NEW st \in State, pc \in Working, Record(st), st = "done" => pc = "mark"
  PROVE  FreshOK'
  <1> SUFFICES ASSUME quiet, update PROVE ListingCompared' /\ Downloading' /\ FilesFresh'
    BY DEF FreshOK, Record
  <1>1. /\ DOMAIN entries' = DOMAIN entries
        /\ \A p \in DOMAIN entries :
             /\ entries'[p].listed = entries[p].listed
             /\ entries'[p].state = IF p = cur THEN st ELSE entries[p].state
    BY DEF Record, TypeOK, Entry
  <1>2. pc' = "next" /\ UNCHANGED <<remote, local>>
    BY DEF Record
  <1>3. ASSUME NEW f \in Files \cap DOMAIN entries, Parent[f] \in DOMAIN entries,
               entries'[Parent[f]].state = "done"
        PROVE  Fresh(f)'
    <2>1. Parent[f] \in Dirs /\ f \notin Dirs
      BY PathsAssumption DEF Path
    <2>2. CASE Parent[f] = cur
      <3>1. Fresh(f)
        BY <1>1, <1>3, <2>1, <2>2 DEF FreshOK, ListingCompared
      <3>2. f # cur
        BY <2>1, <2>2
      <3> QED
        BY <1>1, <1>2, <3>1, <3>2, FreshStays
    <2>3. CASE Parent[f] # cur
      <3>1. Fresh(f)
        BY <1>1, <1>3, <2>3 DEF FreshOK, FilesFresh, Passing
      <3>2. CASE f = cur /\ st = "done"
        <4>1. local[f].len = Size[remote[f]]
          BY <3>1, <3>2 DEF FreshOK, Downloading, Fresh
        <4> QED
          BY <1>1, <1>2, <3>1, <4>1 DEF Fresh
      <3>3. CASE f = cur /\ st # "done"
        BY <1>1, <1>2, <3>1, <3>3, FreshStays
      <3>4. CASE f # cur
        BY <1>1, <1>2, <3>1, <3>4, FreshStays
      <3> QED
        BY <3>2, <3>3, <3>4
    <2> QED
      BY <2>2, <2>3
  <1> QED
    BY <1>1, <1>2, <1>3 DEF ListingCompared, Downloading, FilesFresh

LEMMA FreshUpsert ==
  ASSUME TypeOK, PiecesOK, CurPending, FreshOK, NEW p \in Path, Upsert(p)
  PROVE  FreshOK'
  <1> SUFFICES ASSUME quiet, update PROVE ListingCompared' /\ Downloading' /\ FilesFresh'
    BY DEF FreshOK, Upsert
  <1>1. /\ pc = "upsert" /\ pc' = "upsert" /\ p \in DOMAIN todo
        /\ todo' = [q \in DOMAIN todo \ {p} |-> todo[q]]
        /\ entries' = Upserted(p) /\ UNCHANGED <<remote, local, cur>>
    BY DEF Upsert
  <1>2. /\ cur \in Dirs /\ Parent[p] = cur /\ todo[p] = Listed(p)
        /\ \A q \in DOMAIN todo : Parent[q] = cur /\ todo[q] = Listed(q)
        /\ \A f \in Files \cap DOMAIN entries : Parent[f] = cur => f \in DOMAIN todo \/ Fresh(f)
    BY <1>1 DEF FreshOK, ListingCompared
  <1>3. /\ DOMAIN entries' = DOMAIN entries \cup {p}
        /\ \A q \in DOMAIN entries \ {p} : entries'[q] = entries[q]
        /\ p \notin DOMAIN entries =>
             entries'[p].listed = todo[p] /\ entries'[p].state = "pending"
        /\ p \in DOMAIN entries =>
             \/ entries'[p] = entries[p] /\ ~ Changed(p, todo[p])
             \/ entries'[p].listed = todo[p] /\ entries'[p].state = "pending"
    BY <1>1 DEF Upserted, Insert, TypeOK, Entry
  <1>4. p \in Files => Fresh(p)'
    BY <1>1, <1>2, <1>3 DEF Changed, Listed, Fresh
  <1>5. \A f \in Files \cap DOMAIN entries : f # p /\ Fresh(f) => Fresh(f)'
    BY <1>1, <1>3, FreshStays
  <1>6. ListingCompared'
    <2>1. \A q \in DOMAIN todo' : Parent[q] = cur /\ todo'[q] = Listed(q)'
      BY <1>1, <1>2 DEF Listed
    <2>2. \A f \in Files \cap DOMAIN entries' : Parent[f] = cur => f \in DOMAIN todo' \/ Fresh(f)'
      BY <1>1, <1>2, <1>3, <1>4, <1>5
    <2> QED
      BY <1>1, <1>2, <2>1, <2>2 DEF ListingCompared
  <1>7. FilesFresh'
    <2> SUFFICES ASSUME NEW f \in Files \cap DOMAIN entries', Parent[f] \in DOMAIN entries',
                        entries'[Parent[f]].state = "done"
                 PROVE  Fresh(f)'
      BY DEF FilesFresh
    <2>1. CASE f = p
      BY <1>4, <2>1
    <2>2. CASE f # p
      <3>1. f \in DOMAIN entries
        BY <1>3, <2>2
      <3>2. Parent[f] \in DOMAIN entries /\ entries[Parent[f]].state = "done"
        BY <1>3
      <3>3. Fresh(f)
        BY <1>1, <3>1, <3>2 DEF FreshOK, FilesFresh, Passing
      <3> QED
        BY <1>5, <2>2, <3>1, <3>3
    <2> QED
      BY <2>1, <2>2
  <1> QED
    BY <1>1, <1>6, <1>7 DEF Downloading

LEMMA FreshRename ==
  ASSUME TypeOK, CurPending, FreshOK, Rename
  PROVE  FreshOK'
  <1> SUFFICES ASSUME quiet, update PROVE ListingCompared' /\ Downloading' /\ FilesFresh'
    BY DEF FreshOK, Rename
  <1>1. /\ pc = "receive" /\ pc' = "mark" /\ UNCHANGED <<remote, entries, cur>>
        /\ cur \in Files /\ cur \notin Dirs /\ cur \in DOMAIN entries
        /\ local'[cur] = partial[cur] /\ \A f \in Files \ {cur} : local'[f] = local[f]
    BY PathsAssumption DEF Rename, TypeOK
  <1>2. entries[cur].state = "pending"
    BY <1>1 DEF CurPending
  <1>3. ASSUME entries[cur].listed = remote[cur] PROVE local'[cur].len = Size[remote[cur]]
    <2>1. remote[cur] \in Version /\ remote[cur] = sent
      BY <1>1, <1>3 DEF FreshOK, Downloading, TypeOK
    <2>2. partial[cur].len <= Size[sent] /\ partial[cur].len >= Size[sent]
      BY <1>1, <1>3, <2>1 DEF FreshOK, Downloading, Rename
    <2>3. partial[cur].len \in Nat /\ Size[sent] \in Nat
      BY <1>1, <2>1, SizeAssumption DEF TypeOK, Content, Version
    <2> QED
      BY <1>1, <2>1, <2>2, <2>3
  <1>4. \A f \in Files \cap DOMAIN entries : Fresh(f) => Fresh(f)'
    BY <1>1, <1>2, FreshStays
  <1>5. FilesFresh'
    BY <1>1, <1>4 DEF FreshOK, FilesFresh, Passing
  <1> QED
    BY <1>1, <1>3, <1>5 DEF ListingCompared, Downloading

THEOREM FreshNext ==
  TypeOK /\ PiecesOK /\ CurPending /\ KnownOK /\ FreshOK /\ [Next]_vars => FreshOK'
  <1> SUFFICES ASSUME TypeOK, PiecesOK, CurPending, KnownOK, FreshOK, [Next]_vars
               PROVE  FreshOK'
    OBVIOUS
  <1>1. ASSUME NEW r \in Roots, NEW u \in BOOLEAN, Begin(r, u) PROVE FreshOK'
    BY <1>1, FreshOutside DEF Begin
  <1>2. CASE AddRoot
    BY <1>2, FreshOutside DEF AddRoot, KnownOK, History
  <1>3. CASE AddRootFails \/ ConnectFails \/ Interrupted
    BY <1>3, FreshOutside DEF AddRootFails, ConnectFails, Interrupted, Return
  <1>4. CASE Finish
    BY <1>4, FreshWithin DEF Finish, Return, Passing, ListingCompared, Downloading
  <1>5. CASE Reset
    <2>1. pc' = "next" /\ update' = update
      BY <1>5 DEF Reset
    <2>2. ASSUME update, NEW d \in Dirs \cap DOMAIN entries PROVE entries'[d].state = "pending"
      BY <1>5, <2>2 DEF Reset, Again, TypeOK, Entry
    <2>3. \A f \in Files : Parent[f] \in Dirs
      BY PathsAssumption DEF Path
    <2>4. update => FilesFresh'
      BY <1>5, <2>2, <2>3 DEF Reset, FilesFresh
    <2> QED
      BY <2>1, <2>4 DEF FreshOK, ListingCompared, Downloading
  <1>6. ASSUME NEW p \in Path, Pick(p) PROVE FreshOK'
    BY <1>6, FreshWithin DEF Pick, Passing, ListingCompared, Downloading
  <1>7. CASE Done \/ Permanent \/ DiskFails
    BY <1>7, FreshRecord DEF Done, Permanent, DiskFails, State
  <1>8. CASE Transient
    <2>1. CASE MayRetry
      BY <1>8, <2>1, FreshWithin DEF Transient, Passing, ListingCompared, Downloading
    <2>2. CASE ~ MayRetry
      BY <1>8, <2>2, FreshRecord DEF Transient, State
    <2> QED
      BY <2>1, <2>2
  <1>9. CASE ListDir
    <2>1. /\ pc = "ask" /\ pc' = "upsert" /\ cur \in Dirs
          /\ UNCHANGED <<remote, entries, local, cur, update, quiet>>
          /\ todo' = [p \in {q \in Path \ {cur} : Parent[q] = cur /\ Exists(q)} |-> Listed(p)]
      BY <1>9 DEF ListDir
    <2>2. ASSUME NEW f \in Files \cap DOMAIN entries, Parent[f] = cur PROVE f \in DOMAIN todo'
      <3>1. entries[f].listed \in 1 .. remote[f] /\ remote[f] \in Nat
        BY Versions DEF PiecesOK, ListedOK, TypeOK
      <3>2. Exists(f)
        BY <3>1 DEF Exists
      <3>3. f # cur /\ f \in Path
        BY <2>1, PathsAssumption DEF Path
      <3> QED
        BY <2>1, <2>2, <3>2, <3>3
    <2>3. \A p \in DOMAIN todo' : Parent[p] = cur /\ todo'[p] = Listed(p)'
      BY <2>1 DEF Listed
    <2>4. ListingCompared' /\ Downloading'
      BY <2>1, <2>2, <2>3 DEF ListingCompared, Downloading
    <2> QED
      BY <2>1, <2>4, FreshWithin DEF Passing
  <1>10. ASSUME NEW p \in Path, Upsert(p) PROVE FreshOK'
    BY <1>10, FreshUpsert
  <1>11. CASE ListedAll
    <2>1. pc = "upsert" /\ pc' = "mark" /\ DOMAIN todo = {}
          /\ UNCHANGED <<remote, entries, local, cur, update, quiet>>
      BY <1>11 DEF ListedAll
    <2>2. quiet /\ update => cur \in Dirs /\ ListingCompared'
      BY <2>1 DEF FreshOK, ListingCompared, Fresh
    <2>3. cur \in Dirs => Downloading'
      BY <2>1, PathsAssumption DEF Downloading
    <2> QED
      BY <2>1, <2>2, <2>3, FreshWithin DEF Passing
  <1>12. CASE Retrieve
    <2>1. /\ pc = "ask" /\ pc' = "receive" /\ sent' = remote[cur] /\ cur \in Files
          /\ UNCHANGED <<remote, entries, local, cur, update, quiet>>
          /\ partial'[cur] \in {Kept, Nothing} /\ remote[cur] \in Version
      BY <1>12 DEF Retrieve, TypeOK, Exists
    <2>2. entries[cur].listed = sent' => partial'[cur].len <= Size[sent']
      <3>1. Size[sent'] \in Nat /\ Nothing.len = 0 /\ partial[cur].len \in Nat
        BY <2>1, SizeAssumption DEF Nothing, TypeOK, Content, Version
      <3> QED
        BY <2>1, <3>1 DEF Kept
    <2> QED
      BY <2>1, <2>2, FreshWithin DEF Passing, ListingCompared, Downloading
  <1>13. CASE Receive
    <2>1. /\ pc = "receive" /\ pc' = "receive" /\ cur \in Files /\ sent \in Version
          /\ UNCHANGED <<remote, entries, local, cur, sent, update, quiet>>
          /\ partial'[cur].len = partial[cur].len + 1 /\ partial[cur].len < Size[sent]
      BY <1>13 DEF Receive, TypeOK
    <2>2. partial'[cur].len <= Size[sent]
      BY <2>1, SizeAssumption DEF TypeOK, Content, Version
    <2> QED
      BY <2>1, <2>2, FreshWithin DEF FreshOK, Passing, ListingCompared, Downloading
  <1>14. CASE Rename
    BY <1>14, FreshRename
  <1>15. ASSUME NEW f \in Files, RemoteChange(f) \/ LocalLost(f) PROVE FreshOK'
    BY <1>15 DEF RemoteChange, LocalLost, Outside, FreshOK
  <1>16. CASE UNCHANGED vars
    BY <1>16 DEF vars, FreshOK, ListingCompared, Downloading, FilesFresh, Passing, Fresh, Listed
  <1> QED
    BY <1>1, <1>2, <1>3, <1>4, <1>5, <1>6, <1>7, <1>8, <1>9, <1>10, <1>11, <1>12, <1>13,
       <1>14, <1>15, <1>16
    DEF Next, Mirror, Process

(* The version a download ends with: a transfer that is resumed has some of the
   file still to come, since it is resumed only below the listed size, and what
   comes is the version being sent, which is no older than the listed one. *)
Recent(f) == local[f] = Nothing \/ \E v \in local[f].of : entries[f].listed <= v

LatestOK ==
  /\ \A f \in Files : \A v \in partial[f].of \cup local[f].of : v <= remote[f]
  /\ pc = "receive" =>
       /\ entries[cur].listed <= sent
       /\ partial[cur].len < Size[entries[cur].listed] \/ sent \in partial[cur].of
  /\ pc = "mark" /\ cur \in Files => Recent(cur)
  /\ pc = "upsert" => cur \in Dirs
  /\ \A f \in Files \cap DOMAIN entries : entries[f].state = "done" => Recent(f)

(* Steps that neither change a file nor make a row done. *)
LEMMA LatestFrame ==
  ASSUME LatestOK, UNCHANGED <<remote, local, partial>>, pc' \notin {"receive", "mark"},
         pc' = "upsert" => cur' \in Dirs,
         \A f \in Files \cap DOMAIN entries' : entries'[f].state = "done" =>
            f \in DOMAIN entries /\ entries'[f] = entries[f]
  PROVE  LatestOK'
  BY DEF LatestOK, Recent

LEMMA LatestRecord ==
  ASSUME LatestOK, TypeOK, NEW st \in State, Record(st), UNCHANGED partial,
         pc \in Working, st = "done" /\ cur \in Files => Recent(cur)
  PROVE  LatestOK'
  <1>1. UNCHANGED <<remote, local, partial>> /\ pc' = "next"
    BY DEF Record
  <1>2. /\ DOMAIN entries' = DOMAIN entries /\ cur \in DOMAIN entries
        /\ entries'[cur].listed = entries[cur].listed /\ entries'[cur].state = st
        /\ \A p \in DOMAIN entries \ {cur} : entries'[p] = entries[p]
    BY DEF Record, TypeOK, Entry, Working
  <1>3. ASSUME NEW f \in Files \cap DOMAIN entries', entries'[f].state = "done"
        PROVE  Recent(f)'
    <2>1. CASE f = cur
      BY <1>1, <1>2, <1>3, <2>1 DEF Recent
    <2>2. CASE f # cur
      BY <1>1, <1>2, <1>3, <2>2 DEF LatestOK, Recent
    <2> QED
      BY <2>1, <2>2
  <1> QED
    BY <1>1, <1>3 DEF LatestOK

THEOREM LatestNext == TypeOK /\ PiecesOK /\ LatestOK /\ [Next]_vars => LatestOK'
  <1> SUFFICES ASSUME TypeOK, PiecesOK, LatestOK, [Next]_vars PROVE LatestOK'
    OBVIOUS
  <1>1. ASSUME NEW r \in Roots, NEW u \in BOOLEAN, Begin(r, u) PROVE LatestOK'
    BY <1>1, LatestFrame DEF Begin
  <1>2. CASE AddRoot
    BY <1>2, LatestFrame DEF AddRoot, Insert
  <1>3. CASE AddRootFails \/ ConnectFails \/ Finish \/ Interrupted
    BY <1>3, LatestFrame DEF AddRootFails, ConnectFails, Finish, Interrupted, Return
  <1>4. CASE Reset
    <2>1. \A f \in Files \cap DOMAIN entries' : entries'[f].state = "done" =>
             f \in DOMAIN entries /\ entries'[f] = entries[f]
      BY <1>4 DEF Reset, TypeOK, Entry
    <2> QED
      BY <1>4, <2>1, LatestFrame DEF Reset
  <1>5. ASSUME NEW p \in Path, Pick(p) PROVE LatestOK'
    BY <1>5, LatestFrame DEF Pick
  <1>6. CASE Permanent \/ DiskFails
    BY <1>6, LatestRecord DEF Permanent, DiskFails, State, Working
  <1>7. CASE Done
    BY <1>7, LatestRecord DEF Done, State, Working, LatestOK
  <1>8. CASE Transient
    <2>1. CASE MayRetry
      BY <1>8, <2>1, LatestFrame DEF Transient
    <2>2. CASE ~ MayRetry
      BY <1>8, <2>2, LatestRecord DEF Transient, State, Working
    <2> QED
      BY <2>1, <2>2
  <1>9. CASE ListDir
    BY <1>9, LatestFrame DEF ListDir
  <1>10. ASSUME NEW p \in Path, Upsert(p) PROVE LatestOK'
    <2>1. \A f \in Files \cap DOMAIN entries' : entries'[f].state = "done" =>
             f \in DOMAIN entries /\ entries'[f] = entries[f]
      BY <1>10 DEF Upsert, Upserted, Insert, TypeOK, Entry
    <2> QED
      BY <1>10, <2>1, LatestFrame DEF Upsert, LatestOK
  <1>11. CASE ListedAll
    <2>1. UNCHANGED <<entries, local, partial, remote, cur>> /\ pc' = "mark" /\ pc = "upsert"
      BY <1>11 DEF ListedAll
    <2>2. cur \notin Files
      BY <2>1, PathsAssumption DEF LatestOK
    <2> QED
      BY <2>1, <2>2 DEF LatestOK, Recent
  <1>12. CASE Retrieve
    <2>1. /\ cur \in Files \cap DOMAIN entries /\ sent' = remote[cur] /\ pc' = "receive"
          /\ UNCHANGED <<entries, local, remote, cur>>
      BY <1>12 DEF Retrieve, TypeOK
    <2>2. /\ partial'[cur] \in {Kept, Nothing}
          /\ \A f \in Files \ {cur} : partial'[f] = partial[f]
      BY <1>12, <2>1 DEF Retrieve, TypeOK
    <2>3. entries[cur].listed \in 1 .. remote[cur]
      BY <2>1 DEF PiecesOK, ListedOK
    <2>4. Size[entries[cur].listed] \in Nat \ {0}
      BY <2>1, <2>3, SizeAssumption DEF TypeOK, Entry, Version
    <2>5. partial'[cur].len < Size[entries[cur].listed] /\ partial'[cur].of \subseteq partial[cur].of
      BY <2>2, <2>4 DEF Kept, Nothing
    <2>6. \A f \in Files : \A v \in partial'[f].of \cup local[f].of : v <= remote[f]
      BY <2>2, <2>5 DEF LatestOK
    <2> QED
      BY <2>1, <2>3, <2>5, <2>6 DEF LatestOK, Recent
  <1>13. CASE Receive
    <2>1. /\ cur \in Files /\ pc = "receive" /\ pc' = "receive" /\ sent \in Version
          /\ UNCHANGED <<entries, local, remote, cur, sent>>
      BY <1>13 DEF Receive, TypeOK
    <2>2. /\ partial'[cur].of = partial[cur].of \cup {sent}
          /\ \A f \in Files \ {cur} : partial'[f] = partial[f]
      BY <1>13, <2>1 DEF Receive, TypeOK
    <2>3. \A f \in Files : \A v \in partial'[f].of \cup local[f].of : v <= remote[f]
      BY <2>1, <2>2 DEF LatestOK, PiecesOK
    <2> QED
      BY <2>1, <2>2, <2>3 DEF LatestOK, Recent
  <1>14. CASE Rename
    <2>1. /\ cur \in Files \cap DOMAIN entries /\ pc = "receive" /\ pc' = "mark"
          /\ UNCHANGED <<entries, remote, cur>>
      BY <1>14 DEF Rename, TypeOK
    <2>2. /\ local'[cur] = partial[cur] /\ partial'[cur] = Nothing
          /\ \A f \in Files \ {cur} : local'[f] = local[f] /\ partial'[f] = partial[f]
      BY <1>14, <2>1 DEF Rename, TypeOK
    <2>3. partial[cur].len >= Size[entries[cur].listed]
      BY <1>14 DEF Rename
    <2>4. partial[cur].len \in Nat /\ Size[entries[cur].listed] \in Nat
      BY <2>1, SizeAssumption DEF TypeOK, Content, PiecesOK, ListedOK, Entry, Version
    <2>5. sent \in partial[cur].of /\ entries[cur].listed <= sent
      BY <2>1, <2>3, <2>4 DEF LatestOK
    <2>6. Recent(cur)'
      BY <2>1, <2>2, <2>5 DEF Recent
    <2>7. \A f \in Files : \A v \in partial'[f].of \cup local'[f].of : v <= remote[f]
      BY <2>1, <2>2 DEF LatestOK, Nothing
    <2>8. ASSUME NEW f \in Files \cap DOMAIN entries, entries[f].state = "done"
          PROVE  Recent(f)'
      BY <2>1, <2>2, <2>6, <2>8 DEF LatestOK, Recent
    <2> QED
      BY <2>1, <2>6, <2>7, <2>8 DEF LatestOK
  <1>15. ASSUME NEW f \in Files, RemoteChange(f) PROVE LatestOK'
    <2>1. \A g \in Files : remote[g] \in Nat /\ remote'[g] \in Nat /\ remote[g] <= remote'[g]
      BY <1>15, Versions DEF RemoteChange, TypeOK
    <2>2. UNCHANGED <<entries, local, partial, pc, cur, sent>>
      BY <1>15 DEF RemoteChange, Outside
    <2>3. \A g \in Files : partial[g].of \cup local[g].of \subseteq Nat
      BY Versions DEF TypeOK, Content
    <2>4. \A g \in Files : \A v \in partial[g].of \cup local[g].of : v <= remote'[g]
      BY <2>1, <2>3 DEF LatestOK
    <2> QED
      BY <2>2, <2>4 DEF LatestOK, Recent
  <1>16. ASSUME NEW f \in Files, LocalLost(f) PROVE LatestOK'
    <2>1. /\ local'[f] = Nothing /\ \A g \in Files \ {f} : local'[g] = local[g]
          /\ UNCHANGED <<remote, entries, partial, pc, cur, sent>>
      BY <1>16 DEF LocalLost, Outside, TypeOK
    <2>2. \A g \in Files : \A v \in partial[g].of \cup local'[g].of : v <= remote[g]
      BY <2>1 DEF LatestOK, Nothing
    <2>3. \A g \in Files : Recent(g) => Recent(g)'
      BY <2>1 DEF Recent
    <2> QED
      BY <2>1, <2>2, <2>3 DEF LatestOK
  <1>17. CASE UNCHANGED vars
    BY <1>17 DEF vars, LatestOK, Recent
  <1> QED
    BY <1>1, <1>2, <1>3, <1>4, <1>5, <1>6, <1>7, <1>8, <1>9, <1>10, <1>11, <1>12, <1>13,
       <1>14, <1>15, <1>16, <1>17
    DEF Next, Mirror, Process

(* After a successful update during which nothing changed, a file that is done
   in a directory that is done has the version the server has in its row, its
   length, and at least its last pieces, whatever was downloaded, lost or half
   recorded before (ftpmirror.go:384-388, 635-641). *)
THEOREM UpdateBringsCurrent == Spec => []UpdateIsCurrent
  <1>1. Init => FreshOK /\ CurPending /\ KnownOK /\ LatestOK
    BY DEF Init, FreshOK, CurPending, KnownOK, History, RootKnown, ListingRest, DoneIsKnown, Passing,
       LatestOK, Nothing
  <1>2. ASSUME TypeOK, FreshOK, PiecesOK, LatestOK PROVE UpdateIsCurrent
    <2> SUFFICES ASSUME result = "ok", update, quiet,
                        NEW f \in Files \cap DOMAIN entries, UpdateCovers(f)
                 PROVE  /\ entries[f].listed = remote[f]
                        /\ local[f].len = Size[remote[f]] /\ remote[f] \in local[f].of
      BY DEF UpdateIsCurrent
    <2>1. entries[f].listed = remote[f] /\ local[f].len = Size[remote[f]]
      <3>1. FilesFresh
        BY <1>2, Zenon DEF FreshOK
      <3>2. entries[f].state = "done" /\ Fresh(f)
        BY <3>1, Zenon DEF FilesFresh, Passing, UpdateCovers
      <3> QED
        BY <3>2 DEF Fresh
    <2>2. remote[f] \in Version /\ Size[remote[f]] \in Nat \ {0}
      BY <1>2, <2>1, SizeAssumption DEF PiecesOK, ListedOK, TypeOK, Version
    <2>3. local[f] # Nothing
      BY <2>1, <2>2 DEF Nothing
    <2>4. PICK v \in local[f].of : remote[f] <= v
      BY <1>2, <2>1, <2>3 DEF LatestOK, Recent, UpdateCovers
    <2>5. v <= remote[f] /\ v \in Nat /\ remote[f] \in Nat
      BY <1>2, <2>2, <2>4, Versions DEF LatestOK, TypeOK, Content
    <2> QED
      BY <2>1, <2>4, <2>5
  <1> QED
    BY <1>1, <1>2, FreshNext, KnownNext, CurPendingNext, LatestNext, PiecesInit, PiecesNext,
       TypeCorrect, PTL DEF Spec
=============================================================================
