--------------------------- MODULE HttpCrawlProofs ---------------------------
(***************************************************************************)
(* What holds of the crawl of httpmirror for every site, every scope, and  *)
(* any number of runs, attempts, changes and interruptions.  Where one     *)
(* directory is mirrored from start URLs of different scopes, only part of *)
(* it holds; these theorems say so.                                        *)
(***************************************************************************)
EXTENDS HttpCrawl, FiniteSetTheorems, TLAPS

USE DEF disk, call, loop, refs, world

Working == {"fetch", "record"}
USE DEF Working

-----------------------------------------------------------------------------
(* What the steps do to the rows of urls. *)

(* enqueue leaves rows alone but for making them pages, and adds at most one. *)
Entered(u, asRequisite) ==
  /\ DOMAIN urls \subseteq DOMAIN urls' /\ DOMAIN urls' \subseteq DOMAIN urls \cup {u}
  /\ (u \in DOMAIN urls' <=> u \in DOMAIN urls \/ asRequisite \/ InScope(u))
  /\ urls' \in [DOMAIN urls' -> Row]
  /\ \A v \in DOMAIN urls :
       /\ urls'[v].id = urls[v].id /\ urls'[v].state = urls[v].state
       /\ urls'[v].etag = urls[v].etag
       /\ (urls'[v].requisite => urls[v].requisite)
       /\ (urls[v].requisite /\ ~ urls'[v].requisite => InScope(v))
  /\ u \notin DOMAIN urls =>
       \A v \in DOMAIN urls' \ DOMAIN urls :
         /\ urls'[v].id = Cardinality(DOMAIN urls) + 1 /\ urls'[v].state = "pending"
         /\ urls'[v].etag = 0 /\ urls'[v].requisite = asRequisite

(* An attempt that ends leaves all rows alone but its own. *)
Settled(st, tag) ==
  /\ DOMAIN urls' = DOMAIN urls
  /\ urls' \in [DOMAIN urls' -> Row]
  /\ \A v \in DOMAIN urls :
       /\ urls'[v].id = urls[v].id /\ urls'[v].requisite = urls[v].requisite
       /\ v # cur => urls'[v] = urls[v]
  /\ urls'[cur].state = st /\ urls'[cur].etag = tag

(* The beginning of a run gives rows back their work. *)
Restarted ==
  /\ DOMAIN urls' = DOMAIN urls
  /\ urls' \in [DOMAIN urls' -> Row]
  /\ \A v \in DOMAIN urls :
       /\ urls'[v].id = urls[v].id /\ urls'[v].requisite = urls[v].requisite
       /\ urls'[v].etag = urls[v].etag
       /\ urls'[v].state = IF Again(v) THEN "pending" ELSE urls[v].state

LEMMA EnqueueEnters ==
  ASSUME TypeOK, IsFiniteSet(DOMAIN urls), NEW u \in Url, NEW b \in BOOLEAN, urls' = Enqueued(u, b)
  PROVE  Entered(u, b)
  <1>1. Cardinality(DOMAIN urls) \in Nat
    BY FS_CardinalityType
  <1>2. CASE ~ (b \/ InScope(u))
    BY <1>2 DEF Enqueued, Entered, TypeOK
  <1>3. CASE b \/ InScope(u)
    <2>1. urls' = Inserted(u, b)
      BY <1>3 DEF Enqueued
    <2>2. DOMAIN urls' = DOMAIN urls \cup {u}
      BY <2>1 DEF Inserted
    <2>3. ASSUME NEW v \in DOMAIN urls, v # u PROVE urls'[v] = urls[v]
      BY <2>1, <2>3 DEF Inserted
    <2>4. ASSUME u \in DOMAIN urls
          PROVE  urls'[u] = [urls[u] EXCEPT !.requisite = @ /\ b]
      BY <2>1, <2>4 DEF Inserted
    <2>5. ASSUME u \in DOMAIN urls
          PROVE  /\ urls'[u] \in Row
                 /\ urls'[u].id = urls[u].id /\ urls'[u].state = urls[u].state
                 /\ urls'[u].etag = urls[u].etag
                 /\ urls'[u].requisite = (urls[u].requisite /\ b)
      BY <2>4, <2>5 DEF TypeOK, Row
    <2>6. ASSUME u \notin DOMAIN urls
          PROVE  urls'[u] = [id |-> Cardinality(DOMAIN urls) + 1, requisite |-> b,
                             state |-> "pending", etag |-> 0]
      BY <2>1, <2>6 DEF Inserted
    <2>7. u \notin DOMAIN urls => urls'[u] \in Row
      BY <1>1, <2>6 DEF Row, State
    <2>8. ASSUME NEW v \in DOMAIN urls' PROVE urls'[v] \in Row
      BY <2>2, <2>3, <2>5, <2>7 DEF TypeOK
    <2>9. urls' \in [DOMAIN urls' -> Row]
      BY <2>1, <2>8 DEF Inserted
    <2>10. ASSUME NEW v \in DOMAIN urls
           PROVE  /\ urls'[v].id = urls[v].id /\ urls'[v].state = urls[v].state
                  /\ urls'[v].etag = urls[v].etag
                  /\ (urls'[v].requisite => urls[v].requisite)
                  /\ (urls[v].requisite /\ ~ urls'[v].requisite => InScope(v))
      BY <1>3, <2>3, <2>5
    <2> QED
      BY <1>3, <2>2, <2>6, <2>9, <2>10 DEF Entered
  <1> QED
    BY <1>2, <1>3

LEMMA RecordSettles ==
  ASSUME TypeOK, cur \in DOMAIN urls, NEW st \in State
  PROVE  /\ Record([urls[cur] EXCEPT !.state = st]) => Settled(st, urls[cur].etag)
         /\ Record([urls[cur] EXCEPT !.state = st, !.etag = etag]) => Settled(st, etag)
  <1> DEFINE Row1(tag) == [urls[cur] EXCEPT !.state = st, !.etag = tag]
  <1>1. urls[cur] \in Row /\ urls[cur].etag \in Nat /\ etag \in Nat
    BY DEF TypeOK, Row
  <1>2. [urls[cur] EXCEPT !.state = st] = Row1(urls[cur].etag)
    BY <1>1 DEF Row
  <1>3. ASSUME NEW tag \in Nat, urls' = [urls EXCEPT ![cur] = Row1(tag)] PROVE Settled(st, tag)
    <2>1. /\ Row1(tag) \in Row
          /\ Row1(tag).id = urls[cur].id /\ Row1(tag).requisite = urls[cur].requisite
          /\ Row1(tag).state = st /\ Row1(tag).etag = tag
      BY <1>1 DEF Row
    <2> HIDE DEF Row1
    <2> QED
      BY <1>3, <2>1 DEF Settled, TypeOK
  <1> QED
    BY <1>1, <1>2, <1>3 DEF Record

LEMMA ResetRestarts ==
  ASSUME TypeOK, Reset
  PROVE  Restarted
  <1>1. DOMAIN urls' = DOMAIN urls
    BY DEF Reset
  <1>2. ASSUME NEW v \in DOMAIN urls
        PROVE  /\ urls'[v] \in Row
               /\ urls'[v].id = urls[v].id /\ urls'[v].requisite = urls[v].requisite
               /\ urls'[v].etag = urls[v].etag
               /\ urls'[v].state = IF Again(v) THEN "pending" ELSE urls[v].state
    BY DEF Reset, TypeOK, Row, State
  <1>3. urls' \in [DOMAIN urls' -> Row]
    BY <1>1, <1>2 DEF Reset
  <1> QED
    BY <1>1, <1>2, <1>3 DEF Restarted

(* Every step does one of these things, or leaves the rows as they are. *)
LEMMA RowEffect ==
  ASSUME TypeOK, IsFiniteSet(DOMAIN urls), [Next]_vars
  PROVE  \/ UNCHANGED urls
         \/ \E u \in Url, b \in BOOLEAN : Entered(u, b)
         \/ \E st \in State, tag \in Nat : Settled(st, tag)
         \/ Restarted
  <1>1. CASE Reset
    BY <1>1, ResetRestarts
  <1>2. CASE EnqueueRoot
    BY <1>2, EnqueueEnters DEF EnqueueRoot, TypeOK
  <1>3. ASSUME NEW u \in Url, EnqueueLink(u) \/ EnqueueRequisite(u)
        PROVE  Entered(u, FALSE) \/ Entered(u, TRUE)
    BY <1>3, EnqueueEnters DEF EnqueueLink, EnqueueRequisite
  <1>4. CASE Gone \/ Transient \/ DiskFails \/ MarkDone
    <2>1. \/ UNCHANGED urls
          \/ pc \in Working /\ \E st \in State :
               \/ Record([urls[cur] EXCEPT !.state = st])
               \/ Record([urls[cur] EXCEPT !.state = st, !.etag = etag])
      BY <1>4 DEF Gone, Transient, DiskFails, GiveUp, MarkDone, State
    <2>2. pc \in Working => cur \in DOMAIN urls /\ urls[cur].etag \in Nat /\ etag \in Nat
      BY DEF TypeOK, Row
    <2> QED
      BY <2>1, <2>2, RecordSettles
  <1> QED
    BY <1>1, <1>2, <1>3, <1>4
    DEF Next, Mirror, Process, Begin, ResolveStart, ResolveFails, Return, Pick, Finish,
        NotModified, Redirected, ListingRead, Saved, ToRecord, Interrupted, SiteChange,
        FileLost, Outside, vars

-----------------------------------------------------------------------------
(* The rows are the rows of a table: finitely many, numbered as they came. *)
RowsOK ==
  /\ IsFiniteSet(DOMAIN urls)
  /\ \A u \in DOMAIN urls : urls[u].id \in 1 .. Cardinality(DOMAIN urls)
  /\ \A u, v \in DOMAIN urls : urls[u].id = urls[v].id => u = v

LEMMA RowsNext == TypeOK /\ RowsOK /\ [Next]_vars => RowsOK'
  <1> SUFFICES ASSUME TypeOK, RowsOK, [Next]_vars PROVE RowsOK'
    OBVIOUS
  <1>1. CASE /\ DOMAIN urls' = DOMAIN urls
             /\ \A v \in DOMAIN urls : urls'[v].id = urls[v].id
    BY <1>1 DEF RowsOK
  <1>2. ASSUME NEW u \in Url, NEW b \in BOOLEAN, Entered(u, b), u \in DOMAIN urls' \ DOMAIN urls
        PROVE  RowsOK'
    <2>1. DOMAIN urls' = DOMAIN urls \cup {u}
      BY <1>2 DEF Entered
    <2>2. /\ IsFiniteSet(DOMAIN urls')
          /\ Cardinality(DOMAIN urls) \in Nat
          /\ Cardinality(DOMAIN urls') = Cardinality(DOMAIN urls) + 1
      BY <1>2, <2>1, FS_AddElement, FS_CardinalityType DEF RowsOK
    <2>3. /\ urls'[u].id = Cardinality(DOMAIN urls) + 1
          /\ \A v \in DOMAIN urls : urls'[v].id = urls[v].id
      BY <1>2 DEF Entered
    <2>4. \A v \in DOMAIN urls : urls'[v].id \in 1 .. Cardinality(DOMAIN urls)
      BY <2>3 DEF RowsOK
    <2>5. \A v \in DOMAIN urls' : urls'[v].id \in 1 .. Cardinality(DOMAIN urls')
      BY <2>1, <2>2, <2>3, <2>4
    <2>6. ASSUME NEW v \in DOMAIN urls', NEW w \in DOMAIN urls', urls'[v].id = urls'[w].id
          PROVE  v = w
      <3>1. CASE v = u \/ w = u
        BY <2>1, <2>2, <2>3, <2>4, <2>6, <3>1
      <3>2. CASE v # u /\ w # u
        BY <2>1, <2>3, <2>6, <3>2 DEF RowsOK
      <3> QED
        BY <3>1, <3>2
    <2> QED
      BY <2>2, <2>5, <2>6 DEF RowsOK
  <1>3. ASSUME NEW u \in Url, NEW b \in BOOLEAN, Entered(u, b), u \notin DOMAIN urls' \ DOMAIN urls
        PROVE  RowsOK'
    <2>1. DOMAIN urls' = DOMAIN urls
      BY <1>3 DEF Entered
    <2> QED
      BY <1>1, <1>3, <2>1 DEF Entered
  <1>4. ASSUME NEW st \in State, NEW tag \in Nat, Settled(st, tag) PROVE RowsOK'
    BY <1>1, <1>4 DEF Settled
  <1>5. CASE Restarted
    BY <1>1, <1>5 DEF Restarted
  <1>6. IsFiniteSet(DOMAIN urls)
    BY DEF RowsOK
  <1> QED
    BY <1>1, <1>2, <1>3, <1>4, <1>5, <1>6, RowEffect

-----------------------------------------------------------------------------
(* Types. *)

LEMMA PageType ==
  ASSUME TypeOK, NEW u \in Url
  PROVE  /\ PageOf(u) \in Page /\ PageOf(u).links \subseteq Url /\ PageOf(u).reqs \subseteq Url
         /\ PageOf(u).kind = "redirect" => \E l \in Url : PageOf(u).links = {l}
  <1>1. Site[u] \in Seq(Page) /\ serve[u] \in DOMAIN Site[u]
    BY SiteAssumption DEF TypeOK
  <1>2. Site[u][serve[u]] \in Page
    BY <1>1
  <1> QED
    BY <1>1, <1>2, RedirectsAssumption DEF PageOf, Page

LEMMA HopType ==
  ASSUME TypeOK, NEW u \in Url
  PROVE  Hop(u) \in Url
  BY PageType DEF Hop

(* The requests that follow redirects end at a URL. *)
LEMMA ResolvedType ==
  ASSUME TypeOK, NEW u \in Url
  PROVE  Resolved(u) \in Url
  <1>1. \A v \in Url : TwoHops(v) \in Url
    BY HopType DEF TwoHops
  <1>2. \A v \in Url : FiveHops(v) \in Url
    BY <1>1, HopType DEF FiveHops
  <1> QED
    BY <1>2 DEF Resolved

LEMMA RefsType ==
  ASSUME TypeOK, NEW u \in Url
  PROVE  LinksOf(u) \subseteq Url /\ ReqsOf(u) \subseteq Url
  BY PageType DEF LinksOf, ReqsOf

LEMMA TypeInit == Init => TypeOK /\ RowsOK
  <1> SUFFICES ASSUME Init PROVE TypeOK /\ RowsOK
    OBVIOUS
  <1>1. DOMAIN urls = {} /\ DOMAIN meta = {}
    BY DEF Init
  <1>2. RowsOK
    BY <1>1, FS_EmptySet DEF RowsOK
  <1>3. \A u \in Url : 1 \in DOMAIN Site[u]
    <2>1. ASSUME NEW u \in Url PROVE 1 \in DOMAIN Site[u]
      <3>1. Site[u] \in Seq(Page) /\ Site[u] # <<>>
        BY SiteAssumption
      <3> QED
        BY <3>1
    <2> QED
      BY <2>1
  <1>4. serve \in [Url -> Nat] /\ \A u \in Url : serve[u] \in DOMAIN Site[u]
    BY <1>3 DEF Init
  <1>5. urls \in [DOMAIN urls -> Row] /\ meta \in [DOMAIN meta -> Url] /\ files \in [Url -> Nat]
    BY DEF Init
  <1>6. start \in Starts /\ root \in Url /\ cur \in Url
    BY StartsAssumption DEF Init
  <1>7. attempt \in 1 .. MaxAttempts /\ runs \in 0 .. MaxRuns /\ changes \in 0 .. MaxChanges
    BY BoundsAssumption DEF Init
  <1>8. /\ lastID \in Nat /\ errors \in BOOLEAN /\ update \in BOOLEAN /\ requisite \in BOOLEAN
        /\ links \subseteq Url /\ reqs \subseteq Url /\ etag \in Nat
    BY DEF Init
  <1>9. pc = "idle" /\ result \in {"none", "ok", "error"} /\ quiet \in BOOLEAN
    BY DEF Init
  <1> QED
    BY <1>1, <1>2, <1>4, <1>5, <1>6, <1>7, <1>8, <1>9 DEF TypeOK

LEMMA ReturnType ==
  ASSUME TypeOK, NEW res \in {"none", "ok", "error"}, Return(res)
  PROVE  TypeOK'
  <1>1. cur' \in Url /\ attempt' \in 1 .. MaxAttempts
    BY StartsAssumption, BoundsAssumption DEF Return, TypeOK
  <1> QED
    BY <1>1 DEF Return, TypeOK

LEMMA SettledType ==
  ASSUME TypeOK, NEW st \in State, NEW tag \in Nat, Settled(st, tag), pc' = "next",
         links' = {}, reqs' = {}, etag' = 0, errors' \in BOOLEAN,
         UNCHANGED <<files, meta, call, lastID, cur, requisite, attempt, result, world>>
  PROVE  TypeOK'
  BY DEF TypeOK, Settled

LEMMA ToRecordType ==
  ASSUME TypeOK, pc = "fetch", NEW ls \in SUBSET Url, NEW rs \in SUBSET Url, NEW tag \in Nat,
         ToRecord(ls, rs, tag), urls' = urls, files' \in [Url -> Nat]
  PROVE  TypeOK'
  BY DEF TypeOK, ToRecord

LEMMA EnteredType ==
  ASSUME TypeOK, NEW u \in Url, NEW b \in BOOLEAN, Entered(u, b),
         UNCHANGED <<files, meta, call, loop, cur, requisite, attempt, result, world>>,
         links' \subseteq Url, reqs' \subseteq Url, etag' \in Nat, pc' \in {pc, "next"}
  PROVE  TypeOK'
  BY DEF TypeOK, Entered

LEMMA TypeNext == TypeOK /\ RowsOK /\ [Next]_vars => TypeOK'
  <1> SUFFICES ASSUME TypeOK, RowsOK, [Next]_vars PROVE TypeOK'
    OBVIOUS
  <1>a. IsFiniteSet(DOMAIN urls)
    BY DEF RowsOK
  <1>1. ASSUME NEW s \in Starts, NEW u \in BOOLEAN, Begin(s, u) PROVE TypeOK'
    BY <1>1, BoundsAssumption, StartsAssumption DEF TypeOK, Begin
  <1>2. CASE ResolveStart
    <2>1. root' \in Url
      BY <1>2, StartsAssumption, ResolvedType DEF ResolveStart, TypeOK
    <2>2. DOMAIN meta' = DOMAIN meta \cup {start}
      BY <1>2 DEF ResolveStart
    <2>3. meta' \in [DOMAIN meta' -> Url]
      BY <1>2, <2>1, <2>2 DEF ResolveStart, TypeOK
    <2> QED
      BY <1>2, <2>1, <2>2, <2>3 DEF ResolveStart, TypeOK
  <1>3. CASE ResolveFails
    BY <1>3, ReturnType DEF ResolveFails
  <1>4. CASE Reset
    <2>1. Restarted
      BY <1>4, ResetRestarts
    <2> QED
      BY <1>4, <2>1 DEF TypeOK, Reset, Restarted
  <1>5. CASE EnqueueRoot
    <2>1. Entered(root, FALSE) /\ root \in Url
      BY <1>a, <1>5, EnqueueEnters DEF EnqueueRoot, TypeOK
    <2> QED
      BY <1>5, <2>1, EnteredType DEF EnqueueRoot, TypeOK
  <1>6. ASSUME NEW u \in Url, Pick(u) PROVE TypeOK'
    <2>1. u \in DOMAIN urls /\ urls[u].id \in Nat /\ urls[u].requisite \in BOOLEAN
      BY <1>6 DEF Pick, Work, TypeOK, Row
    <2> QED
      BY <1>6, <2>1, BoundsAssumption DEF TypeOK, Pick
  <1>7. CASE Finish
    BY <1>7, ReturnType DEF Finish
  <1>8. CASE Gone
    <2>1. Settled("failed", urls[cur].etag) /\ urls[cur].etag \in Nat
      BY <1>8, RecordSettles DEF Gone, TypeOK, State, Row
    <2> QED
      BY <1>8, <2>1, SettledType DEF Gone, Record, State, TypeOK
  <1>9. ASSUME pc \in Working, GiveUp PROVE TypeOK'
    <2>1. Settled("error", urls[cur].etag) /\ urls[cur].etag \in Nat
      BY <1>9, RecordSettles DEF GiveUp, TypeOK, State, Row
    <2> QED
      BY <1>9, <2>1, SettledType DEF GiveUp, Record, State
  <1>10. CASE Transient
    <2>1. CASE MayRetry
      <3>1. attempt' \in 1 .. MaxAttempts
        BY <1>10, <2>1, BoundsAssumption DEF Transient, MayRetry, Retry, TypeOK
      <3> QED
        BY <1>10, <2>1, <3>1 DEF Transient, TypeOK
    <2>2. CASE ~ MayRetry
      BY <1>9, <1>10, <2>2 DEF Transient
    <2> QED
      BY <2>1, <2>2
  <1>11. CASE DiskFails
    BY <1>9, <1>11 DEF DiskFails
  <1>12. CASE NotModified
    <2>1. urls[cur].etag \in Nat
      BY <1>12 DEF NotModified, TypeOK, Row
    <2> QED
      BY <1>12, <2>1, ToRecordType DEF NotModified, TypeOK
  <1>13. CASE Redirected
    <2>1. PageOf(cur).links \subseteq Url
      BY PageType DEF TypeOK
    <2>2. PICK ls \in SUBSET Url, rs \in SUBSET Url : ToRecord(ls, rs, 0)
      BY <1>13, <2>1 DEF Redirected
    <2> QED
      BY <1>13, <2>2, ToRecordType DEF Redirected, TypeOK
  <1>14. CASE ListingRead
    <2>1. LinksOf(cur) \subseteq Url
      BY RefsType DEF TypeOK
    <2> QED
      BY <1>14, <2>1, ToRecordType DEF ListingRead, TypeOK
  <1>15. CASE Saved
    <2>1. LinksOf(cur) \subseteq Url /\ ReqsOf(cur) \subseteq Url
      BY RefsType DEF TypeOK
    <2>2. serve[cur] \in Nat /\ files' \in [Url -> Nat]
      BY <1>15 DEF Saved, TypeOK
    <2> QED
      BY <1>15, <2>1, <2>2, ToRecordType DEF Saved
  <1>16. ASSUME NEW u \in Url, EnqueueLink(u) PROVE TypeOK'
    <2>1. Entered(u, FALSE)
      BY <1>a, <1>16, EnqueueEnters DEF EnqueueLink
    <2> QED
      BY <1>16, <2>1, EnteredType DEF EnqueueLink, TypeOK
  <1>17. ASSUME NEW u \in Url, EnqueueRequisite(u) PROVE TypeOK'
    <2>1. Entered(u, TRUE)
      BY <1>a, <1>17, EnqueueEnters DEF EnqueueRequisite
    <2> QED
      BY <1>17, <2>1, EnteredType DEF EnqueueRequisite, TypeOK
  <1>18. CASE MarkDone
    <2>1. Settled("done", etag) /\ etag \in Nat
      BY <1>18, RecordSettles DEF MarkDone, TypeOK, State
    <2> QED
      BY <1>18, <2>1, SettledType DEF MarkDone, Record, State, TypeOK
  <1>19. CASE Interrupted
    BY <1>19, ReturnType DEF Interrupted
  <1>20. ASSUME NEW u \in Url, SiteChange(u) PROVE TypeOK'
    <2>1. changes' \in 0 .. MaxChanges
      <3>1. changes \in 0 .. MaxChanges /\ changes < MaxChanges /\ changes' = changes + 1
        BY <1>20 DEF SiteChange, Outside, TypeOK
      <3> QED
        BY <3>1, BoundsAssumption
    <2>2. Site[u] \in Seq(Page) /\ serve[u] \in Nat /\ serve[u] < Len(Site[u])
      BY <1>20, SiteAssumption DEF SiteChange, TypeOK
    <2>3. serve[u] + 1 \in Nat /\ serve[u] + 1 \in DOMAIN Site[u]
      BY <2>2
    <2>4. serve' \in [Url -> Nat] /\ \A v \in Url : serve'[v] \in DOMAIN Site[v]
      BY <1>20, <2>3 DEF SiteChange, TypeOK
    <2> QED
      BY <1>20, <2>1, <2>4 DEF TypeOK, SiteChange, Outside
  <1>21. ASSUME NEW u \in Url, FileLost(u) PROVE TypeOK'
    <2>1. changes' \in 0 .. MaxChanges /\ files' \in [Url -> Nat]
      BY <1>21, BoundsAssumption DEF FileLost, Outside, TypeOK
    <2> QED
      BY <1>21, <2>1 DEF TypeOK, FileLost, Outside
  <1>22. CASE UNCHANGED vars
    BY <1>22 DEF TypeOK, vars
  <1> QED
    BY <1>1, <1>2, <1>3, <1>4, <1>5, <1>6, <1>7, <1>8, <1>10, <1>11, <1>12, <1>13, <1>14,
       <1>15, <1>16, <1>17, <1>18, <1>19, <1>20, <1>21, <1>22
    DEF Next, Mirror, Process

(* Every reachable state is well typed, and the rows are numbered as they came
   (httpmirror.go:100-126). *)
THEOREM TypeCorrect == Spec => [](TypeOK /\ RowsOK)
  BY TypeInit, TypeNext, RowsNext, PTL DEF Spec

-----------------------------------------------------------------------------
(* What is done is left alone. *)

(* A row is fetched while it is pending. *)
CurPending == pc \in Working => urls[cur].state = "pending"

LEMMA CurPendingNext == TypeOK /\ RowsOK /\ CurPending /\ [Next]_vars => CurPending'
  <1> SUFFICES ASSUME TypeOK, RowsOK, CurPending, [Next]_vars, pc' \in Working
               PROVE  urls'[cur'].state = "pending"
    BY DEF CurPending
  <1>1. ASSUME NEW u \in Url, Pick(u) PROVE urls'[cur'].state = "pending"
    BY <1>1 DEF Pick, Work, CurPending
  <1>2. ASSUME NEW u \in Url, EnqueueLink(u) \/ EnqueueRequisite(u)
        PROVE  urls'[cur'].state = "pending"
    <2>1. cur \in DOMAIN urls /\ urls[cur].state = "pending" /\ cur' = cur
      BY <1>2 DEF EnqueueLink, EnqueueRequisite, TypeOK, CurPending
    <2>2. Entered(u, FALSE) \/ Entered(u, TRUE)
      BY <1>2, EnqueueEnters DEF EnqueueLink, EnqueueRequisite, RowsOK
    <2> QED
      BY <2>1, <2>2 DEF Entered
  <1>3. CASE UNCHANGED <<urls, cur>> /\ pc \in Working
    BY <1>3 DEF CurPending
  <1> QED
    BY <1>1, <1>2, <1>3
    DEF Next, Mirror, Process, Begin, ResolveStart, ResolveFails, Reset, EnqueueRoot, Return,
        Finish, Gone, Transient, DiskFails, GiveUp, Record, MarkDone, NotModified, Redirected,
        ListingRead, Saved, ToRecord, Interrupted, SiteChange, FileLost, Outside, vars

(* Only the file of the URL at hand is written, and it is pending. *)
LEMMA LeftAlone ==
  ASSUME TypeOK, RowsOK, CurPending, [Next]_vars,
         NEW u \in DOMAIN urls, urls[u].state = "done", ~ update
  PROVE  /\ urls'[u].state = "done" /\ urls'[u].etag = urls[u].etag
         /\ files'[u] = files[u] \/ FileLost(u)
  <1>1. pc \in Working => u # cur
    BY DEF CurPending
  <1>2. files'[u] = files[u] \/ FileLost(u)
    <2>1. CASE Saved
      BY <1>1, <2>1 DEF Saved, TypeOK
    <2>2. ASSUME NEW v \in Url, FileLost(v) PROVE files'[u] = files[u] \/ FileLost(u)
      BY <2>2 DEF FileLost, TypeOK
    <2> QED
      BY <2>1, <2>2
      DEF Next, Mirror, Process, Begin, ResolveStart, ResolveFails, Reset, EnqueueRoot, Return,
          Pick, Finish, Gone, Transient, DiskFails, GiveUp, Record, MarkDone, NotModified,
          Redirected, ListingRead, ToRecord, EnqueueLink, EnqueueRequisite, Interrupted,
          SiteChange, Outside, vars
  <1>3. urls'[u].state = "done" /\ urls'[u].etag = urls[u].etag
    <2>1. CASE Gone \/ Transient \/ DiskFails \/ MarkDone
      <3>1. \/ UNCHANGED urls
            \/ \E row : pc \in Working /\ urls' = [urls EXCEPT ![cur] = row]
        BY <2>1 DEF Gone, Transient, DiskFails, GiveUp, Record, MarkDone
      <3> QED
        BY <1>1, <3>1
    <2>2. CASE EnqueueRoot
      <3>1. Entered(root, FALSE)
        BY <2>2, EnqueueEnters DEF EnqueueRoot, RowsOK, TypeOK
      <3> QED
        BY <3>1 DEF Entered
    <2>3. ASSUME NEW v \in Url, EnqueueLink(v) \/ EnqueueRequisite(v)
          PROVE  urls'[u].state = "done" /\ urls'[u].etag = urls[u].etag
      <3>1. Entered(v, FALSE) \/ Entered(v, TRUE)
        BY <2>3, EnqueueEnters DEF EnqueueLink, EnqueueRequisite, RowsOK
      <3> QED
        BY <3>1 DEF Entered
    <2>4. CASE Reset
      BY <2>4, ResetRestarts DEF Restarted, Again
    <2>5. CASE UNCHANGED urls
      BY <2>5
    <2> QED
      BY <2>1, <2>2, <2>3, <2>4, <2>5
      DEF Next, Mirror, Process, Begin, ResolveStart, ResolveFails, Return, Pick, Finish,
          NotModified, Redirected, ListingRead, Saved, ToRecord, Interrupted, SiteChange,
          FileLost, Outside, vars
  <1> QED
    BY <1>2, <1>3

(* A run without -update leaves the state, the validator and the file of what
   is done as they are; what is fetched is pending, and only an update makes
   pending what was done (httpmirror.go:244-256, 318, 511, 542). *)
THEOREM DoneStaysDone == Spec => MirroredIsLeftAlone
  <1>1. Init => CurPending
    BY DEF Init, CurPending
  <1>2. /\ TypeOK /\ RowsOK /\ CurPending /\ [Next]_vars
        => [\A u \in DOMAIN urls :
              urls[u].state = "done" /\ ~ update =>
                /\ urls'[u].state = "done" /\ urls'[u].etag = urls[u].etag
                /\ files'[u] = files[u] \/ FileLost(u)]_vars
    BY LeftAlone
  <1> QED
    BY <1>1, <1>2, CurPendingNext, TypeCorrect, PTL DEF Spec, MirroredIsLeftAlone

-----------------------------------------------------------------------------
(* Validators and files. *)

(* A validator is that of the file or of an older one, and the file is no newer
   than what the server has. *)
FileAged(u) == files[u] <= serve[u]
ValidatorAged(u) == urls[u].etag <= serve[u] /\ (files[u] # 0 => urls[u].etag <= files[u])
ValidatorAtHand ==
  pc = "record" => etag <= serve[cur] /\ (etag # 0 => files[cur] \in {0, etag})
FilesOK ==
  /\ \A u \in Url : FileAged(u)
  /\ \A u \in DOMAIN urls : ValidatorAged(u)
  /\ ValidatorAtHand
  /\ EtagOfFile

LEMMA FilesInit == Init => FilesOK
  <1> SUFFICES ASSUME Init PROVE FilesOK
    OBVIOUS
  <1>1. DOMAIN urls = {} /\ pc = "idle" /\ \A u \in Url : files[u] = 0 /\ serve[u] = 1
    BY DEF Init
  <1> QED
    BY <1>1 DEF FilesOK, FileAged, ValidatorAged, ValidatorAtHand, EtagOfFile

(* Files and server as they were, and no validator other than those there. *)
LEMMA FilesFrame ==
  ASSUME TypeOK, TypeOK', FilesOK, UNCHANGED <<files, serve>>,
         \A u \in DOMAIN urls' :
           \/ urls'[u].etag = 0
           \/ /\ u \in DOMAIN urls /\ urls'[u].etag = urls[u].etag
              /\ (urls'[u].state = "done" => urls[u].state = "done"),
         pc' = "record" => pc = "record" /\ UNCHANGED <<etag, cur>>
  PROVE  FilesOK'
  <1>1. \A u \in Url : files[u] \in Nat /\ serve[u] \in Nat
    BY DEF TypeOK
  <1>2. \A u \in DOMAIN urls' : ValidatorAged(u)'
    BY <1>1 DEF FilesOK, ValidatorAged, TypeOK
  <1>3. \A u \in Url : FileAged(u)'
    BY DEF FilesOK, FileAged
  <1>4. EtagOfFile'
    BY DEF FilesOK, EtagOfFile
  <1>5. ValidatorAtHand'
    BY DEF FilesOK, ValidatorAtHand
  <1> QED
    BY <1>2, <1>3, <1>4, <1>5 DEF FilesOK

LEMMA FilesAtHand ==
  ASSUME FilesOK, UNCHANGED <<files, serve, urls>>, ValidatorAtHand'
  PROVE  FilesOK'
  <1>1. \A u \in Url : FileAged(u)'
    BY DEF FilesOK, FileAged
  <1>2. \A u \in DOMAIN urls' : ValidatorAged(u)'
    BY DEF FilesOK, ValidatorAged
  <1>3. EtagOfFile'
    BY DEF FilesOK, EtagOfFile
  <1> QED
    BY <1>1, <1>2, <1>3 DEF FilesOK

(* A 304 is answered only for the file that is there. *)
LEMMA UnmodifiedIsCurrent ==
  ASSUME TypeOK, FilesOK, cur \in DOMAIN urls, Unmodified
  PROVE  files[cur] = serve[cur]
  <1>1. files[cur] \in Nat /\ serve[cur] \in Nat /\ urls[cur].etag \in Nat
    BY DEF TypeOK, Row
  <1>2. urls[cur].etag <= files[cur] /\ files[cur] <= serve[cur] /\ urls[cur].etag = serve[cur]
    BY DEF FilesOK, ValidatorAged, FileAged, Unmodified, TypeOK
  <1> QED
    BY <1>1, <1>2

LEMMA FilesNext ==
  TypeOK /\ TypeOK' /\ RowsOK /\ CurPending /\ FilesOK /\ [Next]_vars => FilesOK'
  <1> SUFFICES ASSUME TypeOK, TypeOK', RowsOK, CurPending, FilesOK, [Next]_vars PROVE FilesOK'
    OBVIOUS
  <1>a. \A u \in Url : files[u] \in Nat /\ serve[u] \in Nat
    BY DEF TypeOK
  <1>b. \A u \in DOMAIN urls : u \in Url /\ urls[u].etag \in Nat
    BY DEF TypeOK, Row
  <1>1. CASE UNCHANGED <<files, serve, urls>> /\ pc' # "record"
    BY <1>1, FilesAtHand DEF ValidatorAtHand
  <1>2. CASE Reset
    <2>1. Restarted
      BY <1>2, ResetRestarts
    <2>2. UNCHANGED <<files, serve>> /\ pc' # "record"
      BY <1>2 DEF Reset
    <2> QED
      BY <2>1, <2>2, FilesFrame DEF Restarted
  <1>3. ASSUME NEW u \in Url, NEW b \in BOOLEAN, Entered(u, b), UNCHANGED <<files, serve>>,
               pc' = "record" => pc = "record" /\ UNCHANGED <<etag, cur>>
        PROVE  FilesOK'
    <2>1. \A v \in DOMAIN urls' : urls'[v].etag = 0 \/ v \in DOMAIN urls
      BY <1>3 DEF Entered
    <2> QED
      BY <1>3, <2>1, FilesFrame DEF Entered
  <1>4. CASE EnqueueRoot
    <2>1. Entered(root, FALSE) /\ root \in Url
      BY <1>4, EnqueueEnters DEF EnqueueRoot, RowsOK, TypeOK
    <2> QED
      BY <1>3, <1>4, <2>1 DEF EnqueueRoot
  <1>5. ASSUME NEW u \in Url, EnqueueLink(u) \/ EnqueueRequisite(u) PROVE FilesOK'
    <2>1. Entered(u, FALSE) \/ Entered(u, TRUE)
      BY <1>5, EnqueueEnters DEF EnqueueLink, EnqueueRequisite, RowsOK
    <2>2. UNCHANGED <<files, serve, pc, cur>>
      BY <1>5 DEF EnqueueLink, EnqueueRequisite
    <2>3. UNCHANGED etag
      BY <1>5 DEF EnqueueLink, EnqueueRequisite
    <2> QED
      BY <1>3, <2>1, <2>2, <2>3
  <1>6. CASE Gone \/ Transient \/ DiskFails
    <2>1. CASE UNCHANGED urls
      BY <1>1, <1>6, <2>1 DEF Gone, Transient, DiskFails, GiveUp, Record
    <2>2. ASSUME NEW st \in {"failed", "error"}, pc \in Working, Record([urls[cur] EXCEPT !.state = st])
          PROVE  FilesOK'
      <3>1. cur \in DOMAIN urls
        BY <2>2 DEF TypeOK
      <3>2. Settled(st, urls[cur].etag)
        BY <2>2, <3>1, RecordSettles DEF State
      <3>3. UNCHANGED <<files, serve>> /\ pc' # "record"
        BY <2>2 DEF Record
      <3> QED
        BY <2>2, <3>1, <3>2, <3>3, FilesFrame DEF Settled
    <2> QED
      BY <1>6, <2>1, <2>2 DEF Gone, Transient, DiskFails, GiveUp
  <1>7. CASE MarkDone
    <2>1. cur \in DOMAIN urls /\ cur \in Url /\ etag \in Nat
      BY <1>7 DEF MarkDone, TypeOK
    <2>2. Settled("done", etag)
      BY <1>7, <2>1, RecordSettles DEF MarkDone, State
    <2>3. UNCHANGED <<files, serve>> /\ pc' # "record"
      BY <1>7 DEF MarkDone, Record
    <2>4. etag <= serve[cur] /\ (etag # 0 => files[cur] \in {0, etag})
      BY <1>7 DEF MarkDone, FilesOK, ValidatorAtHand
    <2>5. \A u \in Url : FileAged(u)'
      BY <2>3 DEF FilesOK, FileAged
    <2>6. \A u \in DOMAIN urls' : ValidatorAged(u)'
      <3>1. urls'[cur].etag = etag /\ files'[cur] = files[cur] /\ serve'[cur] = serve[cur]
        BY <2>2, <2>3 DEF Settled
      <3>2. urls'[cur].etag <= serve'[cur] /\ (files'[cur] # 0 => urls'[cur].etag <= files'[cur])
        BY <1>a, <2>1, <2>4, <3>1
      <3>3. ASSUME NEW u \in DOMAIN urls', u # cur PROVE ValidatorAged(u)'
        BY <2>2, <2>3, <3>3 DEF Settled, ValidatorAged, FilesOK
      <3> QED
        BY <3>2, <3>3 DEF ValidatorAged
    <2>7. EtagOfFile'
      BY <2>2, <2>3, <2>4 DEF Settled, EtagOfFile, FilesOK
    <2> QED
      BY <2>3, <2>5, <2>6, <2>7 DEF FilesOK, ValidatorAtHand
  <1>8. CASE NotModified
    <2>1. /\ cur \in DOMAIN urls /\ files[cur] # 0 /\ urls[cur].etag = serve[cur]
          /\ etag' = urls[cur].etag /\ cur' = cur /\ UNCHANGED <<urls, files, serve>>
      BY <1>8 DEF NotModified, Unmodified, ToRecord, TypeOK
    <2>2. files[cur] = serve[cur]
      BY <2>1, UnmodifiedIsCurrent DEF Unmodified
    <2>3. ValidatorAtHand'
      BY <1>a, <1>b, <2>1, <2>2 DEF ValidatorAtHand
    <2> QED
      BY <2>1, <2>3, FilesAtHand
  <1>9. CASE Redirected \/ ListingRead
    <2>1. etag' = 0 /\ UNCHANGED <<urls, files, serve, cur>> /\ cur \in Url
      BY <1>9 DEF Redirected, ListingRead, ToRecord, TypeOK
    <2>2. ValidatorAtHand'
      BY <1>a, <2>1 DEF ValidatorAtHand
    <2> QED
      BY <2>1, <2>2, FilesAtHand
  <1>10. CASE Saved
    <2>1. /\ cur \in DOMAIN urls /\ cur \in Url /\ urls[cur].state = "pending"
          /\ etag' = serve[cur] /\ UNCHANGED <<urls, serve, cur>>
          /\ files' = [files EXCEPT ![cur] = serve[cur]]
      BY <1>10 DEF Saved, ToRecord, TypeOK, CurPending
    <2>2. files'[cur] = serve[cur] /\ \A u \in Url \ {cur} : files'[u] = files[u]
      BY <2>1 DEF TypeOK
    <2>3. \A u \in Url : FileAged(u)'
      BY <1>a, <2>1, <2>2 DEF FilesOK, FileAged
    <2>4. \A u \in DOMAIN urls' : ValidatorAged(u)'
      BY <1>a, <1>b, <2>1, <2>2 DEF FilesOK, ValidatorAged
    <2>5. EtagOfFile'
      BY <1>b, <2>1, <2>2 DEF FilesOK, EtagOfFile
    <2>6. ValidatorAtHand'
      BY <1>a, <2>1, <2>2 DEF ValidatorAtHand
    <2> QED
      BY <2>3, <2>4, <2>5, <2>6 DEF FilesOK
  <1>11. ASSUME NEW u \in Url, SiteChange(u) PROVE FilesOK'
    <2>1. UNCHANGED <<urls, files, pc, cur, etag>> /\ \A v \in Url : serve[v] <= serve'[v]
      <3>1. UNCHANGED <<urls, files, pc, cur, etag>> /\ serve' = [serve EXCEPT ![u] = @ + 1]
        BY <1>11 DEF SiteChange, Outside
      <3>2. \A v \in Url : serve'[v] = IF v = u THEN serve[v] + 1 ELSE serve[v]
        BY <3>1 DEF TypeOK
      <3> QED
        BY <1>a, <3>1, <3>2
    <2>2. \A v \in Url : serve'[v] \in Nat
      BY DEF TypeOK
    <2>3. cur \in Url /\ etag \in Nat
      BY DEF TypeOK
    <2>4. \A v \in Url : FileAged(v)'
      BY <1>a, <2>1, <2>2 DEF FilesOK, FileAged
    <2>5. \A v \in DOMAIN urls' : ValidatorAged(v)'
      BY <1>a, <1>b, <2>1, <2>2 DEF FilesOK, ValidatorAged
    <2>6. EtagOfFile' /\ ValidatorAtHand'
      BY <1>a, <2>1, <2>2, <2>3 DEF FilesOK, EtagOfFile, ValidatorAtHand
    <2> QED
      BY <2>4, <2>5, <2>6 DEF FilesOK
  <1>12. ASSUME NEW u \in Url, FileLost(u) PROVE FilesOK'
    <2>1. UNCHANGED <<urls, serve, pc, cur, etag>> /\ \A v \in Url : files'[v] \in {0, files[v]}
      BY <1>12 DEF FileLost, Outside, TypeOK
    <2>2. cur \in Url
      BY DEF TypeOK
    <2>3. \A v \in Url : FileAged(v)'
      BY <1>a, <2>1 DEF FilesOK, FileAged
    <2>4. \A v \in DOMAIN urls' : ValidatorAged(v)'
      BY <1>a, <1>b, <2>1 DEF FilesOK, ValidatorAged
    <2>5. EtagOfFile'
      BY <1>b, <2>1 DEF FilesOK, EtagOfFile
    <2>6. ValidatorAtHand'
      BY <2>1, <2>2 DEF FilesOK, ValidatorAtHand
    <2> QED
      BY <2>3, <2>4, <2>5, <2>6 DEF FilesOK
  <1>13. CASE UNCHANGED vars
    BY <1>13, FilesAtHand DEF vars, FilesOK, ValidatorAtHand
  <1> QED
    BY <1>1, <1>2, <1>4, <1>5, <1>6, <1>7, <1>8, <1>9, <1>10, <1>11, <1>12, <1>13
    DEF Next, Mirror, Process, Begin, ResolveStart, ResolveFails, Return, Pick, Finish, Interrupted

(* The validator of a row that is done is that of the file on disk, although
   the two are written one after the other, the server changes in between, and
   a run may end there: until the row is done again its validator is older than
   the file (httpmirror.go:424-440, 511, 542). *)
THEOREM ValidatorFitsFile == Spec => []EtagOfFile
  <1>1. Init => CurPending
    BY DEF Init, CurPending
  <1>2. FilesOK => EtagOfFile
    BY DEF FilesOK
  <1> QED
    BY <1>1, <1>2, FilesInit, FilesNext, CurPendingNext, TypeCorrect, PTL DEF Spec

-----------------------------------------------------------------------------
(* What an update brings. *)

Kept(u) == PageOf(u).kind \in {"html", "css", "file"}
Passing == pc \in Working \cup {"next"} \/ result = "ok"

(* An update begins with no row done, and what it has marked done since, nothing
   having changed outside, has the server's version. *)
CurrentOK ==
  /\ (pc = "root" /\ update => \A u \in DOMAIN urls : urls[u].state = "pending")
  /\ quiet /\ update =>
       /\ (pc = "record" /\ Kept(cur) => files[cur] = serve[cur])
       /\ Passing => \A u \in DOMAIN urls :
            urls[u].state = "done" /\ Kept(u) => files[u] = serve[u]

LEMMA CurrentFrame ==
  ASSUME CurrentOK, UNCHANGED <<serve, files, quiet, update>>,
         \A u \in DOMAIN urls' : urls'[u].state = "done" => u \in DOMAIN urls /\ urls[u].state = "done",
         Passing' => Passing, pc' # "root", pc' = "record" => pc = "record" /\ cur' = cur
  PROVE  CurrentOK'
  BY DEF CurrentOK, Kept, PageOf

LEMMA CurrentAtHand ==
  ASSUME TypeOK, CurPending, CurrentOK, pc = "fetch", pc' = "record",
         UNCHANGED <<serve, urls, quiet, update, cur>>,
         \A u \in Url \ {cur} : files'[u] = files[u],
         Kept(cur) => files'[cur] = serve[cur]
  PROVE  CurrentOK'
  <1>1. Passing /\ urls[cur].state = "pending"
    BY DEF Passing, CurPending
  <1>2. \A u \in Url : Kept(u)' <=> Kept(u)
    BY DEF Kept, PageOf
  <1>3. cur \in Url /\ DOMAIN urls \subseteq Url
    BY DEF TypeOK
  <1> QED
    BY <1>1, <1>2, <1>3 DEF CurrentOK

LEMMA CurrentEntered ==
  ASSUME CurrentOK, NEW u \in Url, NEW b \in BOOLEAN, Entered(u, b),
         UNCHANGED <<files, serve, quiet, update, pc, cur, result>>, pc # "root"
  PROVE  CurrentOK'
  <1>1. \A v \in DOMAIN urls' : urls'[v].state = "done" => v \in DOMAIN urls /\ urls[v].state = "done"
    BY DEF Entered
  <1> QED
    BY <1>1, CurrentFrame DEF Passing

LEMMA CurrentNext ==
  TypeOK /\ RowsOK /\ CurPending /\ FilesOK /\ CurrentOK /\ [Next]_vars => CurrentOK'
  <1> SUFFICES ASSUME TypeOK, RowsOK, CurPending, FilesOK, CurrentOK, [Next]_vars PROVE CurrentOK'
    OBVIOUS
  <1>1. ASSUME NEW res \in {"none", "error"}, Return(res) PROVE CurrentOK'
    BY <1>1 DEF Return, CurrentOK, Passing
  <1>2. ASSUME NEW s \in Starts, NEW u \in BOOLEAN, Begin(s, u) PROVE CurrentOK'
    BY <1>2 DEF Begin, CurrentOK, Passing
  <1>3. CASE ResolveStart
    BY <1>3, CurrentFrame DEF ResolveStart, Passing
  <1>4. CASE Reset
    <2>1. Restarted /\ pc' = "root" /\ UNCHANGED <<files, serve, quiet, update, result>>
      BY <1>4, ResetRestarts DEF Reset
    <2>2. update => \A u \in DOMAIN urls' : urls'[u].state = "pending"
      BY <2>1 DEF Restarted, Again
    <2> QED
      BY <2>1, <2>2 DEF CurrentOK
  <1>5. CASE EnqueueRoot
    <2>1. Entered(root, FALSE)
      BY <1>5, EnqueueEnters DEF EnqueueRoot, RowsOK, TypeOK
    <2>2. pc = "root" /\ pc' = "next" /\ update' = update
      BY <1>5 DEF EnqueueRoot
    <2>3. update => \A u \in DOMAIN urls' : urls'[u].state = "pending"
      BY <2>1, <2>2 DEF Entered, CurrentOK
    <2> QED
      BY <2>2, <2>3 DEF CurrentOK
  <1>6. ASSUME NEW u \in Url, Pick(u) PROVE CurrentOK'
    <2>1. pc = "next" /\ pc' \in {"next", "fetch"} /\ UNCHANGED <<serve, files, quiet, update, urls>>
      BY <1>6 DEF Pick
    <2> QED
      BY <2>1, CurrentFrame DEF Passing
  <1>7. CASE Finish
    <2>1. pc = "next" /\ pc' = "idle" /\ UNCHANGED <<serve, files, quiet, update, urls>>
      BY <1>7 DEF Finish, Return
    <2> QED
      BY <2>1, CurrentFrame DEF Passing
  <1>8. CASE Gone \/ Transient \/ DiskFails
    <2>1. pc \in Working /\ pc' \in {"next", "fetch"} /\ UNCHANGED <<serve, files, quiet, update>>
      BY <1>8 DEF Gone, Transient, DiskFails, GiveUp, Record
    <2>2. \/ UNCHANGED urls
          \/ \E st \in {"failed", "error"} : Record([urls[cur] EXCEPT !.state = st])
      BY <1>8 DEF Gone, Transient, DiskFails, GiveUp
    <2>3. \A u \in DOMAIN urls' : urls'[u].state = "done" => u \in DOMAIN urls /\ urls[u].state = "done"
      <3>1. cur \in DOMAIN urls
        BY <2>1 DEF TypeOK
      <3>2. UNCHANGED urls \/ \E st \in {"failed", "error"} : Settled(st, urls[cur].etag)
        BY <2>2, <3>1, RecordSettles DEF State
      <3> QED
        BY <3>2 DEF Settled
    <2> QED
      BY <2>1, <2>3, CurrentFrame DEF Passing
  <1>9. CASE MarkDone
    <2>1. pc = "record" /\ pc' = "next" /\ UNCHANGED <<serve, files, quiet, update>>
      BY <1>9 DEF MarkDone, Record
    <2>2. Settled("done", etag)
      BY <1>9, <2>1, RecordSettles DEF MarkDone, State, TypeOK
    <2>3. \A u \in Url : Kept(u)' <=> Kept(u)
      BY <2>1 DEF Kept, PageOf
    <2>4. DOMAIN urls \subseteq Url
      BY DEF TypeOK
    <2>5. ASSUME quiet, update, NEW u \in DOMAIN urls', urls'[u].state = "done", Kept(u)
          PROVE  files[u] = serve[u]
      BY <2>1, <2>2, <2>5 DEF CurrentOK, Settled, Passing
    <2> QED
      BY <2>1, <2>2, <2>3, <2>4, <2>5 DEF CurrentOK, Settled
  <1>10. CASE NotModified
    <2>1. files[cur] = serve[cur]
      BY <1>10, UnmodifiedIsCurrent DEF NotModified, TypeOK
    <2> QED
      BY <1>10, <2>1, CurrentAtHand DEF NotModified, ToRecord
  <1>11. CASE Redirected \/ ListingRead
    <2>1. ~ Kept(cur)
      BY <1>11 DEF Redirected, ListingRead, IsListing, Kept
    <2> QED
      BY <1>11, <2>1, CurrentAtHand DEF Redirected, ListingRead, ToRecord
  <1>12. CASE Saved
    BY <1>12, CurrentAtHand DEF Saved, ToRecord, TypeOK
  <1>13. ASSUME NEW u \in Url, EnqueueLink(u) \/ EnqueueRequisite(u) PROVE CurrentOK'
    <2>1. Entered(u, FALSE) \/ Entered(u, TRUE)
      BY <1>13, EnqueueEnters DEF EnqueueLink, EnqueueRequisite, RowsOK
    <2>2. UNCHANGED <<files, serve, quiet, update, pc, cur, result>> /\ pc # "root"
      BY <1>13 DEF EnqueueLink, EnqueueRequisite
    <2> QED
      BY <2>1, <2>2, CurrentEntered
  <1>14. ASSUME NEW u \in Url, SiteChange(u) \/ FileLost(u) PROVE CurrentOK'
    BY <1>14 DEF SiteChange, FileLost, Outside, CurrentOK
  <1>15. CASE UNCHANGED vars
    BY <1>15 DEF vars, CurrentOK, Kept, PageOf, Passing
  <1> QED
    BY <1>1, <1>2, <1>3, <1>4, <1>5, <1>6, <1>7, <1>8, <1>9, <1>10, <1>11, <1>12, <1>13, <1>14, <1>15
    DEF Next, Mirror, Process, ResolveFails, Interrupted

(* After a successful update during which nothing changed, each page that is
   mirrored is as the server has it, with whatever files, validators and rows
   the update began (httpmirror.go:244-256, 424-440, 511-542). *)
THEOREM UpdateBringsCurrent == Spec => []CurrentAfterUpdate
  <1>1. Init => CurPending /\ CurrentOK
    BY DEF Init, CurPending, CurrentOK, Passing
  <1>2. CurrentOK => CurrentAfterUpdate
    BY DEF CurrentOK, CurrentAfterUpdate, Kept, Passing
  <1> QED
    BY <1>1, <1>2, FilesInit, FilesNext, CurrentNext, CurPendingNext, TypeCorrect, PTL DEF Spec

-----------------------------------------------------------------------------
(* The pass: the root is known; what the pass is beyond is settled, and its
   errors are not forgotten. *)

LastKnown ==
  /\ pc \notin Working \cup {"next"} => lastID = 0
  /\ lastID = 0 \/ \E u \in DOMAIN urls : urls[u].id = lastID
Position == pc \in Working => urls[cur].id = lastID /\ (urls[cur].requisite => requisite)
Passed ==
  pc \in Working \cup {"next"} =>
    \A u \in DOMAIN urls :
      urls[u].id <= lastID /\ Wanted(u) /\ (pc = "next" \/ u # cur) => urls[u].state # "pending"
ErrorsCounted ==
  pc \in Working \cup {"root", "next"} =>
    errors \/ \A u \in DOMAIN urls : urls[u].state # "error"
RootKnown == Passing => root \in DOMAIN urls
Reported ==
  result = "ok" =>
    /\ pc = "idle"
    /\ \A u \in DOMAIN urls : Wanted(u) => urls[u].state \in {"done", "failed"}

PassOK ==
  LastKnown /\ Position /\ Passed /\ ErrorsCounted /\ RootKnown /\ Reported

LEMMA PassInit == Init => PassOK
  <1> SUFFICES ASSUME Init PROVE PassOK
    OBVIOUS
  <1>1. pc = "idle" /\ lastID = 0 /\ result = "none"
    BY DEF Init
  <1> QED
    BY <1>1 DEF PassOK, LastKnown, Position, Passed, ErrorsCounted, RootKnown, Reported, Passing

LEMMA PassReturn ==
  ASSUME Return("none") \/ Return("error")
  PROVE  PassOK'
  BY DEF Return, PassOK, LastKnown, Position, Passed, ErrorsCounted, RootKnown, Reported, Passing

LEMMA PassEntered ==
  ASSUME TypeOK, RowsOK, PassOK, pc \in Working,
         NEW u \in Url, NEW b \in BOOLEAN, Entered(u, b),
         UNCHANGED <<pc, root, lastID, errors, cur, requisite, result>>
  PROVE  PassOK'
  <1>1. cur \in DOMAIN urls /\ result # "ok"
    BY DEF TypeOK, PassOK, Reported
  <1>2. LastKnown' /\ Position'
    BY <1>1 DEF Entered, PassOK, LastKnown, Position
  <1>3. ErrorsCounted' /\ RootKnown'
    BY <1>1 DEF Entered, PassOK, ErrorsCounted, RootKnown, Passing
  <1>4. lastID \in Nat /\ Cardinality(DOMAIN urls) \in Nat /\ lastID <= Cardinality(DOMAIN urls)
    BY FS_CardinalityType DEF RowsOK, PassOK, LastKnown, TypeOK
  <1>5. ASSUME NEW v \in DOMAIN urls', urls'[v].id <= lastID, Wanted(v)', v # cur
        PROVE  urls'[v].state # "pending"
    <2>1. v \in DOMAIN urls
      BY <1>4, <1>5 DEF Entered
    <2>2. Wanted(v) /\ urls[v].id <= lastID
      BY <1>5, <2>1 DEF Entered, Wanted, InScope
    <2> QED
      BY <1>5, <2>1, <2>2 DEF Entered, PassOK, Passed
  <1>6. Passed'
    BY <1>5 DEF Passed
  <1> QED
    BY <1>1, <1>2, <1>3, <1>6 DEF PassOK, Reported

LEMMA PassSettled ==
  ASSUME TypeOK, PassOK, pc \in Working, NEW st \in State, NEW tag, Settled(st, tag), st # "pending",
         pc' = "next", errors' = (errors \/ st = "error"), UNCHANGED <<root, lastID, cur, result>>
  PROVE  PassOK'
  <1>1. cur \in DOMAIN urls /\ result # "ok"
    BY DEF TypeOK, PassOK, Reported
  <1>2. LastKnown' /\ Position'
    BY <1>1 DEF Settled, PassOK, LastKnown, Position
  <1>3. ErrorsCounted' /\ RootKnown'
    BY <1>1 DEF Settled, PassOK, ErrorsCounted, RootKnown, Passing
  <1>4. Passed'
    BY <1>1 DEF Settled, PassOK, Passed, Wanted, InScope
  <1> QED
    BY <1>1, <1>2, <1>3, <1>4 DEF PassOK, Reported

(* A pass visits the pending rows in their order. *)
LEMMA PassPick ==
  ASSUME TypeOK, RowsOK, PassOK, NEW u \in Url, Pick(u)
  PROVE  PassOK'
  <1>1. /\ u \in DOMAIN urls /\ urls[u].state = "pending" /\ urls[u].id > lastID
        /\ \A v \in Work : urls[u].id <= urls[v].id
        /\ lastID' = urls[u].id /\ pc = "next"
        /\ UNCHANGED <<urls, root, errors, result>>
    BY DEF Pick, Work
  <1>2. \A v \in DOMAIN urls : urls[v].id \in Nat
    BY DEF TypeOK, Row
  <1>3. \/ pc' = "next" /\ ~ Wanted(u)
        \/ pc' = "fetch" /\ cur' = u /\ requisite' = urls[u].requisite
    BY DEF Pick, Wanted
  <1>4. LastKnown' /\ Position'
    BY <1>1, <1>3 DEF LastKnown, Position
  <1>5. ErrorsCounted' /\ RootKnown' /\ Reported'
    BY <1>1, <1>3 DEF PassOK, ErrorsCounted, RootKnown, Reported, Passing
  <1>6. ASSUME NEW v \in DOMAIN urls, urls[v].id <= urls[u].id, Wanted(v), v # u
        PROVE  urls[v].state # "pending"
    <2>1. CASE urls[v].id > lastID
      <3>1. v \notin Work
        BY <1>1, <1>2, <1>6, <2>1 DEF RowsOK
      <3> QED
        BY <2>1, <3>1 DEF Work
    <2>2. CASE ~ (urls[v].id > lastID)
      <3>1. urls[v].id <= lastID
        BY <1>2, <2>2 DEF TypeOK
      <3> QED
        BY <1>1, <1>6, <3>1 DEF PassOK, Passed
    <2> QED
      BY <2>1, <2>2
  <1>7. Passed'
    BY <1>1, <1>3, <1>6 DEF Passed, Wanted, InScope
  <1> QED
    BY <1>4, <1>5, <1>7 DEF PassOK

LEMMA PassFinish ==
  ASSUME TypeOK, PassOK, Finish
  PROVE  PassOK'
  <1>1. /\ pc = "next" /\ Work = {} /\ pc' = "idle" /\ UNCHANGED <<urls, root>> /\ lastID' = 0
        /\ result' = IF errors THEN "error" ELSE "ok"
    BY DEF Finish, Return
  <1>2. ASSUME NEW u \in DOMAIN urls, Wanted(u) PROVE urls[u].state # "pending"
    <2>1. CASE urls[u].id > lastID
      BY <1>1, <2>1 DEF Work
    <2>2. CASE ~ (urls[u].id > lastID)
      <3>1. urls[u].id <= lastID
        BY <2>2 DEF TypeOK, Row
      <3> QED
        BY <1>1, <1>2, <3>1 DEF PassOK, Passed
    <2> QED
      BY <2>1, <2>2
  <1>3. ~ errors => \A u \in DOMAIN urls : Wanted(u) => urls[u].state \in {"done", "failed"}
    <2>1. \A u \in DOMAIN urls : urls[u].state \in State
      BY DEF TypeOK, Row
    <2> QED
      BY <1>1, <1>2, <2>1 DEF PassOK, ErrorsCounted, State
  <1>4. Reported'
    BY <1>1, <1>3 DEF Reported, Wanted, InScope
  <1>5. RootKnown'
    BY <1>1 DEF PassOK, RootKnown, Passing
  <1> QED
    BY <1>1, <1>4, <1>5 DEF PassOK, LastKnown, Position, Passed, ErrorsCounted

LEMMA PassFrame ==
  ASSUME TypeOK, PassOK, UNCHANGED <<urls, root, errors, lastID, result>>,
         \/ UNCHANGED <<pc, cur, requisite>>
         \/ pc \in Working /\ pc' \in Working /\ UNCHANGED <<cur, requisite>>
  PROVE  PassOK'
  <1>1. Passed' /\ Position'
    BY DEF PassOK, Passed, Position, Wanted, InScope
  <1>2. LastKnown' /\ ErrorsCounted' /\ RootKnown'
    BY DEF PassOK, LastKnown, ErrorsCounted, RootKnown, Passing
  <1>3. Reported'
    BY DEF PassOK, Reported, Wanted, InScope
  <1> QED
    BY <1>1, <1>2, <1>3 DEF PassOK

LEMMA PassNext == TypeOK /\ RowsOK /\ PassOK /\ [Next]_vars => PassOK'
  <1> SUFFICES ASSUME TypeOK, RowsOK, PassOK, [Next]_vars PROVE PassOK'
    OBVIOUS
  <1>1. CASE Interrupted \/ ResolveFails
    BY <1>1, PassReturn DEF Interrupted, ResolveFails
  <1>2. ASSUME NEW s \in Starts, NEW u \in BOOLEAN, Begin(s, u) PROVE PassOK'
    BY <1>2 DEF Begin, PassOK, LastKnown, Position, Passed, ErrorsCounted, RootKnown, Reported, Passing
  <1>3. CASE ResolveStart
    BY <1>3 DEF ResolveStart, PassOK, LastKnown, Position, Passed, ErrorsCounted, RootKnown,
                Reported, Passing
  <1>4. CASE Reset
    <2>1. Restarted /\ pc = "reset" /\ pc' = "root" /\ UNCHANGED <<root, lastID, errors, result>>
      BY <1>4, ResetRestarts DEF Reset
    <2>2. lastID' = 0 /\ result' # "ok"
      BY <2>1 DEF PassOK, LastKnown, Reported
    <2>3. ErrorsCounted'
      BY <2>1 DEF Restarted, Again, ErrorsCounted
    <2> QED
      BY <2>1, <2>2, <2>3 DEF PassOK, LastKnown, Position, Passed, RootKnown, Reported, Passing
  <1>5. CASE EnqueueRoot
    <2>1. Entered(root, FALSE) /\ root \in Url
      BY <1>5, EnqueueEnters DEF EnqueueRoot, RowsOK, TypeOK
    <2>2. pc = "root" /\ pc' = "next" /\ UNCHANGED <<root, lastID, errors, result>>
      BY <1>5 DEF EnqueueRoot
    <2>3. lastID' = 0 /\ result' # "ok"
      BY <2>2 DEF PassOK, LastKnown, Reported
    <2>4. root \in DOMAIN urls'
      BY <2>1, StartsAssumption DEF Entered, InScope
    <2>5. Passed'
      <3>1. \A u \in DOMAIN urls' : urls'[u].id > 0
        <4>1. \A u \in DOMAIN urls : urls[u].id > 0
          BY FS_CardinalityType DEF RowsOK
        <4>2. Cardinality(DOMAIN urls) + 1 > 0
          BY FS_CardinalityType DEF RowsOK
        <4> QED
          BY <2>1, <4>1, <4>2 DEF Entered
      <3>2. \A u \in DOMAIN urls' : urls'[u].id \in Nat
        BY <2>1 DEF Entered, Row
      <3>3. \A u \in DOMAIN urls' : ~ (urls'[u].id <= 0)
        BY <3>1, <3>2
      <3> QED
        BY <2>3, <3>3 DEF Passed
    <2>6. ErrorsCounted'
      BY <2>1, <2>2 DEF Entered, PassOK, ErrorsCounted
    <2> QED
      BY <2>2, <2>3, <2>4, <2>5, <2>6 DEF PassOK, LastKnown, Position, RootKnown, Reported
  <1>6. ASSUME NEW u \in Url, Pick(u) PROVE PassOK'
    BY <1>6, PassPick
  <1>7. CASE Finish
    BY <1>7, PassFinish
  <1>8. CASE Gone
    <2>1. Settled("failed", urls[cur].etag) /\ pc \in Working /\ errors' = errors
      BY <1>8, RecordSettles DEF Gone, TypeOK, State
    <2> QED
      BY <1>8, <2>1, PassSettled DEF Gone, Record, State, TypeOK
  <1>9. ASSUME pc \in Working, GiveUp PROVE PassOK'
    <2>1. Settled("error", urls[cur].etag) /\ errors' = TRUE
      BY <1>9, RecordSettles DEF GiveUp, TypeOK, State
    <2> QED
      BY <1>9, <2>1, PassSettled DEF GiveUp, Record, State
  <1>10. CASE Transient
    <2>1. CASE MayRetry
      BY <1>10, <2>1, PassFrame DEF Transient
    <2> QED
      BY <1>9, <1>10, <2>1 DEF Transient
  <1>11. CASE DiskFails
    BY <1>9, <1>11 DEF DiskFails
  <1>12. CASE MarkDone
    <2>1. Settled("done", etag) /\ pc \in Working /\ errors' = errors
      BY <1>12, RecordSettles DEF MarkDone, TypeOK, State
    <2> QED
      BY <1>12, <2>1, PassSettled DEF MarkDone, Record, State, TypeOK
  <1>13. CASE NotModified \/ Redirected \/ ListingRead \/ Saved
    BY <1>13, PassFrame DEF NotModified, Redirected, ListingRead, Saved, ToRecord
  <1>14. ASSUME NEW u \in Url, EnqueueLink(u) \/ EnqueueRequisite(u) PROVE PassOK'
    <2>1. Entered(u, FALSE) \/ Entered(u, TRUE)
      BY <1>14, EnqueueEnters DEF EnqueueLink, EnqueueRequisite, RowsOK
    <2>2. UNCHANGED <<pc, root, lastID, errors, cur, requisite, result>> /\ pc \in Working
      BY <1>14 DEF EnqueueLink, EnqueueRequisite
    <2> QED
      BY <2>1, <2>2, PassEntered
  <1>15. ASSUME NEW u \in Url, SiteChange(u) \/ FileLost(u) PROVE PassOK'
    BY <1>15, PassFrame DEF SiteChange, FileLost, Outside
  <1>16. CASE UNCHANGED vars
    BY <1>16, PassFrame DEF vars
  <1> QED
    BY <1>1, <1>2, <1>3, <1>4, <1>5, <1>6, <1>7, <1>8, <1>10, <1>11, <1>12, <1>13, <1>14,
       <1>15, <1>16
    DEF Next, Mirror, Process

-----------------------------------------------------------------------------
(* What is known.  It survives the run that recorded it, and so must be said of
   the scopes of all the runs: where they are one. *)

OneScope == \A s, t \in DOMAIN meta : Scope[meta[s]] = Scope[meta[t]]
Scopes == {Scope[meta[s]] : s \in DOMAIN meta}

Resolving == pc \in {"idle", "resolve"}
StartKnown ==
  /\ ~ Resolving \/ result = "ok" => start \in DOMAIN meta /\ root = meta[start]
  /\ DOMAIN meta = {} => DOMAIN urls = {}

LEMMA StartNext == TypeOK /\ RowsOK /\ PassOK /\ StartKnown /\ [Next]_vars => StartKnown'
  <1> SUFFICES ASSUME TypeOK, RowsOK, PassOK, StartKnown, [Next]_vars PROVE StartKnown'
    OBVIOUS
  <1>1. CASE Interrupted \/ ResolveFails
    BY <1>1 DEF Interrupted, ResolveFails, Return, StartKnown, Resolving
  <1>2. ASSUME NEW s \in Starts, NEW u \in BOOLEAN, Begin(s, u) PROVE StartKnown'
    BY <1>2 DEF Begin, StartKnown, Resolving
  <1>3. CASE ResolveStart
    <2>1. DOMAIN meta' = DOMAIN meta \cup {start} /\ meta'[start] = root' /\ start' = start
      BY <1>3 DEF ResolveStart
    <2> QED
      BY <2>1 DEF StartKnown
  <1>4. CASE Finish
    BY <1>4 DEF Finish, Return, StartKnown, Resolving
  <1>5. CASE UNCHANGED <<meta, start, root, result>> /\ ~ Resolving
    BY <1>5 DEF StartKnown
  <1>6. CASE UNCHANGED <<meta, urls, start, root, result, pc>>
    BY <1>6 DEF StartKnown, Resolving
  <1> QED
    BY <1>1, <1>2, <1>3, <1>4, <1>5, <1>6
    DEF Next, Mirror, Process, Reset, EnqueueRoot, Pick, Gone, Transient, DiskFails, GiveUp, Record,
        MarkDone, NotModified, Redirected, ListingRead, Saved, ToRecord, EnqueueLink,
        EnqueueRequisite, SiteChange, FileLost, Outside, vars, Resolving

(* The scope of the run at hand is that of all runs. *)
LEMMA ThisScope ==
  ASSUME OneScope, StartKnown, ~ Resolving \/ result = "ok", NEW S \in Scopes
  PROVE  S = Scope[root] /\ Scope[root] \in Scopes
  BY DEF OneScope, StartKnown, Scopes

(* Only the first run adds a scope to none. *)
LEMMA ScopesStay ==
  ASSUME TypeOK, StartKnown, [Next]_vars, OneScope'
  PROVE  OneScope /\ (Scopes' = Scopes \/ DOMAIN urls' = {})
  <1>1. CASE UNCHANGED meta
    BY <1>1 DEF OneScope, Scopes
  <1>2. CASE ResolveStart
    <2>1. /\ DOMAIN meta' = DOMAIN meta \cup {start} /\ urls' = urls
          /\ start \in DOMAIN meta => meta'[start] = meta[start]
          /\ \A s \in DOMAIN meta \ {start} : meta'[s] = meta[s]
      BY <1>2 DEF ResolveStart
    <2>2. OneScope
      BY <2>1 DEF OneScope
    <2>3. ASSUME NEW t \in DOMAIN meta PROVE Scopes' = Scopes
      BY <2>1 DEF OneScope, Scopes
    <2> QED
      BY <2>1, <2>2, <2>3 DEF StartKnown
  <1> QED
    BY <1>1, <1>2
    DEF Next, Mirror, Process, Begin, ResolveFails, Reset, EnqueueRoot, Return, Pick, Finish, Gone,
        Transient, DiskFails, GiveUp, Record, MarkDone, NotModified, Redirected, ListingRead, Saved,
        ToRecord, EnqueueLink, EnqueueRequisite, Interrupted, SiteChange, FileLost, Outside, vars

(* What version n of u refers to that should be known, within scope S; of a
   redirected requisite the target too. *)
Refs(S, u, n, req) ==
  LET pg == Site[u][n]
  IN  {v \in Url :
         \/ v \in pg.links \cap S
              /\ (pg.kind = "redirect" \/ (u \in S /\ pg.kind \in {"html", "listing"}))
         \/ v \in pg.reqs /\ (pg.kind = "css" \/ (u \in S /\ pg.kind = "html"))
         \/ v \in pg.links /\ pg.kind = "redirect" /\ req}
Recorded(S, u, n) == Refs(S, u, n, urls[u].requisite) \subseteq DOMAIN urls

(* Where what the server has now is what was recorded: nothing ever changed, or
   nothing since an update began. *)
Certain == changes = 0 \/ (quiet /\ update /\ Passing)

History == changes = 0 => quiet
ValidatorsRecorded ==
  \A S \in Scopes : \A u \in DOMAIN urls : urls[u].etag # 0 => Recorded(S, u, urls[u].etag)
DoneRecorded ==
  Certain =>
    \A S \in Scopes : \A u \in DOMAIN urls : urls[u].state = "done" => Recorded(S, u, serve[u])
(* Of the page at hand, some is still to be recorded. *)
RestRecorded(n) ==
  Refs(Scope[root], cur, n, urls[cur].requisite)
    \subseteq DOMAIN urls \cup (links \cap Scope[root]) \cup reqs
AtHand ==
  pc = "record" => (etag # 0 => RestRecorded(etag)) /\ (quiet => RestRecorded(serve[cur]))

KnownOK == ValidatorsRecorded /\ DoneRecorded /\ AtHand

LEMMA RefsShrink ==
  ASSUME NEW S, NEW u, NEW n, NEW r1, NEW r2, r2 => r1
  PROVE  Refs(S, u, n, r2) \subseteq Refs(S, u, n, r1)
  BY DEF Refs

LEMMA HistoryNext == TypeOK /\ History /\ [Next]_vars => History'
  <1> SUFFICES ASSUME TypeOK, History, [Next]_vars PROVE History'
    OBVIOUS
  <1>1. CASE UNCHANGED <<changes, quiet>>
    BY <1>1 DEF History
  <1>2. ASSUME NEW s \in Starts, NEW u \in BOOLEAN, Begin(s, u) PROVE History'
    BY <1>2 DEF Begin, History
  <1>3. CASE Outside
    <2>1. changes \in Nat /\ changes' = changes + 1
      BY <1>3, BoundsAssumption DEF Outside, TypeOK
    <2> QED
      BY <2>1 DEF History
  <1> QED
    BY <1>1, <1>2, <1>3
    DEF Next, Mirror, Process, ResolveStart, ResolveFails, Reset, EnqueueRoot, Return, Pick, Finish,
        Gone, Transient, DiskFails, GiveUp, Record, MarkDone, NotModified, Redirected, ListingRead,
        Saved, ToRecord, EnqueueLink, EnqueueRequisite, Interrupted, SiteChange, FileLost, vars

(* Rows that were there refer to no more than they did, and a new one to
   nothing yet. *)
LEMMA ValidatorsEntered ==
  ASSUME ValidatorsRecorded, Scopes' = Scopes, NEW u \in Url, NEW b \in BOOLEAN, Entered(u, b)
  PROVE  ValidatorsRecorded'
  <1> SUFFICES ASSUME NEW S \in Scopes, NEW v \in DOMAIN urls', urls'[v].etag # 0
               PROVE  Recorded(S, v, urls[v].etag)' 
    BY DEF ValidatorsRecorded, Entered
  <1>1. v \in DOMAIN urls /\ urls'[v].etag = urls[v].etag /\ (urls'[v].requisite => urls[v].requisite)
    BY DEF Entered
  <1>2. Recorded(S, v, urls[v].etag)
    BY <1>1 DEF ValidatorsRecorded
  <1>3. Refs(S, v, urls[v].etag, urls'[v].requisite) \subseteq Refs(S, v, urls[v].etag, urls[v].requisite)
    BY <1>1, RefsShrink
  <1>4. DOMAIN urls \subseteq DOMAIN urls'
    BY DEF Entered
  <1> QED
    BY <1>1, <1>2, <1>3, <1>4 DEF Recorded

LEMMA DoneEntered ==
  ASSUME DoneRecorded, Certain, Scopes' = Scopes, serve' = serve,
         NEW u \in Url, NEW b \in BOOLEAN, Entered(u, b)
  PROVE  DoneRecorded'
  <1> SUFFICES ASSUME NEW S \in Scopes, NEW v \in DOMAIN urls', urls'[v].state = "done"
               PROVE  Recorded(S, v, serve[v])' 
    BY DEF DoneRecorded
  <1>1. v \in DOMAIN urls /\ urls[v].state = "done" /\ (urls'[v].requisite => urls[v].requisite)
    BY DEF Entered
  <1>2. Recorded(S, v, serve[v])
    BY <1>1 DEF DoneRecorded
  <1>3. Refs(S, v, serve[v], urls'[v].requisite) \subseteq Refs(S, v, serve[v], urls[v].requisite)
    BY <1>1, RefsShrink
  <1>4. DOMAIN urls \subseteq DOMAIN urls'
    BY DEF Entered
  <1> QED
    BY <1>1, <1>2, <1>3, <1>4 DEF Recorded

(* Rows, scopes and server as they were. *)
LEMMA KnownFrame ==
  ASSUME KnownOK, UNCHANGED <<urls, serve>>, Scopes' = Scopes, Certain' => Certain, AtHand'
  PROVE  KnownOK'
  <1>1. ValidatorsRecorded'
    BY DEF KnownOK, ValidatorsRecorded, Recorded
  <1>2. DoneRecorded'
    BY DEF KnownOK, DoneRecorded, Recorded
  <1> QED
    BY <1>1, <1>2 DEF KnownOK

(* What an attempt read is recorded, or noted to be recorded. *)
LEMMA KnownAtHand ==
  ASSUME TypeOK, OneScope, StartKnown, PassOK, KnownOK, Scopes' = Scopes,
         NotModified \/ Redirected \/ ListingRead \/ Saved
  PROVE  AtHand'
  <1>1. /\ pc = "fetch" /\ UNCHANGED <<urls, serve, cur, root>>
        /\ cur \in DOMAIN urls /\ cur \in Url
    BY DEF NotModified, Redirected, ListingRead, Saved, ToRecord, TypeOK
  <1>2. etag' # 0 => etag' = serve[cur]
    BY DEF NotModified, Redirected, ListingRead, Saved, ToRecord, Unmodified
  <1> SUFFICES RestRecorded(serve[cur])'
    BY <1>1, <1>2 DEF AtHand, RestRecorded
  <1> DEFINE S == Scope[root]
  <1> SUFFICES ASSUME NEW v \in Refs(S, cur, serve[cur], urls[cur].requisite)
               PROVE  v \in DOMAIN urls \cup (links' \cap S) \cup reqs'
    BY <1>1 DEF RestRecorded
  <1>3. CASE NotModified
    <2>1. serve[cur] # 0 /\ urls[cur].etag = serve[cur]
      <3>1. Site[cur] \in Seq(Page) /\ serve[cur] \in DOMAIN Site[cur]
        BY <1>1, SiteAssumption DEF TypeOK
      <3> QED
        BY <1>3, <3>1 DEF NotModified, Unmodified
    <2>2. S \in Scopes
      BY <1>1 DEF StartKnown, Scopes, Resolving
    <2> QED
      BY <1>1, <2>1, <2>2 DEF KnownOK, ValidatorsRecorded, Recorded
  <1>4. CASE Redirected
    <2>1. urls[cur].requisite => requisite
      BY <1>1 DEF PassOK, Position
    <2>2. Site[cur][serve[cur]].kind = "redirect"
      BY <1>4 DEF Redirected, PageOf
    <2>3. /\ ~ requisite => links' = Site[cur][serve[cur]].links
          /\ requisite => reqs' = Site[cur][serve[cur]].links
      BY <1>4 DEF Redirected, ToRecord, PageOf
    <2> QED
      BY <2>1, <2>2, <2>3 DEF Refs
  <1>5. CASE ListingRead
    BY <1>5 DEF ListingRead, IsListing, ToRecord, LinksOf, Refs, PageOf, InScope
  <1>6. CASE Saved
    BY <1>6 DEF Saved, ToRecord, LinksOf, ReqsOf, Refs, PageOf, InScope
  <1> QED
    BY <1>3, <1>4, <1>5, <1>6

LEMMA KnownEnqueued ==
  ASSUME TypeOK, RowsOK, KnownOK, PassOK, History, Scopes' = Scopes,
         NEW u \in Url, EnqueueLink(u) \/ EnqueueRequisite(u)
  PROVE  KnownOK'
  <1>1. PICK b \in BOOLEAN : Entered(u, b) /\ (b \/ reqs' = reqs)
    <2>1. EnqueueLink(u) => Entered(u, FALSE) /\ reqs' = reqs
      BY EnqueueEnters DEF EnqueueLink, RowsOK
    <2>2. EnqueueRequisite(u) => Entered(u, TRUE)
      BY EnqueueEnters DEF EnqueueRequisite, RowsOK
    <2> QED
      BY <2>1, <2>2
  <1>2. pc = "record" /\ UNCHANGED <<serve, root, cur, pc, etag, quiet, update, changes, result>>
    BY DEF EnqueueLink, EnqueueRequisite
  <1>3. /\ DOMAIN urls \subseteq DOMAIN urls' /\ cur \in DOMAIN urls
        /\ urls'[cur].requisite => urls[cur].requisite
    BY <1>1, <1>2 DEF Entered, TypeOK
  <1>4. links \cap Scope[root] \subseteq DOMAIN urls' \cup (links' \cap Scope[root])
        /\ reqs \subseteq DOMAIN urls' \cup reqs'
    BY <1>1 DEF EnqueueLink, EnqueueRequisite, Entered, InScope
  <1>5. ASSUME NEW n, RestRecorded(n)
        PROVE  Refs(Scope[root], cur, n, urls'[cur].requisite)
                 \subseteq DOMAIN urls' \cup (links' \cap Scope[root]) \cup reqs'
    <2>1. Refs(Scope[root], cur, n, urls'[cur].requisite)
            \subseteq Refs(Scope[root], cur, n, urls[cur].requisite)
      BY <1>3, RefsShrink
    <2> QED
      BY <1>3, <1>4, <1>5, <2>1 DEF RestRecorded
  <1>6. AtHand'
    BY <1>2, <1>5 DEF KnownOK, AtHand, RestRecorded
  <1>7. ValidatorsRecorded'
    BY <1>1, ValidatorsEntered DEF KnownOK
  <1>8. DoneRecorded'
    <2>1. Certain' <=> Certain
      BY <1>2 DEF Certain, Passing
    <2> QED
      BY <1>1, <1>2, <2>1, DoneEntered DEF KnownOK, DoneRecorded
  <1> QED
    BY <1>6, <1>7, <1>8 DEF KnownOK

LEMMA KnownSettled ==
  ASSUME TypeOK, KnownOK, pc \in Working, Scopes' = Scopes, NEW st \in State, NEW tag, Settled(st, tag),
         UNCHANGED <<serve, quiet, update, changes>>, pc' = "next",
         tag = urls[cur].etag \/ (tag # 0 => \A S \in Scopes : Recorded(S, cur, tag)),
         st = "done" /\ Certain => \A S \in Scopes : Recorded(S, cur, serve[cur])
  PROVE  KnownOK'
  <1>1. Certain' => Certain
    BY DEF Certain, Passing
  <1>2. \A S, u, n : u \in DOMAIN urls => (Recorded(S, u, n)' <=> Recorded(S, u, n))
    BY DEF Recorded, Settled
  <1>3. ASSUME NEW S \in Scopes, NEW u \in DOMAIN urls, urls'[u].etag # 0
        PROVE  Recorded(S, u, urls'[u].etag)
    BY <1>3 DEF Settled, KnownOK, ValidatorsRecorded
  <1>4. ASSUME NEW S \in Scopes, NEW u \in DOMAIN urls, urls'[u].state = "done", Certain
        PROVE  Recorded(S, u, serve[u])
    BY <1>4 DEF Settled, KnownOK, DoneRecorded
  <1>5. DOMAIN urls' = DOMAIN urls
    BY DEF Settled
  <1>6. ValidatorsRecorded'
    BY <1>3, <1>5, <1>2 DEF ValidatorsRecorded, Recorded, Settled
  <1>7. DoneRecorded'
    BY <1>1, <1>4, <1>5, <1>2 DEF DoneRecorded, Recorded, Settled
  <1> QED
    BY <1>6, <1>7 DEF KnownOK, AtHand

LEMMA KnownDone ==
  ASSUME TypeOK, CurPending, OneScope, StartKnown, History, KnownOK, Scopes' = Scopes, MarkDone
  PROVE  KnownOK'
  <1>1. pc = "record" /\ links = {} /\ reqs = {} /\ cur \in DOMAIN urls
    BY DEF MarkDone, TypeOK
  <1>2. Settled("done", etag)
    BY <1>1, RecordSettles DEF MarkDone, State
  <1>3. \A S \in Scopes : S = Scope[root]
    BY <1>1, ThisScope DEF Resolving
  <1>4. etag # 0 => \A S \in Scopes : Recorded(S, cur, etag)
    BY <1>1, <1>3 DEF KnownOK, AtHand, RestRecorded, Recorded
  <1>5. Certain => \A S \in Scopes : Recorded(S, cur, serve[cur])
    BY <1>1, <1>3 DEF KnownOK, AtHand, RestRecorded, Recorded, Certain, History
  <1>6. UNCHANGED <<serve, quiet, update, changes>> /\ pc' = "next"
    BY DEF MarkDone, Record
  <1> QED
    BY <1>1, <1>2, <1>4, <1>5, <1>6, KnownSettled DEF State

LEMMA KnownStep ==
  ASSUME TypeOK, RowsOK, CurPending, CurrentOK, PassOK, StartKnown, History, KnownOK,
         OneScope, Scopes' = Scopes, [Next]_vars
  PROVE  KnownOK'
  <1>1. CASE Interrupted \/ ResolveFails
    BY <1>1, KnownFrame DEF Interrupted, ResolveFails, Return, Certain, Passing, AtHand
  <1>2. ASSUME NEW s \in Starts, NEW u \in BOOLEAN, Begin(s, u) PROVE KnownOK'
    BY <1>2, KnownFrame DEF Begin, Certain, Passing, AtHand
  <1>3. CASE ResolveStart
    BY <1>3, KnownFrame DEF ResolveStart, Certain, Passing, AtHand
  <1>4. CASE Reset
    <2>1. Restarted /\ UNCHANGED <<serve, quiet, update, changes, result>> /\ pc' = "root"
      BY <1>4, ResetRestarts DEF Reset
    <2>2. Certain' => Certain
      BY <2>1 DEF Certain, Passing
    <2>3. ValidatorsRecorded'
      BY <2>1 DEF KnownOK, ValidatorsRecorded, Recorded, Restarted
    <2>4. \A u \in DOMAIN urls : urls'[u].state = "done" => urls[u].state = "done"
      BY <2>1 DEF Restarted
    <2>5. DoneRecorded'
      BY <2>1, <2>2, <2>4 DEF KnownOK, DoneRecorded, Recorded, Restarted
    <2> QED
      BY <2>1, <2>3, <2>5 DEF KnownOK, AtHand
  <1>5. CASE EnqueueRoot
    <2>1. Entered(root, FALSE) /\ root \in Url
      BY <1>5, EnqueueEnters DEF EnqueueRoot, RowsOK, TypeOK
    <2>2. /\ pc = "root" /\ pc' = "next"
          /\ UNCHANGED <<serve, quiet, update, changes, result>>
      BY <1>5 DEF EnqueueRoot
    <2>3. ValidatorsRecorded'
      BY <2>1, ValidatorsEntered DEF KnownOK
    <2>4. CASE update
      <3>1. \A u \in DOMAIN urls' : urls'[u].state = "pending"
        BY <2>1, <2>2, <2>4 DEF Entered, CurrentOK
      <3> QED
        BY <2>2, <2>3, <3>1 DEF KnownOK, DoneRecorded, AtHand
    <2>5. CASE ~ update
      <3>1. Certain' => Certain
        BY <2>2, <2>5 DEF Certain
      <3>2. DoneRecorded'
        BY <2>1, <2>2, <3>1, DoneEntered DEF KnownOK, DoneRecorded
      <3> QED
        BY <2>2, <2>3, <3>2 DEF KnownOK, AtHand
    <2> QED
      BY <2>4, <2>5
  <1>6. ASSUME NEW u \in Url, Pick(u) PROVE KnownOK'
    BY <1>6, KnownFrame DEF Pick, Certain, Passing, AtHand
  <1>7. CASE Finish
    BY <1>7, KnownFrame DEF Finish, Return, Certain, Passing, AtHand
  <1>8. CASE Gone
    <2>1. Settled("failed", urls[cur].etag) /\ pc \in Working
      BY <1>8, RecordSettles DEF Gone, TypeOK, State
    <2> QED
      BY <1>8, <2>1, KnownSettled DEF Gone, Record, State
  <1>9. ASSUME pc \in Working, GiveUp PROVE KnownOK'
    <2>1. Settled("error", urls[cur].etag)
      BY <1>9, RecordSettles DEF GiveUp, TypeOK, State
    <2> QED
      BY <1>9, <2>1, KnownSettled DEF GiveUp, Record, State
  <1>10. CASE Transient
    <2>1. CASE MayRetry
      BY <1>10, <2>1, KnownFrame DEF Transient, Certain, Passing, AtHand
    <2> QED
      BY <1>9, <1>10, <2>1 DEF Transient
  <1>11. CASE DiskFails
    BY <1>9, <1>11 DEF DiskFails
  <1>12. CASE NotModified \/ Redirected \/ ListingRead \/ Saved
    <2>1. UNCHANGED <<urls, serve, quiet, update, changes, result>> /\ pc = "fetch"
      BY <1>12 DEF NotModified, Redirected, ListingRead, Saved, ToRecord
    <2>2. AtHand'
      BY <1>12, KnownAtHand
    <2> QED
      BY <2>1, <2>2, KnownFrame DEF Certain, Passing
  <1>13. ASSUME NEW u \in Url, EnqueueLink(u) \/ EnqueueRequisite(u) PROVE KnownOK'
    BY <1>13, KnownEnqueued
  <1>14. CASE MarkDone
    BY <1>14, KnownDone
  <1>15. ASSUME NEW u \in Url, SiteChange(u) \/ FileLost(u) PROVE KnownOK'
    <2>1. UNCHANGED <<urls, root, cur, links, reqs, etag, pc>> /\ ~ quiet' /\ changes' # 0
      <3>1. changes \in Nat /\ changes' = changes + 1
        BY <1>15, BoundsAssumption DEF SiteChange, FileLost, Outside, TypeOK
      <3> QED
        BY <1>15, <3>1 DEF SiteChange, FileLost, Outside
    <2>2. ValidatorsRecorded'
      BY <2>1 DEF KnownOK, ValidatorsRecorded, Recorded
    <2>3. AtHand'
      BY <2>1 DEF KnownOK, AtHand, RestRecorded
    <2>4. DoneRecorded'
      BY <2>1 DEF DoneRecorded, Certain
    <2> QED
      BY <2>2, <2>3, <2>4 DEF KnownOK
  <1>16. CASE UNCHANGED vars
    BY <1>16, KnownFrame DEF vars, Certain, Passing, AtHand, RestRecorded, KnownOK
  <1> QED
    BY <1>1, <1>2, <1>3, <1>4, <1>5, <1>6, <1>7, <1>8, <1>10, <1>11, <1>12, <1>13, <1>14,
       <1>15, <1>16
    DEF Next, Mirror, Process

LEMMA KnownNext ==
  ASSUME TypeOK, TypeOK', RowsOK, CurPending, CurrentOK, PassOK, StartKnown, History,
         OneScope => KnownOK, [Next]_vars, OneScope'
  PROVE  KnownOK'
  <1>1. OneScope /\ (Scopes' = Scopes \/ DOMAIN urls' = {})
    BY ScopesStay
  <1>2. CASE DOMAIN urls' = {}
    <2>1. pc' # "record"
      BY <1>2 DEF TypeOK
    <2> QED
      BY <1>2, <2>1 DEF KnownOK, ValidatorsRecorded, DoneRecorded, AtHand
  <1> QED
    BY <1>1, <1>2, KnownStep

LEMMA RunInit == Init => StartKnown /\ History /\ KnownOK
  <1> SUFFICES ASSUME Init PROVE StartKnown /\ History /\ KnownOK
    OBVIOUS
  <1>1. DOMAIN urls = {} /\ DOMAIN meta = {} /\ pc = "idle" /\ result = "none" /\ quiet
    BY DEF Init
  <1> QED
    BY <1>1 DEF StartKnown, Resolving, History, KnownOK, ValidatorsRecorded, DoneRecorded, AtHand

(* All of it together. *)
CrawlOK ==
  /\ TypeOK /\ RowsOK /\ CurPending /\ FilesOK /\ CurrentOK /\ PassOK /\ StartKnown /\ History
  /\ OneScope => KnownOK

LEMMA CrawlAlways == Spec => []CrawlOK
  <1>1. Init => CurPending /\ CurrentOK
    BY DEF Init, CurPending, CurrentOK, Passing
  <1>2. TypeOK /\ TypeOK' /\ RowsOK /\ CrawlOK /\ [Next]_vars => (OneScope => KnownOK)'
    BY KnownNext DEF CrawlOK
  <1>3. Init => CrawlOK
    BY <1>1, TypeInit, FilesInit, PassInit, RunInit DEF CrawlOK
  <1>4. TypeOK /\ TypeOK' /\ RowsOK /\ CrawlOK /\ [Next]_vars => CrawlOK'
    BY <1>2, RowsNext, CurPendingNext, FilesNext, CurrentNext, PassNext, StartNext, HistoryNext
    DEF CrawlOK
  <1> QED
    BY <1>3, <1>4, TypeCorrect, PTL DEF Spec

LEMMA CompleteWhenOK ==
  ASSUME CrawlOK, OneScope, result = "ok", quiet, update \/ changes = 0
  PROVE  Complete
  <1>1. Certain /\ KnownOK /\ root \in DOMAIN urls
    BY DEF CrawlOK, Certain, Passing, PassOK, RootKnown
  <1>2. Scope[root] \in Scopes
    BY DEF CrawlOK, StartKnown, Scopes
  <1>3. \A u \in DOMAIN urls : Wanted(u) => urls[u].state \in {"done", "failed"}
    BY DEF CrawlOK, PassOK, Reported
  <1>4. ASSUME NEW u \in DOMAIN urls, urls[u].state = "done", NEW v \in Url, Needed(u, v)
        PROVE  v \in DOMAIN urls
    <2>1. Recorded(Scope[root], u, serve[u])
      BY <1>1, <1>2, <1>4 DEF KnownOK, DoneRecorded
    <2>2. v \in Refs(Scope[root], u, serve[u], urls[u].requisite)
      BY <1>4 DEF Needed, Refers, LinksOf, ReqsOf, PageOf, InScope, Refs
    <2> QED
      BY <2>1, <2>2 DEF Recorded
  <1> QED
    BY <1>1, <1>3, <1>4 DEF Complete

(* A run that reports success leaves a complete mirror, if nothing ever changed
   or it was an update during which nothing did, whatever earlier runs were cut
   short: what a validator or a done row stands for has been recorded
   (httpmirror.go:311-345, 437-440, 531-542).  So where all that was mirrored
   here has one scope; the run scopes shows that it need not be so where not. *)
THEOREM CompleteInOneScope == Spec => [](OneScope => SuccessIsComplete)
  <1>1. CrawlOK => (OneScope => SuccessIsComplete)
    BY CompleteWhenOK DEF SuccessIsComplete
  <1> QED
    BY <1>1, CrawlAlways, PTL

(* Two calls with one source have one scope. *)
LEMMA OneSource ==
  ASSUME TypeOK, \A s, t \in Starts : s = t
  PROVE  OneScope
  BY DEF TypeOK, OneScope

(* A directory into which one source is mirrored is complete on success. *)
THEOREM SuccessOfOneSource ==
  ASSUME \A s, t \in Starts : s = t
  PROVE  Spec => []SuccessIsComplete
  <1>1. TypeOK => OneScope
    BY OneSource
  <1> QED
    BY <1>1, CompleteInOneScope, TypeCorrect, PTL

-----------------------------------------------------------------------------
(* Outside the scope. *)

(* Who may lead outside the scope, and where. *)
LeadsOut(S, u, v) ==
  \E n \in DOMAIN Site[u] :
    \/ Site[u][n].kind = "html" /\ u \in S /\ v \in Site[u][n].reqs
    \/ Site[u][n].kind = "css" /\ v \in Site[u][n].reqs
    \/ Site[u][n].kind = "redirect" /\ v \in Site[u][n].links

OutsideKnown ==
  \A S \in Scopes : \A v \in DOMAIN urls \ S :
    urls[v].requisite /\ \E u \in DOMAIN urls : LeadsOut(S, u, v)
OutsideAtHand == pc = "record" => \A v \in reqs : LeadsOut(Scope[root], cur, v)
EscapesOK == OutsideKnown /\ OutsideAtHand

LEMMA EscapesFrame ==
  ASSUME OutsideKnown, Scopes' = Scopes, DOMAIN urls' = DOMAIN urls,
         \A u \in DOMAIN urls : urls'[u].requisite = urls[u].requisite
  PROVE  OutsideKnown'
  BY DEF OutsideKnown

LEMMA EscapesEntered ==
  ASSUME OutsideKnown, StartKnown, OneScope, ~ Resolving, Scopes' = Scopes,
         NEW u \in Url, NEW b \in BOOLEAN, Entered(u, b),
         b => cur \in DOMAIN urls /\ LeadsOut(Scope[root], cur, u)
  PROVE  OutsideKnown'
  <1>1. SUFFICES ASSUME NEW S \in Scopes, NEW v \in DOMAIN urls' \ S
                 PROVE  urls'[v].requisite /\ \E w \in DOMAIN urls' : LeadsOut(S, w, v)
    BY DEF OutsideKnown
  <1>2. S = Scope[root] /\ DOMAIN urls \subseteq DOMAIN urls' /\ DOMAIN urls' \subseteq DOMAIN urls \cup {u}
    BY ThisScope DEF Entered
  <1>3. CASE v \in DOMAIN urls
    <2>1. urls[v].requisite /\ \E w \in DOMAIN urls : LeadsOut(S, w, v)
      BY <1>3 DEF OutsideKnown
    <2>2. urls'[v].requisite
      BY <1>2, <1>3, <2>1 DEF Entered, InScope
    <2> QED
      BY <1>2, <2>1, <2>2
  <1>4. CASE v \notin DOMAIN urls
    <2>1. v = u /\ ~ InScope(u)
      BY <1>2, <1>4 DEF InScope
    <2>2. b /\ urls'[v].requisite = b
      BY <1>4, <2>1 DEF Entered
    <2> QED
      BY <1>2, <2>1, <2>2
  <1> QED
    BY <1>3, <1>4

LEMMA EscapesStep ==
  ASSUME TypeOK, RowsOK, StartKnown, EscapesOK, OneScope, Scopes' = Scopes, [Next]_vars
  PROVE  EscapesOK'
  <1>1. CASE /\ pc' # "record" /\ DOMAIN urls' = DOMAIN urls
             /\ \A u \in DOMAIN urls : urls'[u].requisite = urls[u].requisite
    BY <1>1, EscapesFrame DEF EscapesOK, OutsideAtHand
  <1>2. CASE Reset
    <2>1. Restarted /\ pc' # "record"
      BY <1>2, ResetRestarts DEF Reset
    <2> QED
      BY <1>1, <2>1 DEF Restarted
  <1>3. CASE Gone \/ Transient \/ DiskFails \/ MarkDone
    <2>1. /\ pc' # "record" /\ cur \in DOMAIN urls
          /\ \/ UNCHANGED urls
             \/ \E st \in State :
                  \/ Record([urls[cur] EXCEPT !.state = st])
                  \/ Record([urls[cur] EXCEPT !.state = st, !.etag = etag])
      BY <1>3 DEF Gone, Transient, DiskFails, GiveUp, MarkDone, Record, State, TypeOK
    <2>2. UNCHANGED urls \/ \E st, tag : Settled(st, tag)
      BY <2>1, RecordSettles
    <2> QED
      BY <1>1, <2>1, <2>2 DEF Settled
  <1>4. CASE EnqueueRoot
    <2>1. Entered(root, FALSE) /\ root \in Url
      BY <1>4, EnqueueEnters DEF EnqueueRoot, RowsOK, TypeOK
    <2>2. ~ Resolving /\ pc' # "record"
      BY <1>4 DEF EnqueueRoot, Resolving
    <2> QED
      BY <2>1, <2>2, EscapesEntered DEF EscapesOK, OutsideAtHand
  <1>5. ASSUME NEW u \in Url, EnqueueLink(u) \/ EnqueueRequisite(u) PROVE EscapesOK'
    <2>1. PICK b \in BOOLEAN : Entered(u, b) /\ (b => u \in reqs)
      <3>1. EnqueueLink(u) => Entered(u, FALSE)
        BY EnqueueEnters DEF EnqueueLink, RowsOK
      <3>2. EnqueueRequisite(u) => Entered(u, TRUE) /\ u \in reqs
        BY EnqueueEnters DEF EnqueueRequisite, RowsOK
      <3> QED
        BY <1>5, <3>1, <3>2
    <2>2. /\ pc = "record" /\ cur \in DOMAIN urls /\ ~ Resolving
          /\ UNCHANGED <<root, cur, pc>> /\ reqs' \subseteq reqs
      BY <1>5 DEF EnqueueLink, EnqueueRequisite, TypeOK, Resolving
    <2>3. OutsideKnown'
      BY <2>1, <2>2, EscapesEntered DEF EscapesOK, OutsideAtHand
    <2>4. OutsideAtHand'
      BY <2>2 DEF EscapesOK, OutsideAtHand
    <2> QED
      BY <2>3, <2>4 DEF EscapesOK
  <1>6. CASE NotModified \/ Redirected \/ ListingRead \/ Saved
    <2>1. UNCHANGED <<urls, serve, cur, root>> /\ pc = "fetch" /\ cur \in Url
          /\ serve[cur] \in DOMAIN Site[cur]
      BY <1>6 DEF NotModified, Redirected, ListingRead, Saved, ToRecord, TypeOK
    <2>2. ASSUME NEW v \in reqs' PROVE LeadsOut(Scope[root], cur, v)
      BY <1>6, <2>1
      DEF NotModified, Redirected, ListingRead, Saved, ToRecord, ReqsOf, PageOf, InScope, LeadsOut
    <2> QED
      BY <2>1, <2>2, EscapesFrame DEF EscapesOK, OutsideAtHand
  <1>7. CASE UNCHANGED <<urls, pc, root, cur, reqs>>
    BY <1>7, EscapesFrame DEF EscapesOK, OutsideAtHand
  <1> QED
    BY <1>1, <1>2, <1>3, <1>4, <1>5, <1>6, <1>7
    DEF Next, Mirror, Process, Begin, ResolveStart, ResolveFails, Return, Pick, Finish, Interrupted,
        SiteChange, FileLost, Outside, vars

LEMMA EscapesNext ==
  ASSUME TypeOK, TypeOK', RowsOK, StartKnown, OneScope => EscapesOK, [Next]_vars, OneScope'
  PROVE  EscapesOK'
  <1>1. OneScope /\ (Scopes' = Scopes \/ DOMAIN urls' = {})
    BY ScopesStay
  <1>2. CASE DOMAIN urls' = {}
    <2>1. pc' # "record"
      BY <1>2 DEF TypeOK
    <2> QED
      BY <1>2, <2>1 DEF EscapesOK, OutsideKnown, OutsideAtHand
  <1> QED
    BY <1>1, <1>2, EscapesStep

LEMMA EscapeFree ==
  ASSUME StartKnown, EscapesOK
  PROVE  NoEscape
  <1>1. pc \notin {"idle", "resolve"} => Scope[root] \in Scopes
    BY DEF StartKnown, Resolving, Scopes
  <1> QED
    BY <1>1 DEF EscapesOK, OutsideKnown, LeadsOut, NoEscape, InScope

(* The crawl leaves the scope only for requisites of what is known, and follows
   those on only from stylesheets and redirects, over all the runs into a
   directory whose scopes are one (httpmirror.go:475-476, 548-551). *)
THEOREM NoEscapeFromOneScope == Spec => [](OneScope => NoEscape)
  <1>1. Init => (OneScope => EscapesOK)
    BY DEF Init, EscapesOK, OutsideKnown, OutsideAtHand
  <1>2. TypeOK /\ TypeOK' /\ RowsOK /\ CrawlOK /\ (OneScope => EscapesOK) /\ [Next]_vars
        => (OneScope => EscapesOK)'
    BY EscapesNext DEF CrawlOK
  <1>3. CrawlOK /\ (OneScope => EscapesOK) => (OneScope => NoEscape)
    BY EscapeFree DEF CrawlOK
  <1> QED
    BY <1>1, <1>2, <1>3, CrawlAlways, TypeCorrect, PTL DEF Spec

THEOREM NoEscapeOfOneSource ==
  ASSUME \A s, t \in Starts : s = t
  PROVE  Spec => []NoEscape
  <1>1. TypeOK => OneScope
    BY OneSource
  <1> QED
    BY <1>1, NoEscapeFromOneScope, TypeCorrect, PTL
=============================================================================
