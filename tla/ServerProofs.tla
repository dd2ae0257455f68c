--------------------------- MODULE ServerProofs -----------------------------
(***************************************************************************)
(* What mirrord's server keeps: the event stream of a job, for any number  *)
(* of lines, pipes and readers and any sizes of the buffers on the way; and *)
(* the authentication, for any number of browsers, logins and reloads of   *)
(* the configuration.                                                      *)
(***************************************************************************)
EXTENDS LogStream, Auth, SequenceTheorems, TLAPS

-----------------------------------------------------------------------------
(* Sequences without repetitions, and those that follow one of them: every *)
(* element is one of s, and they come in the order of s.                   *)
Distinct(s) == \A m, n \in DOMAIN s : s[m] = s[n] => m = n

Place(s, k) == CHOOSE n \in DOMAIN s : s[n] = k

Follows(q, s) ==
    /\ \A i \in DOMAIN q : \E n \in DOMAIN s : s[n] = q[i]
    /\ \A i, j \in DOMAIN q : i < j => Place(s, q[i]) < Place(s, q[j])

Suffix(s, m) == SubSeq(s, m, Len(s))

LEMMA PlaceOf ==
  ASSUME NEW s, Distinct(s), NEW n \in DOMAIN s
  PROVE  Place(s, s[n]) = n
  BY DEF Distinct, Place

LEMMA DistinctAppend ==
  ASSUME NEW S, NEW s \in Seq(S), NEW k \in S, Distinct(s),
         \A n \in DOMAIN s : s[n] # k
  PROVE  Distinct(Append(s, k))
<1>1. /\ DOMAIN s = 1 .. Len(s) /\ Len(s) \in Nat
      /\ DOMAIN Append(s, k) = 1 .. (Len(s) + 1)
      /\ \A i \in 1 .. Len(s) : Append(s, k)[i] = s[i]
      /\ Append(s, k)[Len(s) + 1] = k
  BY AppendProperties, LenProperties
<1>2. \A n \in 1 .. (Len(s) + 1) : n \in 1 .. Len(s) \/ n = Len(s) + 1
  BY <1>1
<1>. QED
  BY <1>1, <1>2 DEF Distinct

LEMMA DistinctTail ==
  ASSUME NEW S, NEW s \in Seq(S), s # <<>>, Distinct(s)
  PROVE  Distinct(Tail(s)) /\ \A n \in DOMAIN Tail(s) : Tail(s)[n] # Head(s)
<1>1. /\ Tail(s) \in Seq(S) /\ Len(Tail(s)) = Len(s) - 1 /\ Len(s) \in Nat \ {0}
      /\ \A i \in 1 .. Len(Tail(s)) : Tail(s)[i] = s[i + 1]
  BY HeadTailProperties, EmptySeq
<1>2. DOMAIN Tail(s) = 1 .. (Len(s) - 1) /\ DOMAIN s = 1 .. Len(s) /\ Head(s) = s[1]
  BY <1>1, LenProperties
<1>3. \A i \in 1 .. (Len(s) - 1) : i + 1 \in 1 .. Len(s) /\ i + 1 # 1
  BY <1>1
<1>. QED
  BY <1>1, <1>2, <1>3 DEF Distinct

(* A suffix follows the whole. *)
LEMMA SuffixFollows ==
  ASSUME NEW S, NEW s \in Seq(S), Distinct(s), NEW m \in 1 .. (Len(s) + 1)
  PROVE  Follows(Suffix(s, m), s)
<1>. DEFINE q == Suffix(s, m)
<1>1. Len(s) \in Nat /\ DOMAIN s = 1 .. Len(s) /\ m \in Nat
  BY LenProperties
<1>2. /\ q \in Seq(S) /\ Len(q) = Len(s) - m + 1
      /\ \A i \in 1 .. (Len(s) - m + 1) : q[i] = s[m + i - 1]
  <2>1. \A i \in m .. Len(s) : s[i] \in S
    BY <1>1, ElementOfSeq
  <2>. QED BY <1>1, <2>1, SubSeqProperties DEF Suffix
<1>. HIDE DEF q
<1>3. DOMAIN q = 1 .. (Len(s) - m + 1)
  BY <1>2, LenProperties
<1>4. \A i \in DOMAIN q : m + i - 1 \in DOMAIN s /\ q[i] = s[m + i - 1]
  BY <1>1, <1>2, <1>3
<1>5. \A i \in DOMAIN q : Place(s, q[i]) = m + i - 1
  BY <1>4, PlaceOf
<1>. QED
  BY <1>1, <1>3, <1>4, <1>5 DEF Follows, q

(* What follows a sequence follows it when it has grown, and may grow too. *)
LEMMA FollowsLonger ==
  ASSUME NEW S, NEW s \in Seq(S), NEW q \in Seq(S), NEW k \in S,
         Distinct(s), Distinct(Append(s, k)), Follows(q, s)
  PROVE  Follows(q, Append(s, k)) /\ Follows(Append(q, k), Append(s, k))
<1>. DEFINE t == Append(s, k)
            r == Append(q, k)
<1>1. /\ DOMAIN s = 1 .. Len(s) /\ Len(s) \in Nat
      /\ DOMAIN t = 1 .. (Len(s) + 1) /\ t[Len(s) + 1] = k
      /\ \A i \in 1 .. Len(s) : t[i] = s[i]
  BY AppendProperties, LenProperties
<1>2. /\ DOMAIN q = 1 .. Len(q) /\ Len(q) \in Nat
      /\ DOMAIN r = 1 .. (Len(q) + 1) /\ r[Len(q) + 1] = k
      /\ \A i \in 1 .. Len(q) : r[i] = q[i]
  BY AppendProperties, LenProperties
<1>3. Distinct(t)
  OBVIOUS
<1>. HIDE DEF t, r
<1>4. ASSUME NEW i \in DOMAIN q
      PROVE  /\ \E n \in DOMAIN t : t[n] = q[i]
             /\ Place(t, q[i]) = Place(s, q[i]) /\ Place(t, q[i]) \in 1 .. Len(s)
  <2>1. PICK n \in DOMAIN s : s[n] = q[i]
    BY DEF Follows
  <2>2. n \in DOMAIN t /\ t[n] = q[i] /\ n \in 1 .. Len(s)
    BY <1>1, <2>1
  <2>3. Place(s, q[i]) = n
    BY <2>1, PlaceOf
  <2>4. Place(t, q[i]) = n
    BY <1>3, <2>2, PlaceOf
  <2>. QED BY <2>2, <2>3, <2>4
<1>5. Place(t, k) = Len(s) + 1
  BY <1>1, <1>3, PlaceOf
<1>6. Follows(q, t)
  BY <1>4 DEF Follows
<1>7. Follows(r, t)
  <2>1. \A i \in DOMAIN r : (i \in DOMAIN q /\ r[i] = q[i]) \/ (i = Len(q) + 1 /\ r[i] = k)
    <3>1. \A i \in 1 .. (Len(q) + 1) : i \in 1 .. Len(q) \/ i = Len(q) + 1
      BY <1>2
    <3>. QED BY <1>2, <3>1
  <2>2. \A i \in DOMAIN r : \E n \in DOMAIN t : t[n] = r[i]
    BY <1>1, <1>4, <2>1
  <2>3. ASSUME NEW i \in DOMAIN r, NEW j \in DOMAIN r, i < j
        PROVE  Place(t, r[i]) < Place(t, r[j])
    <3>1. i \in DOMAIN q /\ r[i] = q[i]
      BY <1>2, <2>3
    <3>2. CASE j \in DOMAIN q
      <4>1. r[j] = q[j]
        BY <1>2, <3>2
      <4>. QED BY <1>6, <2>3, <3>1, <3>2, <4>1 DEF Follows
    <3>3. CASE j = Len(q) + 1
      <4>1. r[j] = k /\ Place(t, r[i]) \in 1 .. Len(s)
        BY <1>2, <1>4, <3>1, <3>3
      <4>. QED BY <1>1, <1>5, <4>1
    <3>. QED BY <2>1, <3>2, <3>3
  <2>. QED BY <2>2, <2>3 DEF Follows
<1>. QED
  BY <1>6, <1>7 DEF t, r

(* A suffix grows with the whole. *)
LEMMA SuffixGrows ==
  ASSUME NEW S, NEW s \in Seq(S), NEW k \in S, NEW m \in 1 .. (Len(s) + 1)
  PROVE  Suffix(Append(s, k), m) = Append(Suffix(s, m), k)
<1>. DEFINE t == Append(s, k)
<1>1. /\ Len(s) \in Nat /\ m \in Nat /\ t \in Seq(S) /\ Len(t) = Len(s) + 1
      /\ t[Len(s) + 1] = k /\ \A i \in 1 .. Len(s) : t[i] = s[i]
  BY AppendProperties, LenProperties
<1>. HIDE DEF t
<1>2. /\ Suffix(t, m) \in Seq(S) /\ Len(Suffix(t, m)) = Len(s) - m + 2
      /\ \A i \in 1 .. (Len(s) - m + 2) : Suffix(t, m)[i] = t[m + i - 1]
  <2>1. \A i \in m .. Len(t) : t[i] \in S
    BY <1>1, ElementOfSeq
  <2>. QED BY <1>1, <2>1, SubSeqProperties DEF Suffix
<1>3. /\ Suffix(s, m) \in Seq(S) /\ Len(Suffix(s, m)) = Len(s) - m + 1
      /\ \A i \in 1 .. (Len(s) - m + 1) : Suffix(s, m)[i] = s[m + i - 1]
  <2>1. \A i \in m .. Len(s) : s[i] \in S
    BY <1>1, ElementOfSeq
  <2>. QED BY <1>1, <2>1, SubSeqProperties DEF Suffix
<1>. DEFINE u == Suffix(s, m)
            v == Suffix(t, m)
<1>. HIDE DEF u, v
<1>4. /\ Append(u, k) \in Seq(S) /\ Len(Append(u, k)) = Len(s) - m + 2
      /\ \A i \in 1 .. (Len(s) - m + 1) : Append(u, k)[i] = s[m + i - 1]
      /\ Append(u, k)[Len(s) - m + 2] = k
  <2>1. u \in Seq(S) /\ Len(u) = Len(s) - m + 1
    BY <1>3 DEF u
  <2>2. /\ Append(u, k) \in Seq(S) /\ Len(Append(u, k)) = Len(u) + 1
        /\ \A i \in 1 .. Len(u) : Append(u, k)[i] = u[i]
        /\ Append(u, k)[Len(u) + 1] = k
    BY <2>1, AppendProperties
  <2>3. Len(u) + 1 = Len(s) - m + 2
    BY <1>1, <2>1
  <2>. QED BY <1>3, <2>1, <2>2, <2>3 DEF u
<1>5. ASSUME NEW i \in 1 .. (Len(s) - m + 2) PROVE v[i] = Append(u, k)[i]
  <2>1. CASE i \in 1 .. (Len(s) - m + 1)
    <3>1. m + i - 1 \in 1 .. Len(s)
      BY <1>1, <2>1
    <3>. QED BY <1>1, <1>2, <1>4, <2>1, <3>1 DEF v
  <2>2. CASE i = Len(s) - m + 2
    <3>1. m + i - 1 = Len(s) + 1
      BY <1>1, <2>2
    <3>. QED BY <1>1, <1>2, <1>4, <2>2, <3>1 DEF v
  <2>3. i \in 1 .. (Len(s) - m + 1) \/ i = Len(s) - m + 2
    <3>1. Len(s) - m + 1 \in Int /\ i \in Int
      BY <1>1
    <3>. QED BY <1>1, <3>1
  <2>. QED BY <2>1, <2>2, <2>3
<1>6. v = Append(u, k)
  <2>1. v \in Seq(S) /\ Len(v) = Len(s) - m + 2
    BY <1>2 DEF v
  <2>. QED BY <1>4, <1>5, <2>1, SeqEqual
<1>. QED
  BY <1>6 DEF t, u, v

(* To append to the second of two sequences is to append to both. *)
LEMMA AppendToConcat ==
  ASSUME NEW S, NEW s \in Seq(S), NEW t \in Seq(S), NEW k \in S
  PROVE  s \o Append(t, k) = Append(s \o t, k)
<1>1. PICK one : one = <<k>>
  OBVIOUS
<1>2. one \in Seq(S) /\ Append(t, k) = t \o one
  BY <1>1, AppendIsConcat
<1>3. s \o t \in Seq(S)
  BY ConcatProperties
<1>4. Append(s \o t, k) = (s \o t) \o one
  BY <1>1, <1>3, AppendIsConcat
<1>5. (s \o t) \o one = s \o (t \o one)
  BY <1>2, ConcatAssociative
<1>. QED
  BY <1>2, <1>4, <1>5

(* A sequence is its head and its tail. *)
LEMMA HeadAndTail ==
  ASSUME NEW S, NEW s \in Seq(S), s # <<>>
  PROVE  s = <<Head(s)>> \o Tail(s)
<1>1. Len(s) \in Nat \ {0} /\ DOMAIN s = 1 .. Len(s)
  BY EmptySeq, LenProperties
<1>2. 1 \in 1 .. Len(s) /\ Len(s) \in 1 .. Len(s)
  BY <1>1
<1>3. SubSeq(s, 1, Len(s)) = <<s[1]>> \o SubSeq(s, 2, Len(s))
  BY <1>2, SubSeqRecursiveFirst
<1>4. SubSeq(s, 1, Len(s)) = s /\ Tail(s) = SubSeq(s, 2, Len(s))
  BY SubSeqFull, TailIsSubSeq
<1>5. Head(s) = s[1]
  BY <1>1
<1>. QED
  BY <1>3, <1>4, <1>5

-----------------------------------------------------------------------------
(* The inductive invariant.  That a line is broadcast once needs the pipes: *)
(* a pipe holds lines of its own stream, each once, that are not logged.    *)
Types ==
    /\ source \in [Lines -> Streams] /\ written \in 0 .. MaxLines
    /\ pipe \in [Streams -> Seq(Lines)] /\ logged \in Seq(Lines)
    /\ recent \in Seq(Lines) /\ subs \subseteq Readers
    /\ chan \in [Readers -> Seq(Lines)] /\ backlog \in [Readers -> Seq(Lines)]
    /\ sent \in [Readers -> Seq(Lines)] /\ from \in [Readers -> Nat]
    /\ handler \in [Readers -> {"idle", "recent", "live", "gone"}]

IsLogged(k) == \E n \in DOMAIN logged : logged[n] = k

OwnLines(s) ==
    /\ Distinct(pipe[s])
    /\ \A i \in DOMAIN pipe[s] :
          pipe[s][i] \in 1 .. written /\ source[pipe[s][i]] = s /\ ~IsLogged(pipe[s][i])

Pipes ==
    /\ Distinct(logged) /\ \A n \in DOMAIN logged : logged[n] \in 1 .. written
    /\ \A s \in Streams : OwnLines(s)

(* The ring holds the end of the log. *)
Ring ==
    /\ Len(recent) <= Len(logged)
    /\ recent = Suffix(logged, Len(logged) - Len(recent) + 1)

(* A reader that has yet to come has nothing; one that is there has been    *)
(* sent, or will be, the log from where it came in.                         *)
Fresh(c) == c \notin subs /\ sent[c] = <<>> /\ backlog[c] = <<>> /\ chan[c] = <<>>

Served(c) ==
    /\ from[c] \in 1 .. (Len(logged) + 1)
    /\ Follows(Seen(c), logged)
    /\ c \notin dropped => Seen(c) = Suffix(logged, from[c])

Reader(c) ==
    /\ handler[c] = "idle" => Fresh(c)
    /\ handler[c] = "live" => backlog[c] = <<>>
    /\ c \in subs => Served(c)

Inv == Types /\ Pipes /\ Ring /\ \A c \in Readers : Reader(c)

LEMMA InitHolds ==
  ASSUME StreamInit
  PROVE  Inv
<1>1. <<>> \in Seq(Lines) /\ Len(<<>>) = 0 /\ DOMAIN <<>> = {}
  BY EmptySeq, LenProperties
<1>2. Types
  BY <1>1, SizeAssumption DEF StreamInit, Types
<1>3. Pipes
  BY <1>1 DEF StreamInit, Pipes, OwnLines, Distinct
<1>4. Ring
  <2>1. SubSeq(logged, 1, 0) = <<>>
    BY SubSeqEmpty
  <2>. QED BY <1>1, <2>1 DEF StreamInit, Ring, Suffix
<1>5. \A c \in Readers : Reader(c)
  BY DEF StreamInit, Reader, Fresh
<1>. QED
  BY <1>2, <1>3, <1>4, <1>5 DEF Inv

(* The variables the invariant is about. *)
LEMMA Elsewhere ==
  ASSUME Inv, UNCHANGED <<source, written, pipe, logged, recent, subs, chan, backlog, sent,
                          from, handler, dropped>>
  PROVE  Inv'
<1>1. Types'
  BY DEF Inv, Types
<1>2. Pipes'
  BY DEF Inv, Pipes, OwnLines, IsLogged
<1>3. Ring'
  BY DEF Inv, Ring
<1>4. \A c \in Readers : Reader(c)'
  BY DEF Inv, Reader, Fresh, Served, Seen
<1>. QED
  BY <1>1, <1>2, <1>3, <1>4 DEF Inv

-----------------------------------------------------------------------------
(* What is written is a new line, of the pipe it goes to. *)
LEMMA WriteStep ==
  ASSUME Inv, WriteLine
  PROVE  Inv'
<1>0. PICK k, t : k = written + 1 /\ t = source[k]
  OBVIOUS
<1>1. /\ written < MaxLines /\ written' = k
      /\ pipe' = [pipe EXCEPT ![t] = Append(pipe[t], k)]
      /\ UNCHANGED <<source, executor, hub, table, web>>
  BY <1>0 DEF WriteLine
<1>2. k \in Lines /\ k \in Nat /\ written \in Nat /\ t \in Streams /\ written' \in 0 .. MaxLines
  BY <1>0, <1>1, SizeAssumption DEF Inv, Types, Lines
<1>3. /\ \A s \in Streams : pipe[s] \in Seq(Lines)
      /\ \A s \in Streams : pipe'[s] = IF s = t THEN Append(pipe[t], k) ELSE pipe[s]
      /\ DOMAIN pipe' = Streams
  BY <1>1, <1>2 DEF Inv, Types
<1>4. Append(pipe[t], k) \in Seq(Lines)
  BY <1>2, <1>3, AppendProperties
<1>5. Types'
  <2>1. pipe' \in [Streams -> Seq(Lines)]
    BY <1>1, <1>2, <1>4 DEF Inv, Types
  <2>. QED BY <1>1, <1>2, <2>1 DEF Inv, Types, executor, hub, web
<1>6. \A n \in 1 .. written : n \in 1 .. written' /\ n # k
  BY <1>0, <1>1, <1>2
<1>7. UNCHANGED <<logged, recent, subs, chan, backlog, sent, from, handler, dropped>>
  BY <1>1 DEF hub, web
<1>8. Pipes'
  <2>1. Distinct(logged) /\ \A n \in DOMAIN logged : logged[n] \in 1 .. written
    BY DEF Inv, Pipes
  <2>2. ~ IsLogged(k) /\ \A j : IsLogged(j)' <=> IsLogged(j)
    BY <1>6, <1>7, <2>1 DEF IsLogged
  <2>3. ASSUME NEW s \in Streams, s # t PROVE OwnLines(s)'
    <3>1. pipe'[s] = pipe[s] /\ OwnLines(s)
      BY <1>3, <2>3 DEF Inv, Pipes
    <3>. QED BY <1>1, <1>6, <2>2, <3>1 DEF OwnLines
  <2>4. OwnLines(t)'
    <3>1. OwnLines(t) /\ pipe'[t] = Append(pipe[t], k) /\ pipe[t] \in Seq(Lines)
      BY <1>2, <1>3 DEF Inv, Pipes
    <3>2. \A i \in DOMAIN pipe[t] : pipe[t][i] # k
      BY <1>6, <3>1 DEF OwnLines
    <3>3. Distinct(pipe'[t])
      BY <1>2, <3>1, <3>2, DistinctAppend DEF OwnLines
    <3>4. \A i \in DOMAIN pipe'[t] : \/ i \in DOMAIN pipe[t] /\ pipe'[t][i] = pipe[t][i]
                                     \/ pipe'[t][i] = k
      <4>1. /\ DOMAIN pipe[t] = 1 .. Len(pipe[t]) /\ Len(pipe[t]) \in Nat
            /\ DOMAIN pipe'[t] = 1 .. (Len(pipe[t]) + 1)
            /\ \A i \in 1 .. Len(pipe[t]) : pipe'[t][i] = pipe[t][i]
            /\ pipe'[t][Len(pipe[t]) + 1] = k
        BY <1>2, <1>4, <3>1, AppendProperties, LenProperties
      <4>2. \A i \in 1 .. (Len(pipe[t]) + 1) : i \in 1 .. Len(pipe[t]) \/ i = Len(pipe[t]) + 1
        BY <4>1
      <4>. QED BY <4>1, <4>2
    <3>5. k \in 1 .. written' /\ source'[k] = t
      BY <1>0, <1>1, <1>2
    <3>. QED BY <1>1, <1>6, <2>2, <3>1, <3>3, <3>4, <3>5 DEF OwnLines
  <2>. QED BY <1>6, <1>1, <1>7, <2>1, <2>3, <2>4 DEF Pipes
<1>9. Ring' /\ \A c \in Readers : Reader(c)'
  BY <1>7 DEF Inv, Ring, Reader, Fresh, Served, Seen
<1>. QED
  BY <1>5, <1>8, <1>9 DEF Inv

-----------------------------------------------------------------------------
(* Broadcast of a line that is not logged yet. *)

(* The ring still holds the end of the log. *)
LEMMA RingStep ==
  ASSUME Types, Ring, NEW k \in Lines, Broadcast(k)
  PROVE  Ring' /\ recent' \in Seq(Lines) /\ logged' = Append(logged, k)
<1>1. /\ recent' = IF Len(recent) >= RingSize THEN Append(Tail(recent), k) ELSE Append(recent, k)
      /\ logged' = Append(logged, k)
  BY DEF Broadcast
<1>2. /\ logged \in Seq(Lines) /\ recent \in Seq(Lines)
      /\ Len(logged) \in Nat /\ Len(recent) \in Nat /\ Len(recent) <= Len(logged)
  BY LenProperties DEF Types, Ring
<1>3. Len(logged') = Len(logged) + 1
  BY <1>1, <1>2, AppendProperties
<1>. DEFINE m == Len(logged) - Len(recent) + 1
<1>4. m \in 1 .. (Len(logged) + 1) /\ recent = Suffix(logged, m)
  BY <1>2 DEF Ring
<1>5. CASE ~ (Len(recent) >= RingSize)
  <2>1. recent' = Append(recent, k) /\ recent' \in Seq(Lines) /\ Len(recent') = Len(recent) + 1
    BY <1>1, <1>2, <1>5, AppendProperties
  <2>2. recent' = Suffix(logged', m)
    BY <1>1, <1>2, <1>4, <2>1, SuffixGrows
  <2>3. Len(logged') - Len(recent') + 1 = m /\ Len(recent') <= Len(logged')
    BY <1>2, <1>3, <2>1
  <2>. QED BY <1>1, <2>1, <2>2, <2>3 DEF Ring
<1>6. CASE Len(recent) >= RingSize
  <2>1. Len(recent) >= 1 /\ m \in 1 .. Len(logged) /\ m + 1 \in 1 .. (Len(logged) + 1)
    BY <1>2, <1>6, SizeAssumption
  <2>2. recent # <<>>
    BY <1>2, <2>1, EmptySeq
  <2>3. Tail(recent) \in Seq(Lines) /\ Len(Tail(recent)) = Len(recent) - 1
    BY <1>2, <2>2, HeadTailProperties
  <2>4. Tail(recent) = Suffix(logged, m + 1)
    <3>1. Len(logged) \in m .. Len(logged)
      BY <1>2, <2>1
    <3>. QED BY <1>2, <1>4, <2>1, <3>1, HeadTailOfSubSeq DEF Suffix
  <2>5. /\ recent' = Append(Tail(recent), k) /\ recent' \in Seq(Lines)
        /\ Len(recent') = Len(Tail(recent)) + 1
    BY <1>1, <1>6, <2>3, AppendProperties
  <2>6. recent' = Suffix(logged', m + 1)
    BY <1>1, <1>2, <2>1, <2>4, <2>5, SuffixGrows
  <2>7. Len(logged') - Len(recent') + 1 = m + 1 /\ Len(recent') <= Len(logged')
    BY <1>2, <1>3, <2>3, <2>5
  <2>. QED BY <1>1, <2>5, <2>6, <2>7 DEF Ring
<1>. QED
  BY <1>5, <1>6

(* What a reader has been or will be sent is a sequence of lines; a line put
   into its channel comes last. *)
LEMMA SeenLines ==
  ASSUME Types, NEW c \in Readers
  PROVE  /\ Seen(c) \in Seq(Lines)
         /\ \A k \in Lines : sent[c] \o backlog[c] \o Append(chan[c], k) = Append(Seen(c), k)
<1>1. sent[c] \in Seq(Lines) /\ backlog[c] \in Seq(Lines) /\ chan[c] \in Seq(Lines)
  BY DEF Types
<1>. DEFINE b == sent[c] \o backlog[c]
<1>2. b \in Seq(Lines)
  BY <1>1, ConcatProperties
<1>3. Seen(c) = b \o chan[c]
  BY DEF Seen
<1>. HIDE DEF b
<1>4. Seen(c) \in Seq(Lines)
  BY <1>1, <1>2, <1>3, ConcatProperties
<1>5. ASSUME NEW k \in Lines PROVE b \o Append(chan[c], k) = Append(Seen(c), k)
  BY <1>1, <1>2, <1>3, AppendToConcat
<1>. QED
  BY <1>4, <1>5 DEF b

(* Every reader is sent the new line, or has lost it and is marked. *)
LEMMA ReadersStep ==
  ASSUME Types, Distinct(logged), \A c \in Readers : Reader(c),
         NEW k \in Lines, ~ IsLogged(k), Broadcast(k),
         UNCHANGED <<handler, backlog, sent, from>>, NEW c \in Readers
  PROVE  Reader(c)' /\ chan'[c] \in Seq(Lines)
<1>. DEFINE full == {d \in subs : Len(chan[d]) >= BufferSize}
<1>1. /\ chan'[c] = IF c \in subs \ full THEN Append(chan[c], k) ELSE chan[c]
      /\ dropped' = dropped \cup full /\ subs' = subs /\ logged' = Append(logged, k)
  BY DEF Broadcast
<1>2. chan[c] \in Seq(Lines) /\ logged \in Seq(Lines) /\ Len(logged) \in Nat
  BY LenProperties DEF Types
<1>. HIDE DEF full
<1>3. chan'[c] \in Seq(Lines)
  BY <1>1, <1>2, AppendProperties
<1>4. Reader(c)
  OBVIOUS
<1>5. /\ handler'[c] = "idle" => Fresh(c)'
      /\ handler'[c] = "live" => backlog'[c] = <<>>
  BY <1>1, <1>4 DEF Reader, Fresh
<1>6. ASSUME c \in subs PROVE Served(c)'
  <2>1. from[c] \in 1 .. (Len(logged) + 1) /\ Follows(Seen(c), logged)
    BY <1>4, <1>6 DEF Reader, Served
  <2>2. Distinct(Append(logged, k))
    BY <1>2, DistinctAppend DEF IsLogged
  <2>3. Seen(c) \in Seq(Lines)
    BY SeenLines
  <2>4. /\ Follows(Seen(c), Append(logged, k))
        /\ Follows(Append(Seen(c), k), Append(logged, k))
    BY <1>2, <2>1, <2>2, <2>3, FollowsLonger
  <2>5. from'[c] \in 1 .. (Len(logged') + 1)
    <3>1. Len(logged') = Len(logged) + 1
      BY <1>1, <1>2, AppendProperties
    <3>. QED BY <1>2, <2>1, <3>1
  <2>6. CASE c \in full
    <3>1. Seen(c)' = Seen(c) /\ c \in dropped'
      BY <1>1, <2>6 DEF Seen
    <3>. QED BY <1>1, <2>4, <2>5, <3>1 DEF Served
  <2>7. CASE c \notin full
    <3>1. Seen(c)' = Append(Seen(c), k)
      BY <1>1, <1>6, <2>7, SeenLines DEF Seen
    <3>2. ASSUME c \notin dropped' PROVE Seen(c)' = Suffix(logged', from'[c])
      <4>1. Seen(c) = Suffix(logged, from[c])
        BY <1>1, <1>4, <1>6, <3>2 DEF Reader, Served
      <4>. QED BY <1>1, <1>2, <2>1, <3>1, <4>1, SuffixGrows
    <3>. QED BY <1>1, <2>4, <2>5, <3>1, <3>2 DEF Served
  <2>. QED BY <2>6, <2>7
<1>. QED
  BY <1>1, <1>3, <1>5, <1>6 DEF Reader

(* scanStream takes the first line of its pipe and broadcasts it. *)
LEMMA ScanStep ==
  ASSUME Inv, NEW s \in Streams, Scan(s)
  PROVE  Inv'
<1>1. UNCHANGED <<source, written, handler, backlog, sent, from>> /\ pipe[s] # <<>>
  BY DEF Scan, web
<1>2. CASE UNCHANGED <<pipe, hub>>
  BY <1>1, <1>2, Elsewhere DEF hub
<1>3. CASE pipe' = [pipe EXCEPT ![s] = Tail(pipe[s])] /\ Broadcast(Head(pipe[s]))
  <2>. DEFINE k == Head(pipe[s])
  <2>1. pipe[s] \in Seq(Lines) /\ OwnLines(s)
    BY DEF Inv, Types, Pipes
  <2>2. /\ k \in Lines /\ Tail(pipe[s]) \in Seq(Lines) /\ 1 \in DOMAIN pipe[s] /\ k = pipe[s][1]
        /\ DOMAIN Tail(pipe[s]) = 1 .. (Len(pipe[s]) - 1)
        /\ \A i \in DOMAIN Tail(pipe[s]) :
              i + 1 \in DOMAIN pipe[s] /\ Tail(pipe[s])[i] = pipe[s][i + 1]
    <3>1. /\ k \in Lines /\ Tail(pipe[s]) \in Seq(Lines)
          /\ Len(Tail(pipe[s])) = Len(pipe[s]) - 1
          /\ \A i \in 1 .. Len(Tail(pipe[s])) : Tail(pipe[s])[i] = pipe[s][i + 1]
      BY <1>1, <2>1, HeadTailProperties
    <3>2. Len(pipe[s]) \in Nat \ {0} /\ DOMAIN pipe[s] = 1 .. Len(pipe[s])
      BY <1>1, <2>1, EmptySeq, LenProperties
    <3>3. DOMAIN Tail(pipe[s]) = 1 .. (Len(pipe[s]) - 1)
      BY <3>1, LenProperties
    <3>4. k = pipe[s][1]
      BY <1>1, <2>1, <3>2
    <3>. QED BY <3>1, <3>2, <3>3, <3>4
  <2>3. k \in 1 .. written /\ source[k] = s /\ ~ IsLogged(k)
    BY <2>1, <2>2 DEF OwnLines
  <2>4. Distinct(Tail(pipe[s])) /\ \A n \in DOMAIN Tail(pipe[s]) : Tail(pipe[s])[n] # k
    BY <1>1, <2>1, DistinctTail DEF OwnLines
  <2>5. Broadcast(k)
    BY <1>3
  <2>. HIDE DEF k
  <2>6. Ring' /\ recent' \in Seq(Lines) /\ logged' = Append(logged, k)
    BY <2>2, <2>5, RingStep DEF Inv
  <2>7. \A c \in Readers : Reader(c)' /\ chan'[c] \in Seq(Lines)
    BY <1>1, <2>2, <2>3, <2>5, ReadersStep DEF Inv, Pipes
  <2>8. logged \in Seq(Lines) /\ logged' \in Seq(Lines)
    BY <2>2, <2>6, AppendProperties DEF Inv, Types
  <2>9. Types'
    <3>1. chan' \in [Readers -> Seq(Lines)]
      <4>1. DOMAIN chan' = Readers /\ chan' = [c \in Readers |-> chan'[c]]
        BY <2>5 DEF Broadcast
      <4>. QED BY <2>7, <4>1
    <3>2. pipe' \in [Streams -> Seq(Lines)]
      BY <1>3, <2>2 DEF Inv, Types
    <3>3. subs' = subs
      BY <2>5 DEF Broadcast
    <3>. QED BY <1>1, <2>6, <2>8, <3>1, <3>2, <3>3 DEF Inv, Types
  <2>10. Pipes'
    <3>1. Distinct(logged) /\ \A n \in DOMAIN logged : logged[n] \in 1 .. written
      BY DEF Inv, Pipes
    <3>2. Distinct(logged')
      BY <2>2, <2>3, <2>6, <2>8, <3>1, DistinctAppend DEF IsLogged
    <3>3. \A n \in DOMAIN logged' : logged'[n] = k \/ (n \in DOMAIN logged /\ logged'[n] = logged[n])
      <4>1. /\ DOMAIN logged = 1 .. Len(logged) /\ Len(logged) \in Nat
            /\ DOMAIN logged' = 1 .. (Len(logged) + 1)
            /\ \A i \in 1 .. Len(logged) : logged'[i] = logged[i]
            /\ logged'[Len(logged) + 1] = k
        BY <2>2, <2>6, <2>8, AppendProperties, LenProperties
      <4>2. \A i \in 1 .. (Len(logged) + 1) : i \in 1 .. Len(logged) \/ i = Len(logged) + 1
        BY <4>1
      <4>. QED BY <4>1, <4>2
    <3>4. \A j : IsLogged(j)' => IsLogged(j) \/ j = k
      BY <3>3 DEF IsLogged
    <3>5. \A n \in DOMAIN logged' : logged'[n] \in 1 .. written'
      BY <1>1, <2>3, <3>1, <3>3
    <3>6. ASSUME NEW t \in Streams, t # s PROVE OwnLines(t)'
      <4>1. OwnLines(t) /\ pipe'[t] = pipe[t]
        BY <1>3, <3>6 DEF Inv, Pipes, Types
      <4>. QED BY <1>1, <2>3, <3>4, <3>6, <4>1 DEF OwnLines
    <3>7. OwnLines(s)'
      <4>1. pipe'[s] = Tail(pipe[s])
        BY <1>3 DEF Inv, Types
      <4>. QED BY <1>1, <2>1, <2>2, <2>4, <3>4, <4>1 DEF OwnLines
    <3>. QED BY <3>2, <3>5, <3>6, <3>7 DEF Pipes
  <2>. QED BY <2>6, <2>7, <2>9, <2>10 DEF Inv
<1>. QED
  BY <1>2, <1>3 DEF Scan

-----------------------------------------------------------------------------
(* The steps of one handler leave the log alone, and the other handlers. *)
LEMMA HandlerStep ==
  ASSUME Inv, NEW c \in Readers, Types', Reader(c)',
         UNCHANGED <<source, written, pipe, logged, recent, dropped>>,
         \A d \in Readers \ {c} :
            /\ d \in subs' <=> d \in subs
            /\ chan'[d] = chan[d] /\ backlog'[d] = backlog[d] /\ sent'[d] = sent[d]
            /\ from'[d] = from[d] /\ handler'[d] = handler[d]
  PROVE  Inv'
<1>1. Pipes' /\ Ring'
  BY DEF Inv, Pipes, OwnLines, IsLogged, Ring
<1>2. ASSUME NEW d \in Readers, d # c PROVE Reader(d)'
  <2>1. Reader(d) /\ Seen(d)' = Seen(d)
    BY <1>2 DEF Inv, Seen
  <2>. QED BY <1>2, <2>1 DEF Reader, Fresh, Served
<1>. QED
  BY <1>1, <1>2 DEF Inv

(* A new reader gets a copy of the ring and every line from then on. *)
LEMMA SubscribeStep ==
  ASSUME Inv, NEW c \in Readers, Subscribe(c)
  PROVE  Inv'
<1>1. /\ handler[c] = "idle" /\ handler' = [handler EXCEPT ![c] = "recent"]
      /\ subs' = subs \cup {c} /\ backlog' = [backlog EXCEPT ![c] = recent]
      /\ from' = [from EXCEPT ![c] = Len(logged) - Len(recent) + 1]
      /\ UNCHANGED <<source, written, pipe, logged, recent, dropped, chan, sent>>
  BY DEF Subscribe, process
<1>2. /\ recent \in Seq(Lines) /\ logged \in Seq(Lines)
      /\ Len(recent) \in Nat /\ Len(logged) \in Nat /\ Len(recent) <= Len(logged)
      /\ recent = Suffix(logged, Len(logged) - Len(recent) + 1)
  BY LenProperties DEF Inv, Types, Ring
<1>3. Len(logged) - Len(recent) + 1 \in 1 .. (Len(logged) + 1)
  BY <1>2
<1>4. Types'
  <2>1. Len(logged) - Len(recent) + 1 \in Nat
    BY <1>3
  <2>. QED BY <1>1, <1>2, <2>1 DEF Inv, Types
<1>5. backlog'[c] = recent /\ sent'[c] = <<>> /\ chan'[c] = <<>>
      /\ from'[c] = Len(logged) - Len(recent) + 1 /\ handler'[c] = "recent"
  BY <1>1 DEF Inv, Types, Reader, Fresh
<1>6. Seen(c)' = recent
  BY <1>2, <1>5, ConcatEmptySeq DEF Seen
<1>7. Follows(recent, logged)
  BY <1>2, <1>3, SuffixFollows DEF Inv, Pipes
<1>8. Reader(c)'
  BY <1>1, <1>2, <1>3, <1>5, <1>6, <1>7 DEF Reader, Served
<1>9. \A d \in Readers \ {c} :
        /\ d \in subs' <=> d \in subs
        /\ chan'[d] = chan[d] /\ backlog'[d] = backlog[d] /\ sent'[d] = sent[d]
        /\ from'[d] = from[d] /\ handler'[d] = handler[d]
  BY <1>1 DEF Inv, Types
<1>. QED
  BY <1>1, <1>4, <1>8, <1>9, HandlerStep

(* A handler that sends what it holds moves lines, and loses none. *)
LEMMA SendStep ==
  ASSUME Inv, NEW c \in Readers, SendRecent(c) \/ SendLive(c)
  PROVE  Inv'
<1>1. UNCHANGED <<source, written, pipe, logged, recent, dropped, subs, from>>
  BY DEF SendRecent, SendLive, process, hub
<1>2. sent[c] \in Seq(Lines) /\ backlog[c] \in Seq(Lines) /\ chan[c] \in Seq(Lines)
  BY DEF Inv, Types
<1>3. <<>> \in Seq(Lines)
  BY EmptySeq
<1>4. \A d \in Readers \ {c} :
        /\ chan'[d] = chan[d] /\ backlog'[d] = backlog[d] /\ sent'[d] = sent[d]
        /\ handler'[d] = handler[d]
  BY DEF SendRecent, SendLive, hub, Inv, Types
<1>5. CASE SendRecent(c)
  <2>1. /\ handler'[c] = "live" /\ backlog'[c] = <<>> /\ chan' = chan
        /\ sent'[c] = sent[c] \o backlog[c]
        /\ handler' = [handler EXCEPT ![c] = "live"] /\ backlog' = [backlog EXCEPT ![c] = <<>>]
        /\ sent' = [sent EXCEPT ![c] = sent[c] \o backlog[c]]
    BY <1>5 DEF SendRecent, hub, Inv, Types
  <2>2. sent[c] \o backlog[c] \in Seq(Lines)
    BY <1>2, ConcatProperties
  <2>3. Types'
    BY <1>1, <1>3, <2>1, <2>2 DEF Inv, Types
  <2>4. Seen(c)' = Seen(c)
    <3>1. (sent[c] \o backlog[c]) \o <<>> = sent[c] \o backlog[c]
      BY <2>2, ConcatEmptySeq
    <3>. QED BY <2>1, <3>1 DEF Seen
  <2>5. Reader(c)'
    BY <1>1, <2>1, <2>4 DEF Inv, Reader, Served
  <2>. QED BY <1>1, <1>4, <2>3, <2>5, HandlerStep
<1>6. CASE SendLive(c)
  <2>1. /\ handler[c] = "live" /\ chan[c] # <<>> /\ backlog' = backlog /\ handler' = handler
        /\ sent'[c] = Append(sent[c], Head(chan[c])) /\ chan'[c] = Tail(chan[c])
        /\ sent' = [sent EXCEPT ![c] = Append(sent[c], Head(chan[c]))]
        /\ chan' = [chan EXCEPT ![c] = Tail(chan[c])]
    BY <1>6 DEF SendLive, Inv, Types
  <2>2. Head(chan[c]) \in Lines /\ Tail(chan[c]) \in Seq(Lines)
    BY <1>2, <2>1, HeadTailProperties
  <2>3. Append(sent[c], Head(chan[c])) \in Seq(Lines)
    BY <1>2, <2>2, AppendProperties
  <2>4. Types'
    BY <1>1, <2>1, <2>2, <2>3 DEF Inv, Types
  <2>5. Seen(c)' = Seen(c)
    <3>. DEFINE h == Head(chan[c])
                t == Tail(chan[c])
                p == sent[c]
    <3>1. h \in Lines /\ t \in Seq(Lines) /\ p \in Seq(Lines) /\ <<h>> \in Seq(Lines)
      BY <1>2, <2>2
    <3>2. backlog[c] = <<>>
      BY <2>1 DEF Inv, Reader
    <3>3. chan[c] = <<h>> \o t
      BY <1>2, <2>1, <3>1, HeadAndTail
    <3>. HIDE DEF h, t, p
    <3>4. Append(p, h) = p \o <<h>> /\ Append(p, h) \in Seq(Lines)
      BY <3>1, AppendIsConcat, AppendProperties
    <3>5. Append(p, h) \o <<>> = Append(p, h) /\ p \o <<>> = p
      BY <3>1, <3>4, ConcatEmptySeq
    <3>6. (p \o <<h>>) \o t = p \o (<<h>> \o t)
      BY <3>1, ConcatAssociative
    <3>7. Seen(c)' = Append(p, h) \o <<>> \o t
      BY <2>1, <3>2 DEF Seen, h, t, p
    <3>8. Seen(c) = p \o <<>> \o (<<h>> \o t)
      BY <3>2, <3>3 DEF Seen, p
    <3>. QED BY <3>4, <3>5, <3>6, <3>7, <3>8
  <2>6. Reader(c)'
    BY <1>1, <2>1, <2>5 DEF Inv, Reader, Served
  <2>. QED BY <1>1, <1>4, <2>1, <2>4, <2>6, HandlerStep
<1>. QED
  BY <1>5, <1>6

(* A reader that goes is served no more. *)
LEMMA DisconnectStep ==
  ASSUME Inv, NEW c \in Readers, Disconnect(c)
  PROVE  Inv'
<1>1. /\ handler' = [handler EXCEPT ![c] = "gone"] /\ subs' = subs \ {c}
      /\ chan' = [chan EXCEPT ![c] = <<>>]
      /\ UNCHANGED <<source, written, pipe, logged, recent, dropped, backlog, sent, from>>
  BY DEF Disconnect, process
<1>2. Types'
  <2>1. <<>> \in Seq(Lines)
    BY EmptySeq
  <2>. QED BY <1>1, <2>1 DEF Inv, Types
<1>3. Reader(c)'
  BY <1>1 DEF Inv, Types, Reader
<1>4. \A d \in Readers \ {c} :
        /\ d \in subs' <=> d \in subs
        /\ chan'[d] = chan[d] /\ backlog'[d] = backlog[d] /\ sent'[d] = sent[d]
        /\ from'[d] = from[d] /\ handler'[d] = handler[d]
  BY <1>1 DEF Inv, Types
<1>. QED
  BY <1>1, <1>2, <1>3, <1>4, HandlerStep

-----------------------------------------------------------------------------
LEMMA NextKeeps ==
  ASSUME Inv, [StreamNext]_streamVars
  PROVE  Inv'
<1>1. CASE Child
  <2>1. CASE Start \/ StartHelper \/ HelperExits \/ ChildExits
    BY <2>1, Elsewhere DEF Start, StartHelper, HelperExits, ChildExits, hub, web
  <2>. QED BY <1>1, <2>1, WriteStep DEF Child
<1>2. CASE Run
  <2>1. CASE Cancel \/ Kill \/ Return
    BY <2>1, Elsewhere DEF Cancel, Kill, Return, process, hub, web
  <2>2. ASSUME NEW s \in Streams, AppendLog(s) \/ EndOfPipe(s) PROVE Inv'
    BY <2>2, Elsewhere DEF AppendLog, EndOfPipe, process, hub, web
  <2>. QED BY <1>2, <2>1, <2>2, ScanStep DEF Run
<1>3. CASE Stream
  BY <1>3, SubscribeStep, SendStep, DisconnectStep DEF Stream
<1>4. CASE UNCHANGED streamVars
  BY <1>4, Elsewhere DEF streamVars, process, executor, hub, web
<1>. QED
  BY <1>1, <1>2, <1>3, <1>4 DEF StreamNext

(* A reader of the event stream is sent the log from the oldest line the hub
   held when it subscribed, in order, without a gap or a repetition; one that
   lost lines because its channel was full is still sent new lines in order.
   The two scanners, the hub's lock and the handlers make it so for any sizes
   of the pipes, the ring and the channels. *)
THEOREM StreamHasNoGap == StreamSpec => []StreamIsComplete
<1>1. StreamInit => Inv
  BY InitHolds
<1>2. Inv /\ [StreamNext]_streamVars => Inv'
  BY NextKeeps
<1>3. Inv => StreamIsComplete
  <2>1. ASSUME Inv, NEW c \in subs
        PROVE  IF c \notin dropped THEN Seen(c) = SubSeq(logged, from[c], Len(logged))
               ELSE \A i, j \in DOMAIN Seen(c) :
                      i < j => Logged(Seen(c)[i]) < Logged(Seen(c)[j])
    <3>1. Served(c)
      BY <2>1 DEF Inv, Types, Reader
    <3>. QED BY <3>1 DEF Served, Suffix, Follows, Place, Logged
  <2>. QED BY <2>1 DEF StreamIsComplete
<1>. QED
  BY <1>1, <1>2, <1>3, PTL DEF StreamSpec

-----------------------------------------------------------------------------
(* The authentication. *)
AuthSteps == {"idle", "create", "exchange", "validate", "lookup", "accepted"}

AuthTypes ==
    /\ auth \in Managers /\ drawn \in Nat
    /\ sessions \in [Managers -> SUBSET (1..drawn)]
    /\ states \in [Managers -> SUBSET (1..drawn)]
    /\ pc \in [Clients -> AuthSteps] /\ manager \in [Clients -> Managers]
    /\ state \in [Clients -> 0..drawn] /\ began \in [Clients -> SUBSET ended]
    /\ cookie \in [Clients -> 0..drawn] /\ redirect \in [Clients -> 0..drawn]
    /\ logins \in [Drawn -> Nat] /\ ended \subseteq 1..drawn

(* Managers to come know nobody. *)
FutureIsEmpty ==
    \A m \in Managers : m > auth => sessions[m] = {} /\ states[m] = {}

(* A state the current manager knows is in no callback's hands and has     *)
(* bought nothing; one in a callback's hands has bought nothing so far.    *)
StatesUnspent ==
    /\ \A s \in states[auth] :
          (s \in Drawn => logins[s] = 0) /\ \A c \in Clients : state[c] # s
    /\ \A c, d \in Clients : state[c] # 0 /\ state[c] = state[d] => c = d
    /\ \A c \in Clients : state[c] \in Drawn => logins[state[c]] = 0
    /\ \A s \in Drawn : s > drawn => logins[s] = 0

(* The current manager knows no session that is over, and a handler looks  *)
(* in one that did not know those that were over when it began.            *)
EndedIsUnknown ==
    /\ ended \cap sessions[auth] = {}
    /\ \A c \in Clients : pc[c] = "lookup" => began[c] \cap sessions[manager[c]] = {}

AuthInv == AuthTypes /\ FutureIsEmpty /\ StatesUnspent /\ EndedIsUnknown
         /\ StateUsedOnce /\ EndedIsRefused

-----------------------------------------------------------------------------
(* The conjuncts about states depend on these variables only. *)
StatePart == FutureIsEmpty /\ StatesUnspent /\ StateUsedOnce

(* The conjuncts about sessions depend on these variables only. *)
SessionPart == EndedIsUnknown /\ EndedIsRefused

(* Nothing has happened yet. *)
LEMMA AuthInitHolds ==
  ASSUME Init
  PROVE  AuthInv
<1>1. AuthTypes
  BY LimitAssumption DEF Init, AuthTypes, Managers, Drawn, AuthSteps
<1>2. StatePart
  <2>1. /\ \A m \in Managers : sessions[m] = {} /\ states[m] = {}
        /\ \A s \in Drawn : logins[s] = 0
        /\ 0 \in Managers /\ auth = 0 /\ \A c \in Clients : state[c] = 0
    BY LimitAssumption DEF Init, Managers
  <2>2. 0 \notin Drawn
    BY DEF Drawn
  <2>. QED
    BY <2>1, <2>2 DEF StatePart, FutureIsEmpty, StatesUnspent, StateUsedOnce
<1>3. SessionPart
  BY LimitAssumption DEF Init, SessionPart, EndedIsUnknown, EndedIsRefused, Managers
<1>. QED
  BY <1>1, <1>2, <1>3 DEF AuthInv, StatePart, SessionPart

(* A login the password opened. *)
LEMMA LoginStep ==
  ASSUME AuthInv, NEW c \in Clients, Login(c)
  PROVE  AuthInv'
<1>. USE DEF AuthInv, server, browser
<1>1. AuthTypes'
  BY DEF Login, AuthTypes, AuthSteps
<1>2. StatePart'
  BY DEF Login, StatePart, FutureIsEmpty, StatesUnspent, StateUsedOnce
<1>3. SessionPart'
  BY DEF Login, AuthTypes, SessionPart, EndedIsUnknown, EndedIsRefused
<1>. QED
  BY <1>1, <1>2, <1>3 DEF StatePart, SessionPart

(* The provider is asked: the state stays in this callback's hands, or is  *)
(* dropped.                                                                *)
LEMMA ExchangeStep ==
  ASSUME AuthInv, NEW c \in Clients, Exchange(c)
  PROVE  AuthInv'
<1>. USE DEF AuthInv, server, browser
<1>1. /\ UNCHANGED <<auth, sessions, expired, states, drawn, manager, began, cookie, redirect,
                     logins, ended>>
      /\ pc' \in [Clients -> AuthSteps] /\ \A d \in Clients : pc'[d] = pc[d] \/ pc'[d] \in {"create", "idle"}
      /\ state' \in {state, [state EXCEPT ![c] = 0]}
  BY DEF Exchange, AuthTypes, AuthSteps
<1>2. \A d \in Clients : state'[d] \in {0, state[d]}
  BY <1>1 DEF AuthTypes
<1>3. AuthTypes'
  BY <1>1 DEF AuthTypes
<1>4. FutureIsEmpty' /\ StateUsedOnce'
  BY <1>1 DEF FutureIsEmpty, StateUsedOnce
<1>5. StatesUnspent'
  <2>1. 0 \notin Drawn /\ 0 \notin states[auth]
    BY DEF Drawn, AuthTypes
  <2>. QED
    BY <1>1, <1>2, <2>1 DEF StatesUnspent
<1>6. SessionPart'
  BY <1>1 DEF SessionPart, EndedIsUnknown, EndedIsRefused
<1>. QED
  BY <1>3, <1>4, <1>5, <1>6 DEF SessionPart

(* A new state is the newest value, that nobody has. *)
LEMMA OAuthStartStep ==
  ASSUME AuthInv, NEW c \in Clients, OAuthStart(c)
  PROVE  AuthInv'
<1>. USE DEF AuthInv, request
<1>1. AuthTypes'
  BY DEF OAuthStart, AuthTypes
<1>2. /\ FutureIsEmpty'
      /\ StateUsedOnce'
  BY DEF OAuthStart, AuthTypes, FutureIsEmpty, StateUsedOnce, Managers
<1>3. StatesUnspent'
  <2>1. states'[auth] \subseteq states[auth] \cup {drawn + 1}
    BY DEF OAuthStart, AuthTypes
  <2>2. \A d \in Clients : state[d] # drawn + 1
    BY DEF AuthTypes
  <2>3. /\ UNCHANGED <<auth, state, logins>> /\ drawn' = drawn + 1
        /\ drawn + 1 \in Drawn => logins[drawn + 1] = 0
        /\ \A s \in Drawn : s > drawn + 1 => logins[s] = 0
    BY DEF OAuthStart, AuthTypes, StatesUnspent, Drawn
  <2>. QED
    BY <2>1, <2>2, <2>3 DEF StatesUnspent
<1>4. SessionPart'
  BY DEF OAuthStart, AuthTypes, SessionPart, EndedIsUnknown, EndedIsRefused
<1>. QED
  BY <1>1, <1>2, <1>3, <1>4 DEF SessionPart

(* A callback takes its state away from the manager. *)
LEMMA CallbackStep ==
  ASSUME AuthInv, NEW c \in Clients, Callback(c)
  PROVE  AuthInv'
<1>. USE DEF AuthInv, browser
<1>1. PICK d \in Clients :
        /\ redirect[d] \in states[auth]
        /\ states' = [states EXCEPT ![auth] = @ \ {redirect[d]}]
        /\ \/ UNCHANGED <<pc, manager, state>>
           \/ /\ pc' = [pc EXCEPT ![c] = "exchange"]
              /\ manager' = [manager EXCEPT ![c] = auth]
              /\ state' = [state EXCEPT ![c] = redirect[d]]
  BY DEF Callback, Spent
<1>2. UNCHANGED <<auth, sessions, expired, drawn, began, cookie, redirect, logins, ended>>
  BY DEF Callback
<1>3. AuthTypes'
  BY <1>1, <1>2 DEF AuthTypes, AuthSteps
<1>4. FutureIsEmpty' /\ StateUsedOnce'
  BY <1>1, <1>2 DEF AuthTypes, FutureIsEmpty, StateUsedOnce, Managers
<1>5. StatesUnspent'
  <2>1. states'[auth] = states[auth] \ {redirect[d]}
    BY <1>1 DEF AuthTypes
  <2>2. CASE UNCHANGED <<pc, manager, state>>
    BY <1>2, <2>1, <2>2 DEF StatesUnspent
  <2>3. CASE state' = [state EXCEPT ![c] = redirect[d]]
    <3>1. \A b \in Clients : state'[b] = IF b = c THEN redirect[d] ELSE state[b]
      BY <2>3 DEF AuthTypes
    <3>2. /\ redirect[d] \in Drawn => logins[redirect[d]] = 0
          /\ \A b \in Clients : state[b] # redirect[d]
      BY <1>1 DEF StatesUnspent
    <3>. QED
      BY <1>2, <2>1, <3>1, <3>2 DEF StatesUnspent
  <2>. QED
    BY <1>1, <2>2, <2>3
<1>6. SessionPart'
  BY <1>1, <1>2 DEF AuthTypes, SessionPart, EndedIsUnknown, EndedIsRefused, AuthSteps
<1>. QED
  BY <1>3, <1>4, <1>5, <1>6 DEF SessionPart

(* The session is new, and uses up the state it was made for. *)
LEMMA CreateSessionStep ==
  ASSUME AuthInv, NEW c \in Clients, CreateSession(c)
  PROVE  AuthInv'
<1>. USE DEF AuthInv
<1>1. AuthTypes'
  <2>1. drawn' = drawn + 1 /\ drawn + 1 \in Nat /\ 0..drawn \subseteq 0..(drawn + 1)
        /\ 1..drawn \subseteq 1..(drawn + 1) /\ drawn + 1 \in 1..(drawn + 1)
    BY DEF CreateSession, AuthTypes
  <2>2. sessions' \in [Managers -> SUBSET (1..drawn')]
    BY <2>1 DEF CreateSession, AuthTypes
  <2>3. logins' \in [Drawn -> Nat]
    <3>1. CASE state[c] = 0
      BY <3>1 DEF CreateSession, AuthTypes
    <3>2. CASE state[c] # 0
      <4>1. logins' = [logins EXCEPT ![state[c]] = @ + 1]
        BY <3>2 DEF CreateSession
      <4>2. \A s \in Drawn : logins'[s] = IF s = state[c] THEN logins[s] + 1 ELSE logins[s]
        BY <4>1 DEF AuthTypes
      <4>3. \A s \in Drawn : logins'[s] \in Nat
        BY <4>2 DEF AuthTypes
      <4>4. logins' = [s \in Drawn |-> logins'[s]]
        BY <4>1 DEF AuthTypes
      <4>. QED
        BY <4>3, <4>4
    <3>. QED
      BY <3>1, <3>2
  <2>. QED
    BY <2>1, <2>2, <2>3 DEF CreateSession, AuthTypes, AuthSteps
<1>2. FutureIsEmpty'
  BY DEF CreateSession, AuthTypes, FutureIsEmpty, Managers
<1>3. StatesUnspent' /\ StateUsedOnce'
  <2>1. CASE state[c] = 0
    <3>1. UNCHANGED <<auth, states, state, logins>> /\ drawn' = drawn + 1
      BY <2>1 DEF CreateSession, AuthTypes
    <3>. QED
      BY <3>1 DEF AuthTypes, StatesUnspent, StateUsedOnce, Drawn
  <2>2. CASE state[c] # 0
    <3>1. logins' = [logins EXCEPT ![state[c]] = @ + 1]
      BY <2>2 DEF CreateSession
    <3>2. \A s \in Drawn : s # state[c] => logins'[s] = logins[s]
      BY <3>1 DEF AuthTypes
    <3>3. state[c] \in Drawn => logins'[state[c]] = 1
      BY <3>1 DEF AuthTypes, StatesUnspent
    <3>4. StateUsedOnce'
      BY <3>2, <3>3 DEF StateUsedOnce
    <3>5. \A d \in Clients : state'[d] # state[c] /\ state'[d] \in {0, state[d]}
      BY <2>2 DEF CreateSession, AuthTypes, StatesUnspent
    <3>6. states'[auth'] = states[auth] /\ drawn' = drawn + 1 /\ state[c] <= drawn
      BY DEF CreateSession, AuthTypes
    <3>7. StatesUnspent'
      BY <2>2, <3>2, <3>5, <3>6 DEF CreateSession, AuthTypes, StatesUnspent, Drawn
    <3>. QED
      BY <3>4, <3>7
  <2>. QED
    BY <2>1, <2>2
<1>4. SessionPart'
  <2>1. \A m \in Managers : sessions'[m] \subseteq sessions[m] \cup {drawn + 1}
    BY DEF CreateSession, AuthTypes
  <2>2. drawn + 1 \notin ended /\ \A d \in Clients : drawn + 1 \notin began[d]
    BY DEF AuthTypes
  <2>. QED
    BY <2>1, <2>2 DEF CreateSession, AuthTypes, SessionPart, EndedIsUnknown, EndedIsRefused
<1>. QED
  BY <1>1, <1>2, <1>3, <1>4 DEF SessionPart

(* The steps of a request to a protected page. *)
LEMMA RequestSteps ==
  ASSUME AuthInv, NEW c \in Clients,
         Request(c) \/ ReadAuth(c) \/ Validate(c) \/ Serve(c)
  PROVE  AuthInv'
<1>. USE DEF AuthInv, server, browser
<1>1. AuthTypes' /\ StatePart'
  <2>1. /\ UNCHANGED <<auth, expired, states, drawn, state, cookie, redirect, logins, ended>>
        /\ \A m \in Managers : sessions'[m] \subseteq sessions[m]
    BY DEF Request, ReadAuth, Validate, Serve, AuthTypes
  <2>2. AuthTypes'
    <3>1. UNCHANGED sessions \/ sessions' = [sessions EXCEPT ![manager[c]] = @ \ {cookie[c]}]
      BY DEF Request, ReadAuth, Validate, Serve
    <3>2. sessions' \in [Managers -> SUBSET (1..drawn)]
      BY <3>1 DEF AuthTypes
    <3>3. pc' \in [Clients -> AuthSteps]
      BY DEF Request, ReadAuth, Validate, Serve, AuthTypes, AuthSteps
    <3>4. manager' \in [Clients -> Managers]
      BY DEF Request, ReadAuth, Validate, Serve, AuthTypes
    <3>5. began' \in [Clients -> SUBSET ended]
      BY DEF Request, ReadAuth, Validate, Serve, AuthTypes
    <3>. QED
      BY <2>1, <3>2, <3>3, <3>4, <3>5 DEF AuthTypes
  <2>. QED
    BY <2>1, <2>2 DEF AuthTypes, StatePart, FutureIsEmpty, StatesUnspent, StateUsedOnce
<1>2. CASE Request(c)
  BY <1>1, <1>2 DEF Request, AuthTypes, StatePart, EndedIsUnknown, EndedIsRefused
<1>3. CASE ReadAuth(c)
  BY <1>1, <1>3 DEF ReadAuth, AuthTypes, StatePart, EndedIsUnknown, EndedIsRefused
<1>4. CASE Validate(c)
  <2>1. \A m \in Managers : sessions'[m] \subseteq sessions[m]
    BY <1>4 DEF Validate, AuthTypes
  <2>2. EndedIsUnknown'
    BY <1>4, <2>1 DEF Validate, AuthTypes, EndedIsUnknown
  <2>3. EndedIsRefused'
    BY <1>4 DEF Validate, Accepts, AuthTypes, EndedIsUnknown, EndedIsRefused
  <2>. QED
    BY <1>1, <2>2, <2>3 DEF StatePart
<1>5. CASE Serve(c)
  BY <1>1, <1>5 DEF Serve, AuthTypes, StatePart, EndedIsUnknown, EndedIsRefused
<1>. QED
  BY <1>2, <1>3, <1>4, <1>5

(* The current manager forgets the session. *)
LEMMA LogoutStep ==
  ASSUME AuthInv, NEW c \in Clients, Logout(c)
  PROVE  AuthInv'
<1>. USE DEF AuthInv, request, browser
<1>1. \A m \in Managers : sessions'[m] \subseteq sessions[m]
  BY DEF Logout, AuthTypes
<1>2. AuthTypes'
  <2>0. {cookie[c]} \ {0} \subseteq 1..drawn
    BY DEF AuthTypes
  <2>1. ended \subseteq ended' /\ ended' \subseteq 1..drawn
    BY <2>0 DEF Logout, AuthTypes
  <2>2. began \in [Clients -> SUBSET ended']
    BY <2>1 DEF AuthTypes
  <2>. QED
    BY <2>1, <2>2 DEF Logout, AuthTypes
<1>3. StatePart'
  BY <1>1 DEF Logout, AuthTypes, StatePart, FutureIsEmpty, StatesUnspent, StateUsedOnce
<1>4. sessions'[auth'] = sessions[auth] \ {cookie[c]}
  BY DEF Logout, AuthTypes
<1>5. SessionPart'
  BY <1>1, <1>4 DEF Logout, AuthTypes, SessionPart, EndedIsUnknown, EndedIsRefused
<1>. QED
  BY <1>2, <1>3, <1>5 DEF StatePart, SessionPart

(* The new manager knows nobody, and what the old one knew is over. *)
LEMMA SaveConfigStep ==
  ASSUME AuthInv, SaveConfig
  PROVE  AuthInv'
<1>. USE DEF AuthInv, request, browser
<1>1. auth' = auth + 1 /\ auth' \in Managers /\ auth \in Nat
  BY LimitAssumption DEF SaveConfig, AuthTypes, Managers
<1>2. sessions[auth'] = {} /\ states[auth'] = {}
  BY <1>1 DEF FutureIsEmpty
<1>3. AuthTypes'
  BY <1>1 DEF SaveConfig, AuthTypes
<1>4. StatePart'
  BY <1>1, <1>2 DEF SaveConfig, AuthTypes, StatePart, FutureIsEmpty, StatesUnspent, StateUsedOnce,
                    Managers
<1>5. SessionPart'
  BY <1>1, <1>2 DEF SaveConfig, AuthTypes, SessionPart, EndedIsUnknown, EndedIsRefused
<1>. QED
  BY <1>3, <1>4, <1>5 DEF StatePart, SessionPart

(* Every step keeps the invariant. *)
LEMMA AuthNextKeeps ==
  ASSUME AuthInv, [Next]_vars
  PROVE  AuthInv'
<1>1. CASE \E c \in Clients :
          Login(c) \/ OAuthStart(c) \/ Callback(c) \/ Exchange(c) \/ CreateSession(c)
            \/ Request(c) \/ ReadAuth(c) \/ Validate(c) \/ Serve(c) \/ Logout(c)
  BY <1>1, LoginStep, OAuthStartStep, CallbackStep, ExchangeStep, CreateSessionStep,
     RequestSteps, LogoutStep
<1>2. CASE SaveConfig
  BY <1>2, SaveConfigStep
<1>3. CASE Expire \/ UNCHANGED vars
  <2>1. UNCHANGED <<auth, sessions, states, drawn, pc, manager, state, began, cookie, redirect,
                    logins, ended>>
    BY <1>3 DEF Expire, vars, server, request, browser
  <2>2. AuthTypes'
    BY <2>1 DEF AuthInv, AuthTypes
  <2>3. StatePart'
    BY <2>1 DEF AuthInv, StatePart, FutureIsEmpty, StatesUnspent, StateUsedOnce
  <2>4. SessionPart'
    BY <2>1 DEF AuthInv, SessionPart, EndedIsUnknown, EndedIsRefused
  <2>. QED
    BY <2>2, <2>3, <2>4 DEF AuthInv, StatePart, SessionPart
<1>. QED
  BY <1>1, <1>2, <1>3 DEF Next

-----------------------------------------------------------------------------
(* At most one session is ever made for an OAuth state: whatever callbacks *)
(* bring it to HandleOAuthCallback, which looks it up and deletes it in    *)
(* one critical section of the manager.                                    *)
THEOREM OneSessionPerState == Spec => []StateUsedOnce
<1>1. Init => AuthInv
  BY AuthInitHolds
<1>2. AuthInv /\ [Next]_vars => AuthInv'
  BY AuthNextKeeps
<1>3. AuthInv => StateUsedOnce
  BY DEF AuthInv
<1>. QED
  BY <1>1, <1>2, <1>3, PTL DEF Spec

(* A request is never served with a session that was over when it began,   *)
(* though WithAuth and its handlers read s.auth anew for every call.       *)
THEOREM OverIsOver == Spec => []EndedIsRefused
<1>1. Init => AuthInv
  BY AuthInitHolds
<1>2. AuthInv /\ [Next]_vars => AuthInv'
  BY AuthNextKeeps
<1>3. AuthInv => EndedIsRefused
  BY DEF AuthInv
<1>. QED
  BY <1>1, <1>2, <1>3, PTL DEF Spec
=============================================================================
