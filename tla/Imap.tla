-------------------------------- MODULE Imap --------------------------------
(***************************************************************************)
(* The IMAP mirror, src/imap/imap.go: one process mirrors every folder of  *)
(* an account, one after the other, into a Maildir each.  A folder is      *)
(* fetched from the message after the highest UID that an earlier run      *)
(* recorded, unless the server has renumbered it since; a message whose    *)
(* UID has a file already is skipped.  Two marker files, the folder's      *)
(* UIDVALIDITY and the highest UID, are written when a folder is complete. *)
(***************************************************************************)
EXTENDS Naturals, FiniteSets, Functions

CONSTANTS
    Folders,      \* the account's folders that can be selected
    Messages,     \* messages, whatever folder they come to be in
    MaxValidity,  \* bound: the number of times a folder is renumbered, plus 1
    MaxUid        \* bound: the highest UID

BoundAssumption == MaxValidity \in Nat \ {0} /\ MaxUid \in Nat \ {0}

VARIABLES
    \* the server
    validity,   \* UIDVALIDITY of each folder
    mail,       \* of each folder: UID -> message
    next,       \* the UID the next message of the folder gets
    \* the destination directory
    cur,        \* of each folder's Maildir: UID -> message
    markValid,  \* .uidvalidity of each folder: 0 if absent, Torn if empty
    markLast,   \* .last-uid of each folder
    \* one run
    step,       \* what the run is about to do
    folders,    \* folders that are left
    here,       \* the folder that is selected
    seen,       \* its UIDVALIDITY when it was selected
    fetch,      \* UIDs the server has yet to send
    maxUID,
    mirrored,   \* folders that were completed in this run
    failed,     \* folders that failed in this run
    \* history
    wanted      \* the messages of the folder when it was fetched

server   == <<validity, mail, next>>
marks    == <<markValid, markLast>>
folder   == <<here, seen, fetch, maxUID, wanted>>
tally    == <<folders, mirrored, failed>>
mailVars == <<server, cur, marks, step, folder, tally>>

NoMail == [u \in {} |-> 0]
Torn == MaxUid + MaxValidity + 1  \* a marker that was truncated and not written
NoFolder == "none"

-----------------------------------------------------------------------------
MailInit ==
    /\ validity = [f \in Folders |-> 1] /\ next = [f \in Folders |-> 1]
    /\ mail = [f \in Folders |-> NoMail] /\ cur = [f \in Folders |-> NoMail]
    /\ markValid = [f \in Folders |-> 0] /\ markLast = [f \in Folders |-> 0]
    /\ step = "idle" /\ folders = {} /\ here = NoFolder /\ seen = 0 /\ fetch = {}
    /\ maxUID = 0 /\ mirrored = {} /\ failed = {} /\ wanted = {}

Placed == UNION {Range(mail[f]) : f \in Folders}

Deliver(f) ==
    /\ next[f] <= MaxUid
    /\ \E m \in Messages \ Placed :
          mail' = [mail EXCEPT ![f] = [u \in DOMAIN @ \cup {next[f]} |->
                                          IF u = next[f] THEN m ELSE @[u]]]
    /\ next' = [next EXCEPT ![f] = @ + 1]
    /\ UNCHANGED <<validity, cur, marks, step, folder, tally>>

Expunge(f) ==
    /\ step = "idle"
    /\ \E u \in DOMAIN mail[f] : mail' = [mail EXCEPT ![f] = Restrict(@, DOMAIN @ \ {u})]
    /\ UNCHANGED <<validity, next, cur, marks, step, folder, tally>>

(* The server numbers a folder's messages anew, between two sessions. *)
Renumber(f) ==
    /\ step = "idle" /\ validity[f] < MaxValidity
    /\ LET n == Cardinality(DOMAIN mail[f])
       IN  /\ \E new \in [1..n -> Range(mail[f])] :
                 /\ Range(new) = Range(mail[f])
                 /\ mail' = [mail EXCEPT ![f] = new]
           /\ next' = [next EXCEPT ![f] = n + 1]
    /\ validity' = [validity EXCEPT ![f] = @ + 1]
    /\ UNCHANGED <<cur, marks, step, folder, tally>>

(* Login and List; both may fail, and then the run does not begin. *)
Connect ==
    /\ step = "idle" /\ step' = "folder" /\ folders' = Folders
    /\ UNCHANGED <<server, cur, marks, folder, mirrored, failed>>

(* loadLastUID: where to resume; a torn marker cannot be parsed. *)
Resumable(f) ==
    /\ markValid[f] # Torn
    /\ markValid[f] = validity[f] => markLast[f] # Torn

LastUID(f) == IF markValid[f] = validity[f] THEN markLast[f] ELSE 0

(* The UIDs that last+1:* stands for: * is the highest UID even if it is   *)
(* not above last.                                                         *)
Asked(f) ==
    {u \in DOMAIN mail[f] : \/ u > LastUID(f)
                            \/ \A v \in DOMAIN mail[f] : v <= u}

FolderFails(f) ==
    /\ failed' = failed \cup {f} /\ folders' = folders \ {f} /\ step' = "folder"
    /\ here' = NoFolder /\ seen' = 0 /\ fetch' = {} /\ maxUID' = 0 /\ wanted' = {}
    /\ UNCHANGED mirrored

(* mirrorMailbox as far as the FETCH command. *)
Select(f) ==
    /\ step = "folder" /\ f \in folders
    /\ IF Resumable(f)
       THEN /\ step' = "fetch" /\ here' = f /\ seen' = validity[f]
            /\ fetch' = Asked(f) /\ maxUID' = LastUID(f) /\ wanted' = Range(mail[f])
            /\ UNCHANGED tally
       ELSE FolderFails(f)
    /\ UNCHANGED <<server, cur, marks>>

(* A message written over the one that had its UID. *)
BadWriteMessage(u) ==
    /\ step = "fetch" /\ u \in fetch /\ fetch' = fetch \ {u}
    /\ cur' = [cur EXCEPT ![here] = [v \in DOMAIN @ \cup {u} |->
                                        IF v = u THEN mail[here][u] ELSE @[v]]]
    /\ maxUID' = IF u > maxUID THEN u ELSE maxUID
    /\ UNCHANGED <<server, marks, step, here, seen, wanted, tally>>

(* writeMessage: the body goes to tmp/ and, complete, to cur/, unless a    *)
(* file for the UID is there.                                              *)
WriteMessage(u) ==
    /\ step = "fetch" /\ u \in fetch
    /\ cur' = IF u \in DOMAIN cur[here] THEN cur
              ELSE [cur EXCEPT ![here] = [v \in DOMAIN @ \cup {u} |->
                                             IF v = u THEN mail[here][u] ELSE @[v]]]
    /\ fetch' = fetch \ {u}
    /\ maxUID' = IF u > maxUID THEN u ELSE maxUID
    /\ UNCHANGED <<server, marks, step, here, seen, wanted, tally>>

(* A message, the FETCH command or a marker fails. *)
FolderAborts ==
    /\ step \in {"fetch", "validity", "truncate", "last"} /\ FolderFails(here)
    /\ UNCHANGED <<server, cur, marks>>

(* Markers written before the last message has arrived. *)
BadTruncateValidity ==
    /\ step = "fetch" /\ step' = "validity"
    /\ markValid' = [markValid EXCEPT ![here] = Torn]
    /\ UNCHANGED <<server, cur, markLast, folder, tally>>

(* writeMarkers: each file is truncated and then written. *)
TruncateValidity ==
    /\ step = "fetch" /\ fetch = {} /\ step' = "validity"
    /\ markValid' = [markValid EXCEPT ![here] = Torn]
    /\ UNCHANGED <<server, cur, markLast, folder, tally>>

WriteValidity ==
    /\ step = "validity" /\ step' = "truncate"
    /\ markValid' = [markValid EXCEPT ![here] = seen]
    /\ UNCHANGED <<server, cur, markLast, folder, tally>>

TruncateLast ==
    /\ step = "truncate" /\ step' = "last"
    /\ markLast' = [markLast EXCEPT ![here] = Torn]
    /\ UNCHANGED <<server, cur, markValid, folder, tally>>

WriteLast ==
    /\ step = "last" /\ step' = "folder"
    /\ markLast' = [markLast EXCEPT ![here] = maxUID]
    /\ mirrored' = mirrored \cup {here} /\ folders' = folders \ {here}
    /\ UNCHANGED <<server, cur, markValid, folder, failed>>

LogOut ==
    /\ step' = "idle" /\ folders' = {} /\ here' = NoFolder /\ seen' = 0 /\ fetch' = {}
    /\ maxUID' = 0 /\ mirrored' = {} /\ failed' = {} /\ wanted' = {}

(* The run returns: an error only if every folder failed. *)
MailDone ==
    /\ step = "folder" /\ folders = {} /\ LogOut
    /\ UNCHANGED <<server, cur, marks>>

(* The process is killed, by a signal or with its daemon. *)
Killed ==
    /\ step # "idle" /\ LogOut
    /\ UNCHANGED <<server, cur, marks>>

MailNext ==
    \/ \E f \in Folders : Deliver(f) \/ Expunge(f) \/ Renumber(f) \/ Select(f)
    \/ \E u \in 1..MaxUid : WriteMessage(u)
    \/ Connect \/ FolderAborts \/ TruncateValidity \/ WriteValidity \/ TruncateLast
    \/ WriteLast \/ MailDone \/ Killed

MailSpec == MailInit /\ [][MailNext]_mailVars

-----------------------------------------------------------------------------
(* Type correctness of the server, the Maildirs and the run's memory. *)
MailTypes ==
    /\ \A f \in Folders :
          /\ validity[f] \in 1..MaxValidity /\ next[f] \in 1..MaxUid + 1
          /\ DOMAIN mail[f] \subseteq 1..MaxUid /\ Range(mail[f]) \subseteq Messages
          /\ DOMAIN cur[f] \subseteq 1..MaxUid /\ Range(cur[f]) \subseteq Messages
          /\ markValid[f] \in 0..MaxValidity \cup {Torn}
          /\ markLast[f] \in 0..MaxUid \cup {Torn}
    /\ folders \subseteq Folders /\ mirrored \cup failed \subseteq Folders

(* A message that was mirrored is never replaced or removed, not even when *)
(* its UID comes to stand for another message.                             *)
KeepsMail ==
    \A f \in Folders : \A u \in DOMAIN cur[f] :
        u \in DOMAIN cur'[f] /\ cur'[f][u] = cur[f][u]

MailKept == [][KeepsMail]_mailVars

(* As long as a folder was never renumbered, every message with a UID up   *)
(* to the recorded one is in the Maildir or was expunged, in whatever      *)
(* order the server sends them and wherever runs are killed.               *)
MarkerCovers ==
    \A f \in Folders :
        validity[f] = 1 /\ markLast[f] # Torn =>
            \A u \in DOMAIN mail[f] :
                u <= markLast[f] => u \in DOMAIN cur[f] /\ cur[f][u] = mail[f][u]

(* A folder that a run completed is mirrored whole: "a UIDVALIDITY change  *)
(* costs a redundant re-download rather than losing data".                 *)
CompletedIsWhole == here \in mirrored => wanted \subseteq Range(cur[here])
=============================================================================
