----------------------------- MODULE FileNames -----------------------------
(***************************************************************************)
(* How the Google Photos and the iCloud mirror choose a local file name:   *)
(* resolveFilename of src/gphotos/gphotos.go and src/icloud/icloud.go.     *)
(*                                                                         *)
(* A path is <<name, suffixes>>: <<"a.jpg", <<2>>>> is a-2.jpg, the second *)
(* candidate for a.jpg.  A name stands for the date directory and the file *)
(* name together.                                                          *)
(***************************************************************************)
EXTENDS Naturals, Sequences

CONSTANT MaxSuffix   \* bound: the largest number in a suffix

SuffixAssumption == MaxSuffix \in Nat

Numbered(q, k) == <<q[1], Append(q[2], k)>>

(* The names resolveFilename tries for q. *)
Candidates(q) == {q} \cup {Numbered(q, k) : k \in 2..MaxSuffix}

(* A name resolveFilename did not choose at first sight. *)
BadResolves(q, p, used) == p = q

(* p is the first candidate for q that no known item holds. *)
Resolves(q, p, used) ==
    /\ p \notin used
    /\ p # q => /\ q \in used
                /\ \A k \in 2..MaxSuffix :
                      (k < p[2][Len(p[2])]) => Numbered(q, k) \in used
=============================================================================
