------------------------------ MODULE MCServer ------------------------------
(***************************************************************************)
(* Two parts of the daemon that share no state: the output of a job on its *)
(* way to the clients, and the logins of browsers.  A behaviour exercises  *)
(* one of them.                                                            *)
(*                                                                         *)
(* The bounds.  Three lines reach every limit: they overfill a pipe of one *)
(* line, a ring of two, and the channel, of one line, of a slow reader.    *)
(* Three tokens are a state, the session made for it, and the one that     *)
(* must not be made.                                                       *)
(***************************************************************************)
EXTENDS LogStream, Auth

CONSTANT Parts

VARIABLE part

output == <<process, executor, hub, table, web>>
access == <<server, request, browser, logins, ended>>
allVars == <<part, output, access>>

MCInit ==
    /\ part \in Parts
    /\ StreamInit /\ Init
    /\ part = "logins" => long = {} /\ source[1] = source[2] /\ source[2] = source[3]

MCNext ==
    \/ part = "output" /\ StreamNext /\ UNCHANGED <<part, access>>
    \/ part = "logins" /\ Next /\ UNCHANGED <<part, output>>

MCSpec == MCInit /\ [][MCNext]_allVars /\ StreamFairness
=============================================================================
