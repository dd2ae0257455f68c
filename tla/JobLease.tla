------------------------------ MODULE JobLease ------------------------------
(***************************************************************************)
(* What mirrord promises about the execution of jobs, with no queue, no    *)
(* goroutines and no restarts in sight, as long as nobody resets a job.    *)
(*                                                                         *)
(* A job is submitted with some credit.  It is leased to one execution at  *)
(* a time; a lease that comes back for another attempt costs one credit,   *)
(* and without credit it cannot come back.  A job is therefore executed at *)
(* most credit + 1 times, never by two executions at once, and never again *)
(* once it is done or gone.                                                *)
(***************************************************************************)
EXTENDS Integers

CONSTANT Jobs

VARIABLES status, credit

Status == {"none", "pending", "held", "leased", "done", "gone"}

Init ==
  /\ status = [j \in Jobs |-> "none"]
  /\ credit = [j \in Jobs |-> 0]

(* What may become of one job: its status and credit s, c change to t, d. *)
Change(s, c, t, d) ==
  \/ s = "none" /\ t = "pending" /\ d \in Nat                      \* submitted
  \/ s = "pending" /\ t = "leased" /\ d = c                        \* execution starts
  \/ s = "leased" /\ t = "pending" /\ c > 0 /\ d = c - 1           \* to be tried again
  \/ s = "pending" /\ t = "held" /\ d = c                          \* set aside
  \/ s = "held" /\ t = "pending" /\ d = c
  \/ s \in {"pending", "held", "leased"} /\ t = "done" /\ d = 0     \* over
  \/ s \in {"leased", "done"} /\ t = "gone" /\ d = 0               \* deleted

(* Batches and recoveries move many jobs at once. *)
Next ==
  LET s == status   c == credit
      t == status'  d == credit'
  IN  /\ t \in [Jobs -> Status]
      /\ d \in [Jobs -> Nat]
      /\ \A j \in Jobs : Change(s[j], c[j], t[j], d[j]) \/ (t[j] = s[j] /\ d[j] = c[j])

Spec == Init /\ [][Next]_<<status, credit>>
=============================================================================
