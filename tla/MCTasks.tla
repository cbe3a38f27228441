------------------------------ MODULE MCTasks ------------------------------
(* Small instances of Tasks for TLC. *)
EXTENDS Tasks, TLC

CONSTANTS m1, m2, m3

\* One machine that can become root, one that cannot, one without credentials.
Logins == (m1 :> "sudo") @@ (m2 :> "plain") @@ (m3 :> "none")
=============================================================================
