---------------------------- MODULE MCLoginLimit ----------------------------
(* Small instances of LoginLimit for TLC. *)
EXTENDS LoginLimit, TLC

\* Logins are alike.
Perms == Permutations(Workers)
=============================================================================
