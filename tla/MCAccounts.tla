----------------------------- MODULE MCAccounts -----------------------------
(* Instances of Accounts for TLC: a new installation, and one with an      *)
(* administrator and a second account of any kind, both logged in.         *)
EXTENDS Accounts, TLC

CONSTANTS alice, bob, carol

Empty == [user |-> [i \in Ids |-> NoRow], session |-> [t \in Tokens |-> NoSession],
          lastId |-> 0, lastToken |-> 0]

Account(n, status, isAdmin) == [state |-> status, name |-> n, admin |-> isAdmin, pw |-> 0]
LoggedIn(i, n) == [NoSession EXCEPT !.user = i, !.name = n]

Established(status, isAdmin, both) ==
    [user |-> [i \in Ids |-> CASE i = 1 -> Account(alice, "approved", TRUE)
                               [] i = 2 -> Account(bob, status, isAdmin)
                               [] OTHER -> NoRow],
     session |-> [t \in Tokens |-> CASE t = 1 -> LoggedIn(1, alice)
                                     [] t = 2 /\ both -> LoggedIn(2, bob)
                                     [] OTHER -> NoSession],
     lastId |-> 2, lastToken |-> IF both THEN 2 ELSE 1]

SomeDatabases ==
    {Empty, Established("approved", TRUE, TRUE), Established("approved", FALSE, FALSE),
     Established("pending", FALSE, FALSE)}
(* Requests are alike. *)
Requests == Permutations(Workers)
=============================================================================
