---------------------------- MODULE ConfigStore ----------------------------
(***************************************************************************)
(* What the configuration of internal/config promises to those who read    *)
(* and save settings: a request takes effect at once and as a whole, on    *)
(* what all requests before it have left, and a server that starts again   *)
(* works with what is kept.  It does not promise that a request which is   *)
(* refused or cut off has left no trace: secrets are kept one by one,      *)
(* before it is known whether the request will succeed.                    *)
(***************************************************************************)
CONSTANTS
    Fields, Secrets,
    Values, Empty,  \* of a field; Empty for none
    Default,        \* of the other fields
    Refused,        \* of these: the values that a start replaces
    Keep,           \* in a request: the field is not in it
    Changes         \* what may be asked for

VARIABLES
    serving,  \* is the server up?
    shown,    \* the configuration that it works with
    kept      \* the configuration that it would start with

store == <<serving, shown, kept>>

Nothing == [f \in Fields |-> Empty]

(* The configuration once request r has taken effect. *)
After(r) == [f \in Fields |-> IF r[f] # Keep THEN r[f] ELSE shown[f]]

(* What remains of configuration c: a secret without a value leaves the    *)
(* one that is kept; any other field without one, or with one that a start *)
(* does not accept, gets its default.                                      *)
Remaining(c) ==
    [f \in Fields |->
        IF f \in Secrets THEN (IF c[f] = Empty THEN kept[f] ELSE c[f])
        ELSE IF c[f] \in Refused[f] \cup {Empty} THEN Default[f] ELSE c[f]]

StoreInit ==
    /\ ~serving /\ shown = Nothing
    /\ kept \in [Fields -> Values \cup {Empty}]

(* The server starts, with what is kept. *)
Serve ==
    /\ ~serving /\ serving' = TRUE
    /\ shown' = kept
    /\ UNCHANGED kept

(* Request r takes effect. *)
Change(r) ==
    /\ serving
    /\ shown' = After(r)
    /\ kept' = Remaining(After(r))
    /\ UNCHANGED serving

(* Request r is under way and has come as far as secret k. *)
KeepSecret(r, k) ==
    /\ serving
    /\ After(r)[k] # Empty
    /\ kept' = [kept EXCEPT ![k] = After(r)[k]]
    /\ UNCHANGED <<serving, shown>>

(* The server ends; what is kept remains. *)
End ==
    /\ serving /\ serving' = FALSE
    /\ shown' = Nothing
    /\ UNCHANGED kept

StoreNext ==
    \/ Serve \/ End
    \/ \E r \in Changes : Change(r) \/ \E k \in Secrets : KeepSecret(r, k)

StoreSpec == StoreInit /\ [][StoreNext]_store
=============================================================================
