----------------------------- MODULE MCSettings -----------------------------
(* Instances of Settings for TLC: registration, one threshold with a       *)
(* default, and two secrets.                                               *)
EXTENDS Settings

CONSTANTS threshold, pass, token, v1, v2, negative

PublicFields == {Registration, threshold}
SecretFields == {pass, token}
Defaults == [f \in PublicFields |-> v1]
Negatives == [f \in PublicFields |-> {negative}]

Asks(values) == [f \in Fields |-> IF f \in DOMAIN values THEN values[f] ELSE Keep]

(* Any secrets, and one field that has no value yet. *)
OldFiles == {c \in Configs : c[Registration] = Empty /\ c[threshold] = v2}

(* A new mode; a threshold, perhaps none or a negative one; a new token. *)
SavesOfInterest ==
    {Asks([f \in {Registration} |-> v2]), Asks([f \in {threshold} |-> Empty]),
     Asks([f \in {threshold} |-> negative]),
     Asks([f \in {threshold, token} |-> v2])}

(* frps with a dashboard password, and without one. *)
DetectionsOfInterest ==
    {Asks([f \in {pass, token} |-> IF f = pass THEN p ELSE v1]) : p \in {v2, Empty}}
=============================================================================
