----------------------------- MODULE MCTraffic -----------------------------
(* A small instance of Traffic for TLC. *)
EXTENDS Traffic, TLC

CONSTANTS p1, p2

V(i, o) == [s \in Sides |-> IF s = "in" THEN i ELSE o]

\* One proxy that works or surges; one that carries the same all the time.
SomeLoads == (p1 :> {V(0, 1), V(7, 0)}) @@ (p2 :> {V(2, 0)})
=============================================================================
