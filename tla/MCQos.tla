------------------------------- MODULE MCQos -------------------------------
(* Small instances of Qos for TLC. *)
EXTENDS Qos, TLC

\* A configuration with the given mode, interface, budgets (kbit/s) and the
\* sets of machines capped by hand in each direction.
Conf(mode, i, bo, bi, mo, mi) ==
    [mode |-> mode, iface |-> i,
     budget |-> [d \in Dirs |-> IF d = "out" THEN bo ELSE bi],
     manual |-> [d \in Dirs |-> [m \in Machines |->
                   IF m \in (IF d = "out" THEN mo ELSE mi) THEN 3 ELSE 0]]]

CONSTANTS eth0, eth1

\* Caps on egress for everybody by hand, or a budget for ingress to share: each
\* change of the configuration moves the machines to the other direction.
ManualConfigs == {Conf("manual", eth0, 0, 0, Machines, {}),
                  Conf("auto", eth0, 0, 5, {}, {})}

BusyConfigs == {Conf("auto", eth0, 5, 0, {}, {})}

OffConfigs == {Conf("off", eth0, 5, 5, {}, {}), Conf("auto", eth0, 5, 0, {}, {})}

Perms == Permutations(Machines)
=============================================================================
