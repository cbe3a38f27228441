---------------------------- MODULE MCTelemetry ----------------------------
(* A small instance of Telemetry for TLC. *)
EXTENDS Telemetry, TLC

CONSTANTS eth, wg, root

\* Ticks of work and of rest.
SomeLoads == {[busy |-> 3, idle |-> 0, bytes |-> (eth :> 2) @@ (wg :> 1)],
              [busy |-> 1, idle |-> 4, bytes |-> (eth :> 0) @@ (wg :> 0)]}

ToolItem(there, active, days) ==
    [listed |-> TRUE, installed |-> there, active |-> active, days |-> days]
NoTool == [listed |-> FALSE, installed |-> FALSE, active |-> FALSE, days |-> -1]

\* Readings around the limits, complete and missing ones.
SomeSnapshots ==
    [cpu : {-10, 0, 740, 840, 890},
     tunnelUp : {TRUE},
     fast : {[cores |-> cores, load |-> 3, memTotal |-> total, memAvail |-> 15,
              disk |-> (root :> disk)] : cores \in {0, 2}, total \in {0, 100}, disk \in {-1, 74, 80}},
     slow : {[gpu |-> [present |-> gpu, temp |-> 76, memUsed |-> 84, memTotal |-> 100],
              security |-> ("rkhunter" :> rk) @@ ("clamav-daemon" :> av) @@ ("ufw" :> NoTool)] :
                gpu \in BOOLEAN,
                rk \in {NoTool, ToolItem(TRUE, TRUE, 7), ToolItem(TRUE, FALSE, -1)},
                av \in {NoTool, ToolItem(FALSE, FALSE, -1), ToolItem(TRUE, TRUE, 7)}}]

Limit(age, warn, fail) ==
    [l \in Limits |->
        CASE l = "snapshotMaxAge" -> age
          [] l = "clamDbMaxDays" -> 7
          [] l \in {"cpuWarn", "memWarn", "diskWarn", "gpuTempWarn", "gpuMemWarn"} -> warn
          [] OTHER -> fail]

\* Limits in their order, and in the wrong one.
SomeSettings == {Limit(1, 75, 85), Limit(0, 90, 80)}
=============================================================================
