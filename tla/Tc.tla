--------------------------------- MODULE Tc ---------------------------------
(***************************************************************************)
(* Linux traffic control, as far as internal/qos uses it through the tc    *)
(* and ip commands (external: modelled from those commands, from the       *)
(* errors isBenignError expects and from the comments beside them).        *)
(*                                                                         *)
(* There is one action per command; a command on a missing device, an add  *)
(* of what exists and a delete of what does not are errors that change     *)
(* nothing.  The state belongs to the kernel and outlives the server.      *)
(***************************************************************************)
EXTENDS Integers

CONSTANTS
    Machines,    \* names of the proxies; a name stands for its remote port
    Ifaces,      \* network interfaces of the frps server
    NoIface,     \* the empty interface name
    IFBDev       \* ifb0, on which ingress is shaped

ASSUME DevAssumption ==
    /\ NoIface \notin Ifaces
    /\ IFBDev \notin Ifaces \cup {NoIface}

Devs == Ifaces \cup {NoIface, IFBDev}

VARIABLES
    root,        \* kind of the root qdisc of a device
    class,       \* htb classes of a device: pairs of class id and rate
    filter,      \* u32 filters under 1: -- pairs of machine and class id
    ingress      \* ingress hook: none, a bare qdisc, or the redirect to ifb0

kernel == <<root, class, filter, ingress>>

TcTypeOK ==
    /\ root \in [Devs -> {"absent", "default", "foreign", "htb"}]
    /\ class \in [Devs -> SUBSET (Nat \X Nat)]
    /\ filter \in [Devs -> SUBSET (Machines \X Nat)]
    /\ ingress \in [Devs -> {"none", "qdisc", "redirect"}]

(* Each interface has its distribution's default or an own root qdisc. *)
TcInit ==
    /\ root \in {r \in [Devs -> {"absent", "default", "foreign"}] :
                   \A v \in Devs : r[v] = "absent" <=> v \notin Ifaces}
    /\ class = [v \in Devs |-> {}]
    /\ filter = [v \in Devs |-> {}]
    /\ ingress = [v \in Devs |-> "none"]

-----------------------------------------------------------------------------
(* ip link add ifb0 type ifb; ip link set dev ifb0 up *)
LinkAdd ==
    /\ root' = [root EXCEPT ![IFBDev] = IF @ = "absent" THEN "default" ELSE @]
    /\ UNCHANGED <<class, filter, ingress>>

(* tc qdisc add dev i handle ffff: ingress *)
IngressAdd(i) ==
    /\ ingress' = [ingress EXCEPT ![i] =
                     IF @ = "none" /\ root[i] # "absent" THEN "qdisc" ELSE @]
    /\ UNCHANGED <<root, class, filter>>

(* tc filter del dev i parent ffff: *)
RedirectDel(i) ==
    /\ ingress' = [ingress EXCEPT ![i] = IF @ = "redirect" THEN "qdisc" ELSE @]
    /\ UNCHANGED <<root, class, filter>>

(* tc filter add dev i parent ffff: ... redirect dev ifb0 *)
RedirectAdd(i) ==
    /\ ingress' = [ingress EXCEPT ![i] =
                     IF @ = "qdisc" /\ root[IFBDev] # "absent" THEN "redirect" ELSE @]
    /\ UNCHANGED <<root, class, filter>>

(* tc qdisc del dev i ingress *)
IngressDel(i) ==
    /\ ingress' = [ingress EXCEPT ![i] = "none"]
    /\ UNCHANGED <<root, class, filter>>

(* tc qdisc del dev v root: takes the classes and filters with it.  The    *)
(* default qdisc that comes in its place cannot be deleted.                *)
RootDel(v) ==
    IF root[v] \in {"foreign", "htb"}
    THEN /\ root' = [root EXCEPT ![v] = "default"]
         /\ class' = [class EXCEPT ![v] = {}]
         /\ filter' = [filter EXCEPT ![v] = {}]
         /\ UNCHANGED ingress
    ELSE UNCHANGED kernel

(* tc qdisc add dev v root handle 1: htb: replaces the default qdisc only. *)
RootAdd(v) ==
    /\ root' = [root EXCEPT ![v] = IF @ = "default" THEN "htb" ELSE @]
    /\ UNCHANGED <<class, filter, ingress>>

(* tc class replace dev v classid 1:id: nothing without the htb qdisc. *)
ClassReplace(v, id, rate) ==
    /\ class' = [class EXCEPT ![v] =
                   IF root[v] = "htb"
                   THEN {c \in @ : c[1] # id} \cup {<<id, rate>>} ELSE @]
    /\ UNCHANGED <<root, filter, ingress>>

(* tc class del dev v classid 1:id: refused while a filter points to it. *)
ClassBusy(v, id) == \E p \in filter[v] : p[2] = id

ClassDel(v, id) ==
    /\ class' = [class EXCEPT ![v] =
                   IF ClassBusy(v, id) THEN @ ELSE {c \in @ : c[1] # id}]
    /\ UNCHANGED <<root, filter, ingress>>

(* tc filter del dev v parent 1: *)
FilterDel(v) ==
    /\ filter' = [filter EXCEPT ![v] = {}]
    /\ UNCHANGED <<root, class, ingress>>

(* tc filter add dev v parent 1: ... flowid 1:id *)
FilterAdd(v, m, id) ==
    /\ filter' = [filter EXCEPT ![v] =
                    IF root[v] = "htb" THEN @ \cup {<<m, id>>} ELSE @]
    /\ UNCHANGED <<root, class, ingress>>
=============================================================================
