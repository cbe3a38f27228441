----------------------------- MODULE TaskBoard -----------------------------
(***************************************************************************)
(* What the task manager of internal/actions promises to the people who    *)
(* look at its list: tasks appear in the order of their numbers, the list  *)
(* holds the newest of them, a task reports on its machines one by one, in *)
(* the order in which they were asked for, whatever becomes of each, and   *)
(* is done only when it has reported on all.                               *)
(***************************************************************************)
EXTENDS Naturals, Sequences

CONSTANTS
    Machines,
    MaxKept,   \* length of the list
    Ids        \* numbers of tasks

VARIABLES
    posted,    \* number of the last task
    listed,    \* the list
    targets,   \* the machines each task is for
    reported,  \* the machines it has reported on
    done       \* the tasks that are done

board == <<posted, listed, targets, reported, done>>

(* The newest MaxKept of the first n numbers. *)
Newest(n) == {i \in 1..n : i + MaxKept > n}

BoardInit ==
    /\ posted = 0 /\ listed = {} /\ done = {}
    /\ targets = [i \in Ids |-> <<>>] /\ reported = [i \in Ids |-> <<>>]

(* A task is started for a sequence of machines. *)
Post ==
    /\ posted + 1 \in Ids
    /\ posted' = posted + 1
    /\ listed' = Newest(posted + 1)
    /\ targets'[posted + 1] \in Seq(Machines)
    /\ targets' = [targets EXCEPT ![posted + 1] = targets'[posted + 1]]
    /\ UNCHANGED <<reported, done>>

(* Task i reports on its next machine. *)
ReportNext(i) ==
    /\ i <= posted /\ i \notin done
    /\ Len(reported[i]) < Len(targets[i])
    /\ reported' = [reported EXCEPT ![i] = Append(@, targets[i][Len(@) + 1])]
    /\ UNCHANGED <<posted, listed, targets, done>>

(* Task i is done: it has reported on each of its machines. *)
Complete(i) ==
    /\ i <= posted /\ i \notin done
    /\ reported[i] = targets[i]
    /\ done' = done \cup {i}
    /\ UNCHANGED <<posted, listed, targets, reported>>

BoardNext == Post \/ \E i \in Ids : ReportNext(i) \/ Complete(i)

BoardSpec == BoardInit /\ [][BoardNext]_board
=============================================================================
