---------------------------- MODULE TaskLifecycle ----------------------------
(***************************************************************************)
(* What the analysis queue promises about one task row, whatever the       *)
(* workers, the schedules and the crashes do: a task is handed out at most *)
(* once, publishes at most one analysis_history row, is completed only     *)
(* with its row published, and stays completed.  `failed' is the only      *)
(* verdict that a late result may still replace: the stale-task sweep      *)
(* writes it while the handler may be alive.                               *)
(***************************************************************************)
EXTENDS Naturals

CONSTANT TaskId

VARIABLES
    status,     \* status[t]: the status column, "absent" before the insert
    started,    \* the tasks some worker has been given
    published   \* published[t]: number of history rows of t

lifecycleVars == <<status, started, published>>

Statuses == {"absent", "pending", "processing", "completed", "failed"}

Init ==
    /\ status = [t \in TaskId |-> "absent"]
    /\ started = {}
    /\ published = [t \in TaskId |-> 0]

Enqueue(t) ==
    /\ status[t] = "absent"
    /\ status' = [status EXCEPT ![t] = "pending"]
    /\ UNCHANGED <<started, published>>

\* A schedule whose trigger failed leaves a task that was never runnable.
Reject(t) ==
    /\ status[t] = "absent"
    /\ status' = [status EXCEPT ![t] = "failed"]
    /\ UNCHANGED <<started, published>>

Start(t) ==
    /\ status[t] = "pending"
    /\ status' = [status EXCEPT ![t] = "processing"]
    /\ started' = started \cup {t}
    /\ UNCHANGED published

Publish(t) ==
    /\ t \in started
    /\ status[t] \in {"processing", "failed"}
    /\ published[t] = 0
    /\ published' = [published EXCEPT ![t] = 1]
    /\ UNCHANGED <<status, started>>

Complete(t) ==
    /\ status[t] \in {"processing", "failed"}
    /\ published[t] = 1
    /\ status' = [status EXCEPT ![t] = "completed"]
    /\ UNCHANGED <<started, published>>

Fail(t) ==
    /\ status[t] = "processing"
    /\ status' = [status EXCEPT ![t] = "failed"]
    /\ UNCHANGED <<started, published>>

Next ==
    \E t \in TaskId :
        \/ Enqueue(t) \/ Reject(t) \/ Start(t)
        \/ Publish(t) \/ Complete(t) \/ Fail(t)

Spec == Init /\ [][Next]_lifecycleVars

=============================================================================
