------------------------------ MODULE AgentBridge ------------------------------
(***************************************************************************)
(* How the Backend has the Agent analyse a stock: it creates a task there, *)
(* asks for the state of the task until it is done or the time for asking  *)
(* is over, and then fetches the run.  Every call may get no answer, or an *)
(* error that is worth another try.  The calls of two analyses have        *)
(* nothing in common, so one is followed at a time.                        *)
(***************************************************************************)
EXTENDS ApiRequests

CONSTANTS
    MaxRetries,     \* AGENT_TASK_POLL_MAX_RETRIES
    MaxMisses       \* bound: calls without a usable answer

ASSUME BridgeConstants == MaxRetries \in Nat /\ MaxMisses \in Nat

VARIABLES
    agentTask,  \* external: the Agent's task: its status, whether it has a run
    overdue,    \* AGENT_TASK_POLL_TIMEOUT_MS have passed since the first poll
    misses,     \* history: the calls that failed since the last answer
    missed,     \* bound: all the calls that failed
    verdict     \* how the last analysis ended: a run, or an error code

bridgeVars == <<agentTask, overdue, misses, missed, verdict>>

NoAgentTask == [status |-> None, run |-> FALSE]

BridgeInit ==
    /\ agentTask = NoAgentTask
    /\ overdue = FALSE
    /\ misses = 0 /\ missed = 0
    /\ verdict = None

BridgeCall == [kind : {"bridge"}, errors : Nat, attempt : Nat]

BridgeRequest(c) ==
    /\ \A d \in Clients : pc[d] = "idle"
    /\ Arrive(c, "create", [kind |-> "bridge", errors |-> 0, attempt |-> 1])
    /\ agentTask' = NoAgentTask
    /\ overdue' = FALSE
    /\ misses' = 0
    /\ verdict' = None
    /\ UNCHANGED missed

Answered == misses' = 0 /\ UNCHANGED missed
Misses   == missed < MaxMisses /\ missed' = missed + 1 /\ misses' = misses + 1

Ends(c, v) == Finish(c) /\ verdict' = v
On(c, label, r) == Goto(c, label, r) /\ UNCHANGED verdict

(***************************************************************************)
(* external: the Agent works on the task.                                  *)
(***************************************************************************)
AgentWorks ==
    /\ agentTask.status = "processing"
    /\ agentTask' \in [status : {"completed"}, run : BOOLEAN]
                      \cup [status : {"failed"}, run : {FALSE}]
    /\ UNCHANGED <<apiVars, overdue, misses, missed, verdict>>

PollTimePasses ==
    /\ ~overdue /\ \E c \in Clients : pc[c] \in {"check", "poll"}
    /\ overdue' = TRUE
    /\ UNCHANGED <<apiVars, agentTask, misses, missed, verdict>>

(***************************************************************************)
(* runViaAsyncTask.                                                        *)
(***************************************************************************)
\* What a status that the Agent reports leads to.  The time begins to count with
\* the first poll, so that it is not over before it.
Follow(c, task) ==
    \/ task.status = "failed" /\ Ends(c, "agent_task_failed")
    \/ task.status = "completed" /\ task.run /\ On(c, "getRun", req[c])
    \/ task.status = "completed" /\ ~task.run
       /\ Ends(c, "agent_task_invalid_payload")
    \/ task.status = "processing" /\ On(c, "poll", req[c])

CreateRunAsync(c) ==
    /\ pc[c] = "create"
    /\ \/ /\ agentTask' \in [status : {"processing", "failed"}, run : {FALSE}]
                            \cup [status : {"completed"}, run : BOOLEAN]
          /\ Follow(c, agentTask')
          /\ Answered
       \/ /\ Ends(c, "agent_task_invalid_payload")      \* no task_id
          /\ Answered /\ UNCHANGED agentTask
       \/ /\ Ends(c, "agent_task_submit_failed")
          /\ Misses /\ UNCHANGED agentTask
    /\ UNCHANGED overdue

\* The time is looked at before the sleep and the next poll, not after them.
CheckTime(c) ==
    /\ pc[c] = "check"
    /\ IF overdue THEN Ends(c, "agent_poll_timeout")
       ELSE On(c, "poll", req[c])
    /\ UNCHANGED <<agentTask, overdue, misses, missed>>

AfterAnswer_Keeps(r) == r
AfterAnswer(r) == [r EXCEPT !.errors = 0]

Poll(c) ==
    /\ pc[c] = "poll"
    /\ Answered
    /\ LET r == AfterAnswer(req[c])
       IN  CASE agentTask.status = "processing" -> On(c, "check", r)
             [] OTHER -> Follow(c, agentTask)
    /\ UNCHANGED <<agentTask, overdue>>

PollFails(c) ==
    /\ pc[c] = "poll"
    /\ Misses
    /\ \/ Ends(c, "agent_upstream_error")       \* not worth another try
       \/ /\ req[c].errors + 1 > MaxRetries
          /\ Ends(c, "agent_poll_network_error")
       \/ /\ req[c].errors + 1 <= MaxRetries
          /\ On(c, "check", [req[c] EXCEPT !.errors = @ + 1])
    /\ UNCHANGED <<agentTask, overdue>>

\* getRunWithRetry does not look at the time.
GetRun(c) ==
    /\ pc[c] = "getRun"
    /\ Ends(c, "run")
    /\ Answered
    /\ UNCHANGED <<agentTask, overdue>>

GetRunFails(c) ==
    /\ pc[c] = "getRun"
    /\ Misses
    /\ \/ Ends(c, "agent_run_fetch_failed")     \* not worth another try
       \/ /\ req[c].attempt > MaxRetries
          /\ Ends(c, "agent_poll_network_error")
       \/ /\ req[c].attempt <= MaxRetries
          /\ On(c, "getRun", [req[c] EXCEPT !.attempt = @ + 1])
    /\ UNCHANGED <<agentTask, overdue>>

BridgeStep(c) ==
    \/ CreateRunAsync(c) \/ CheckTime(c) \/ Poll(c) \/ PollFails(c)
    \/ GetRun(c) \/ GetRunFails(c)

Verdicts ==
    {"run", "agent_task_submit_failed", "agent_task_invalid_payload",
     "agent_task_failed", "agent_upstream_error", "agent_poll_network_error",
     "agent_poll_timeout", "agent_run_fetch_failed"}

\* Null is no verdict.
ASSUME NullIsNoVerdict == None \notin Verdicts

BridgeTypeOK ==
    /\ agentTask \in [status : {None, "processing", "completed", "failed"},
                      run : BOOLEAN]
    /\ overdue \in BOOLEAN
    /\ misses \in 0 .. MaxMisses /\ missed \in 0 .. MaxMisses
    /\ verdict \in Verdicts \cup {None}

=============================================================================
