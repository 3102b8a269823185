------------------------- MODULE StrategyInterpretation -------------------------
(***************************************************************************)
(* Strategy backtests and the queue of their interpretations.  A group is  *)
(* created with its runs in one transaction, either for the worker to      *)
(* interpret (pending) or for the Agent that asked for it (processing).    *)
(* Three writers meet over a group: the worker with its retries, a page    *)
(* that shows a group without an interpretation and makes one itself, and  *)
(* the Agent that writes its own.                                          *)
(*                                                                         *)
(* A definition with an underscore in its name is the next one with a      *)
(* mistake in it.                                                          *)
(***************************************************************************)
EXTENDS ApiRequests

CONSTANTS
    Groups,         \* ids of run groups, in the order of their creation
    MaxAttempts     \* STRATEGY_AI_INTERPRETATION_MAX_ATTEMPTS

ASSUME JobConstants == Groups \subseteq Nat /\ MaxAttempts \in Nat \ {0}

VARIABLES
    job,        \* job[g]: the row of strategy_backtest_run_groups
    adrift,     \* history: processing groups whose worker ended without a word
    surpassed   \* history: requests that found no interpretation of a group
                \* that another has written since

jobVars == <<job, adrift, surpassed>>

Statuses == {"pending", "processing", "completed", "failed"}
Answers  == {"ready", "failed", "unavailable"}

\* due: the retry time has come; round: how often it has been set anew;
\* managed: the Agent is to write the interpretation; answer: what the runs of
\* the group have, all of them, since they are always written together.
Job == [status : Statuses, attempts : Nat, due : BOOLEAN, round : Nat,
        managed : BOOLEAN, answer : Answers \cup {None}]

\* Null is neither a job nor an interpretation.
ASSUME NullIsNoJob == None \notin Job /\ None \notin Answers

JobCall == [op : {"createJob", "showJob", "work", "writeBack"},
            group : Groups \cup {None}, managed : BOOLEAN,
            attempts : Nat, round : Nat, answer : Answers \cup {None}]

Exists(g) == job[g] # None
Created   == {g \in Groups : Exists(g)}

JobTypeOK ==
    /\ job \in [Groups -> Job \cup {None}]
    /\ adrift \subseteq Groups
    /\ surpassed \subseteq Clients

JobInit ==
    /\ job = [g \in Groups |-> None]
    /\ adrift = {}
    /\ surpassed = {}

CallFor(op, g) == [op |-> op, group |-> g, managed |-> FALSE, attempts |-> 0,
                   round |-> 0, answer |-> None]

(***************************************************************************)
(* runStrategyRange: the Agent runs the strategies, then one transaction.  *)
(***************************************************************************)
StrategyRequest(c) ==
    /\ Created # Groups
    /\ \E m \in BOOLEAN :
          Arrive(c, "runStrategies", [CallFor("createJob", None) EXCEPT !.managed = m])
    /\ UNCHANGED jobVars

\* The answer may hold no items, which is an error.
RunStrategies(c) ==
    /\ pc[c] = "runStrategies"
    /\ Goto(c, "createJob", req[c]) \/ Finish(c)
    /\ UNCHANGED jobVars

NextId == CHOOSE g \in Groups \ Created : \A h \in Groups \ Created : g <= h

CreateJob(c) ==
    /\ pc[c] = "createJob"
    /\ IF Created = Groups THEN UNCHANGED job
       ELSE job' = [job EXCEPT ![NextId] =
               [status |-> IF req[c].managed THEN "processing" ELSE "pending",
                attempts |-> 0, due |-> TRUE, round |-> 0,
                managed |-> req[c].managed, answer |-> None]]
    /\ Finish(c)
    /\ UNCHANGED <<adrift, surpassed>>

(***************************************************************************)
(* getStrategyRunDetail: a group that nobody is processing and that has no *)
(* interpretation is given one before it is shown.                         *)
(***************************************************************************)
ShowJobRequest(c) ==
    /\ \E g \in Created : Arrive(c, "showJob", CallFor("showJob", g))
    /\ UNCHANGED jobVars

NeedsHydration(j) == j.status # "processing" /\ j.answer = None

ShowJob(c) ==
    /\ pc[c] = "showJob"
    /\ IF NeedsHydration(job[req[c].group]) THEN Goto(c, "readRuns", req[c])
       ELSE Finish(c)
    /\ UNCHANGED jobVars

(***************************************************************************)
(* ensureStrategyRunGroupInterpretations: the runs without an              *)
(* interpretation are read, asked about and written, by id.                *)
(***************************************************************************)
Targets_All(j) == TRUE
Targets(j) == j.answer = None

ReadRuns(c) ==
    /\ pc[c] = "readRuns"
    /\ Goto(c, IF Targets(job[req[c].group]) THEN "ask" ELSE "markDone", req[c])
    /\ surpassed' = surpassed \ {c}
    /\ UNCHANGED <<job, adrift>>

Ask(c) ==
    /\ pc[c] = "ask"
    /\ \E a \in Answers : Goto(c, "writeRuns", [req[c] EXCEPT !.answer = a])
    /\ UNCHANGED jobVars

Surpasses(c) ==
    surpassed' = surpassed \cup
        {d \in Clients : /\ pc[d] \in {"ask", "writeRuns", "writeBack"}
                         /\ d # c /\ req[d].group = req[c].group}

WriteRuns(c) ==
    /\ pc[c] = "writeRuns"
    /\ job' = [job EXCEPT ![req[c].group].answer = req[c].answer]
    /\ Surpasses(c)
    /\ Goto(c, "markDone", req[c])
    /\ UNCHANGED adrift

\* Both the page and the worker write the outcome by id.
MarkDone(c) ==
    /\ pc[c] = "markDone"
    /\ job' = [job EXCEPT ![req[c].group].status = "completed",
                          ![req[c].group].due = TRUE]
    /\ Finish(c)
    /\ UNCHANGED <<adrift, surpassed>>

(***************************************************************************)
(* persistStrategyRunGroupInterpretationsFromAgent: read the group, then   *)
(* write all runs and the status in one transaction.  An item the Agent    *)
(* left out counts as failed.  A group of another user is refused; whose a *)
(* group is, is not kept here.                                             *)
(***************************************************************************)
WriteBackRequest(c) ==
    /\ \E g \in Created : Arrive(c, "readGroup", CallFor("writeBack", g))
    /\ UNCHANGED jobVars

ReadGroup(c) ==
    /\ pc[c] = "readGroup"
    /\ \/ \E a \in Answers : Goto(c, "writeBack", [req[c] EXCEPT !.answer = a])
       \/ Finish(c)
    /\ UNCHANGED jobVars

WriteBack(c) ==
    /\ pc[c] = "writeBack"
    /\ job' = [job EXCEPT ![req[c].group].answer = req[c].answer,
                          ![req[c].group].status = "completed",
                          ![req[c].group].due = TRUE]
    /\ Surpasses(c)
    /\ Finish(c)
    /\ UNCHANGED adrift

(***************************************************************************)
(* processNextStrategyRunGroupJob.                                         *)
(***************************************************************************)
Ready(g) == Exists(g) /\ job[g].status = "pending" /\ job[g].due

PickJob(w) ==
    /\ w \in Workers /\ pc[w] = "idle"
    /\ \E g \in Groups :
          /\ Ready(g) /\ \A h \in Groups : Ready(h) => g <= h
          /\ Goto(w, "lockJob", [CallFor("work", g) EXCEPT
                                    !.attempts = job[g].attempts + 1,
                                    !.round = job[g].round])
    /\ UNCHANGED jobVars

\* The lock repeats the condition of the pick with the time of the pick: a job
\* that was put off since is not due at that time.
Takeable_Pending(j, r) == j.status = "pending"
Takeable(j, r) == j.status = "pending" /\ j.round = r.round

LockJob(w) ==
    LET g == req[w].group
    IN  /\ pc[w] = "lockJob"
        /\ IF Takeable(job[g], req[w])
           THEN /\ job' = [job EXCEPT ![g].status = "processing",
                                      ![g].attempts = @ + 1, ![g].due = TRUE]
                /\ Goto(w, "readRuns", req[w])
           ELSE UNCHANGED job /\ Finish(w)
        /\ UNCHANGED <<adrift, surpassed>>

PutOff_Holds(w) ==
    LET r == req[w]
        exhausted == r.attempts >= MaxAttempts
    IN  /\ pc[w] = "putOff"
        /\ job' = [job EXCEPT
              ![r.group].status = IF exhausted THEN "failed" ELSE @,
              ![r.group].due = exhausted,
              ![r.group].round = IF exhausted THEN @ ELSE @ + 1]
        /\ Finish(w)
        /\ UNCHANGED <<adrift, surpassed>>

\* The catch block: one more attempt later, or the end.
PutOff(w) ==
    LET r == req[w]
        exhausted == r.attempts >= MaxAttempts
    IN  /\ pc[w] = "putOff"
        /\ job' = [job EXCEPT
              ![r.group].status = IF exhausted THEN "failed" ELSE "pending",
              ![r.group].due = exhausted,
              ![r.group].round = IF exhausted THEN @ ELSE @ + 1]
        /\ Finish(w)
        /\ UNCHANGED <<adrift, surpassed>>

\* The retry time of a job comes.
ComesDue(g) ==
    /\ Exists(g) /\ ~job[g].due
    /\ job' = [job EXCEPT ![g].due = TRUE]
    /\ UNCHANGED <<apiVars, adrift, surpassed>>

HandlerOfJob_Swallows(c) ==
    IF c \in Workers /\ pc[c] \in {"readRuns", "ask", "writeRuns", "markDone"}
    THEN "markDone" ELSE "return"

\* Where an exception takes a request of this module.
HandlerOfJob(c) ==
    IF c \in Workers /\ pc[c] \in {"readRuns", "ask", "writeRuns", "markDone"}
    THEN "putOff" ELSE "return"

\* The workers among C that end here leave their job processing.
GoAdrift(C) ==
    adrift' = adrift \cup
        {req[w].group : w \in {v \in C \cap Workers :
            pc[v] \in {"readRuns", "ask", "writeRuns", "markDone", "putOff"}}}

JobStep(c) ==
    \/ RunStrategies(c) \/ CreateJob(c) \/ ShowJob(c) \/ ReadRuns(c) \/ Ask(c)
    \/ WriteRuns(c) \/ MarkDone(c) \/ ReadGroup(c) \/ WriteBack(c)

WorkStep(w) == PickJob(w) \/ LockJob(w) \/ PutOff(w)

=============================================================================
