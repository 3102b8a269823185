------------------------------- MODULE Backtests -------------------------------
(***************************************************************************)
(* The backtest pages of the API and the two loops of the worker process   *)
(* behind them: replays, strategy runs and their interpretations, the      *)
(* evaluation of past analyses, and saved strategies, with statements that *)
(* fail and processes that die.                                            *)
(***************************************************************************)
EXTENDS ReplayBacktest, StrategyInterpretation, BacktestEvaluation,
        SavedStrategies

CONSTANT Pages  \* bound: the pages that requests are made to
VARIABLE page   \* bound: the one page of a behaviour; they share no table

ASSUME PageConstants ==
    Pages \subseteq {"replays", "jobs", "evaluations", "strategies"}

Requests == ReplayCall \cup JobCall \cup EvalCall \cup StrategyCall

\* Null is not a request.
ASSUME RequestConstants == None \notin Requests

vars == <<apiVars, replayVars, jobVars, evalVars, strategyVars, page>>

Init ==
    /\ ApiInit /\ up = TRUE
    /\ ReplayInit /\ JobInit /\ EvalInit /\ StrategyInit
    /\ page \in Pages
    /\ page # "strategies" => strategy = [i \in Slots |-> None]

OnPage(p) == page = p /\ UNCHANGED page

ReplayPage ==
    /\ OnPage("replays")
    /\ \E c \in Clients :
          \/ ReplayRequest(c) \/ ShowRequest(c)
          \/ ReplayStep(c) \/ RefineStep(c) \/ StoreUnanswered(c)
    /\ UNCHANGED <<jobVars, evalVars, strategyVars>>

JobPage ==
    /\ OnPage("jobs")
    /\ \/ \E c \in Clients :
             \/ StrategyRequest(c) \/ ShowJobRequest(c) \/ WriteBackRequest(c)
             \/ JobStep(c) \/ WorkStep(c)
       \/ \E g \in Groups : ComesDue(g)
    /\ UNCHANGED <<replayVars, evalVars, strategyVars>>

EvaluationPage ==
    /\ OnPage("evaluations")
    /\ \E c \in Clients : RunRequest(c) \/ RecomputeRequest(c) \/ EvalStep(c)
    /\ UNCHANGED <<replayVars, jobVars, strategyVars>>

StrategyPage ==
    /\ OnPage("strategies")
    /\ \E c \in Clients : \/ NewStrategy(c) \/ EditStrategy(c)
                          \/ RemoveStrategy(c) \/ StrategyStep(c)
    /\ UNCHANGED <<replayVars, jobVars, evalVars>>

(***************************************************************************)
(* A statement or a call of the Agent throws.                              *)
(***************************************************************************)
Handler(c) == IF page = "replays" THEN HandlerOfReplay(c)
              ELSE IF page = "jobs" THEN HandlerOfJob(c) ELSE "return"

\* What requests C leave undone.
Leave(C) == Forsake(C) /\ GoAdrift(C) /\ LagBehind(C)

Fails(c) ==
    /\ IF Handler(c) = "return" THEN CallFails(c) /\ Leave({c})
       ELSE Throws(c, Handler(c), req[c])
            /\ UNCHANGED <<forsaken, adrift, lagging>>
    /\ UNCHANGED <<replay, outrun, job, surpassed, result, summary,
                   strategyVars, page>>

\* The API process dies, or the process of one worker.
Dies ==
    /\ \E C \in {Visitors} \cup {{w} : w \in Workers} : Lose(C) /\ Leave(C)
    /\ UNCHANGED <<replay, outrun, job, surpassed, result, summary,
                   strategyVars, page>>

Next ==
    \/ ReplayPage \/ JobPage \/ EvaluationPage \/ StrategyPage
    \/ \E c \in Clients : Fails(c)
    \/ Dies

\* A loop of a live worker takes its next step, and time passes.
Fairness ==
    /\ \A w \in Workers : WF_vars(/\ ReplayStep(w) \/ RefineStep(w)
                                  /\ UNCHANGED <<jobVars, evalVars,
                                                 strategyVars, page>>)
    /\ \A w \in Workers : WF_vars(/\ JobStep(w) \/ WorkStep(w)
                                  /\ UNCHANGED <<replayVars, evalVars,
                                                 strategyVars, page>>)
    /\ \A g \in Groups : WF_vars(/\ ComesDue(g)
                                 /\ UNCHANGED <<replayVars, evalVars,
                                                strategyVars, page>>)

Spec == Init /\ [][Next]_vars /\ Fairness

(***************************************************************************)
(* Properties.                                                             *)
(***************************************************************************)
\* Types of the tables and of the requests in progress.
TypeOK ==
    /\ \A c \in Clients : pc[c] = "idle" <=> req[c] = None
    /\ \A c \in Clients : req[c] \in Requests \cup {None}
    /\ requests \in 0 .. MaxRequests
    /\ faults \in 0 .. MaxFaults
    /\ ReplayTypeOK /\ JobTypeOK /\ EvalTypeOK /\ StrategyTypeOK

\* What getAgentRunDetail shows of a group is one version: the figures of the
\* summary, which an interpretation writes back as it read them, are those of
\* the version whose steps, trades and equity are shown, and that has rows.
DetailIsOneVersion ==
    \A h \in Stored : Shown(h).rows = {Shown(h).figures}

\* A group in phase refine and a job in processing have one worker at them,
\* unless it died or failed to write the outcome, or the Agent is to answer.
WorkHeldOnce ==
    /\ \A h \in Stored : replay[h].phase = "refine" =>
          \/ h \in forsaken
          \/ Cardinality({w \in Workers :
                /\ pc[w] \in {"loadGroup", "runRefine", "storeRefined",
                              "failGroup"}
                /\ req[w].hash = h}) = 1
    /\ \A g \in Created : job[g].status = "processing" =>
          \/ g \in adrift \/ job[g].managed
          \/ Cardinality({w \in Workers :
                /\ pc[w] \in {"readRuns", "ask", "writeRuns", "markDone",
                              "putOff"}
                /\ req[w].group = g}) = 1

\* An interpretation that is there is not asked for again: it is replaced only
\* by a request that had looked before it was there, or by the Agent's own.
ReadingsStay ==
    [][ /\ \A h \in Stored :
              replay[h].reading # None /\ replay'[h].reading # replay[h].reading
              => \E c \in outrun : pc[c] = "writeSummary" /\ req[c].hash = h
        /\ \A g \in Created :
              job[g].answer # None /\ job'[g].answer # job[g].answer
              => \E c \in Clients : /\ req[c] # None /\ req[c].group = g
                                    /\ \/ pc[c] = "writeBack"
                                       \/ /\ pc[c] = "writeRuns"
                                          /\ c \in surpassed
      ]_vars

\* A job is completed only with its interpretation, by whichever of the three
\* writers.
CompletedIsInterpreted ==
    \A g \in Created : job[g].status = "completed" => job[g].answer # None

\* A job is started at most MaxAttempts times, although the count that decides
\* between another attempt and the end was read before the lock.
AttemptsBounded == \A g \in Created : job[g].attempts <= MaxAttempts

\* Every summary tells what the results of its owner say, once the request that
\* changed them is done: unless it failed on the way, or two of them crossed.
SummariesCurrent ==
    \A o \in Owners, s \in Scopes :
        \/ summary[o][s] = Counted(o, s)
        \/ summary[o][s] = None /\ Counted(o, s) = NoItems
        \/ o \in lagging
        \/ \E c \in Clients : o \in Unsummarised(c)

\* What an update with fields e leaves of a row that it did not name.
EditKept(e, old, new) ==
    /\ \A x \in {"name", "description", "template"} :
          e[x] = None => new[x] = old[x]
    /\ e.params = None =>
          IF new.template \in {old.template, Dsl} THEN new.params = old.params
          ELSE \A f \in Fields :
                  new.params[f] = IF f \notin FieldsOf[new.template] THEN None
                                  ELSE IF old.params[f] = None
                                  THEN DefaultOf[f] ELSE Whole(old.params[f])

\* A saved strategy always fits its template, so that no run refuses it,
\* although a template and the parameters for it may come from two updates that
\* both read the row before either wrote.  An update takes back a field it did
\* not name only when another one came between its read and its write; with the
\* template the parameters stay, too, and a new template takes over the numbers
\* that it has, gives the others their default, and drops the rest.
EditsKept ==
    /\ [](\A i \in Slots : strategy[i] # None => Fits(strategy[i]))
    /\ [][\A c \in Clients :
            LET old == strategy[req[c].slot]
                new == strategy'[req[c].slot]
            IN  /\ pc[c] = "update" /\ pc'[c] = "idle" /\ c \notin overwrote
                /\ old # None /\ new # None
                => EditKept(req[c].edit, old, new)]_vars

\* The queues drain: a group does not stay in refinement, nor a job pending or
\* in the hands of a worker that could finish it.
Refining(h)   == Born(h) /\ replay[h].status = "refining"
Unfinished(g) == Exists(g) /\ ~job[g].managed
                           /\ job[g].status \in {"pending", "processing"}

QueuesDrain ==
    /\ \A h \in Hashes : Refining(h) ~> (~Refining(h) \/ h \in forsaken)
    /\ \A g \in Groups : Unfinished(g) ~> (~Unfinished(g) \/ g \in adrift)

=============================================================================
