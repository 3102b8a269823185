------------------------------ MODULE UserServices ------------------------------
(***************************************************************************)
(* What stands between a user, the database and the Agent: the simulation  *)
(* account, the AI settings, an analysis carried out by the Agent, the     *)
(* order placed after it, the history it leaves and the stream that tells  *)
(* of its task, with statements and calls that fail and a process that     *)
(* dies; and the two calculations that users decide by, the trading        *)
(* session guard and the portfolio's health.                               *)
(***************************************************************************)
EXTENDS SimulationAccounts, UserSettings, AgentBridge, AutoOrder,
        AgentHistory, TaskStream, TradingSession, PortfolioHealth

CONSTANT Parts  \* bound: the parts of the system that are followed
VARIABLE part   \* bound: the one part of a behaviour; they share no state

AllParts == {"accounts", "settings", "bridge", "orders", "history",
             "stream", "sessions", "health"}

ASSUME PartConstants == Parts \subseteq AllParts

\* Null is not a request.
ASSUME RequestConstants ==
    None \notin AccountCall \cup SettingsCall \cup BridgeCall \cup AutoCall
                \cup HistoryCall \cup StreamCall

vars == <<apiVars, accountVars, settingsVars, bridgeVars, autoVars,
          historyVars, streamVars, sessionVars, portfolio, part>>

\* A part that is not followed begins in one state.
Still(p, state) == part # p => state

Init ==
    /\ ApiInit /\ up = TRUE
    /\ part \in Parts
    /\ AccountInit
    /\ Still("accounts", account = [r \in Rows |-> NoRow])
    /\ SettingsInit
    /\ Still("settings", /\ profile.provider = CHOOSE p \in Providers : TRUE
                         /\ profile.token = None /\ systemLlm = {})
    /\ BridgeInit
    /\ AutoInit
    /\ Still("orders", holding = [cash |-> 0, held |-> 0])
    /\ HistoryInit
    /\ Still("history", news = [u \in Urls |-> None])
    /\ StreamInit
    /\ Still("stream", task = [t \in Tasks |-> None])
    /\ IF part = "sessions" THEN SessionInit ELSE sessions = <<>> /\ clock = 0
    /\ IF part = "health" THEN HealthInit ELSE portfolio = NoPortfolio

InPart(p) == part = p /\ UNCHANGED part

AccountPart ==
    /\ InPart("accounts")
    /\ \/ \E c \in Clients :
             \/ BindRequest(c) \/ LookRequest(c) \/ DepositRequest(c)
             \/ AccountStep(c)
       \/ \E r \in Rows : Expires(r)
    /\ UNCHANGED <<settingsVars, bridgeVars, autoVars, historyVars,
                   streamVars, sessionVars, portfolio>>

SettingsPart ==
    /\ InPart("settings")
    /\ \E c \in Clients : SettingsRequest(c) \/ SettingsStep(c)
    /\ UNCHANGED <<accountVars, bridgeVars, autoVars, historyVars,
                   streamVars, sessionVars, portfolio>>

BridgePart ==
    /\ InPart("bridge")
    /\ \/ \E c \in Clients : BridgeRequest(c) \/ BridgeStep(c)
       \/ AgentWorks \/ PollTimePasses
    /\ UNCHANGED <<accountVars, settingsVars, autoVars, historyVars,
                   streamVars, sessionVars, portfolio>>

OrderPart ==
    /\ InPart("orders")
    /\ \/ \E c \in Clients : AutoRequest(c) \/ AutoStep(c)
       \/ AccountMoves
    /\ UNCHANGED <<accountVars, settingsVars, bridgeVars, historyVars,
                   streamVars, sessionVars, portfolio>>

HistoryPart ==
    /\ InPart("history")
    /\ \E c \in Clients : SaveRequest(c) \/ SyncRequest(c) \/ HistoryStep(c)
    /\ UNCHANGED <<accountVars, settingsVars, bridgeVars, autoVars,
                   streamVars, sessionVars, portfolio>>

StreamPart ==
    /\ InPart("stream")
    /\ \/ \E c \in Clients : PollBegins(c) \/ StreamStep(c)
       \/ \E t \in Tasks : TaskMoves(t)
    /\ UNCHANGED <<accountVars, settingsVars, bridgeVars, autoVars,
                   historyVars, sessionVars, portfolio>>

Calculations ==
    /\ \/ InPart("sessions") /\ Tick /\ UNCHANGED portfolio
       \/ InPart("health") /\ Worsen /\ UNCHANGED sessionVars
    /\ UNCHANGED <<apiVars, accountVars, settingsVars, bridgeVars, autoVars,
                   historyVars, streamVars>>

(***************************************************************************)
(* A statement or a call throws and ends its request, or the process dies. *)
(* (The bridge handles the failures of its calls itself.)                  *)
(***************************************************************************)
Leave(C) == /\ Uncross(C) /\ Uncrossed(C) /\ Undrained(C) /\ Unraced(C)
            /\ Closes(C)

Fails(c) == part # "bridge" /\ CallFails(c) /\ Leave({c})
            /\ UNCHANGED <<bridgeVars, sessionVars, portfolio, part>>

Dies == Lose(Clients) /\ Leave(Clients)
        /\ UNCHANGED <<bridgeVars, sessionVars, portfolio, part>>

Next ==
    \/ AccountPart \/ SettingsPart \/ BridgePart \/ OrderPart
    \/ HistoryPart \/ StreamPart \/ Calculations
    \/ \E c \in Clients : Fails(c)
    \/ Dies

Spec == Init /\ [][Next]_vars

(***************************************************************************)
(* Properties.                                                             *)
(***************************************************************************)
Requests == CASE part = "accounts" -> AccountCall
              [] part = "settings" -> SettingsCall
              [] part = "bridge"   -> BridgeCall
              [] part = "orders"   -> AutoCall
              [] part = "history"  -> HistoryCall
              [] part = "stream"   -> StreamCall
              [] OTHER             -> {}

\* Types of the tables and of the requests in progress.
TypeOK ==
    /\ \A c \in Clients : pc[c] = "idle" <=> req[c] = None
    /\ \A c \in Clients : req[c] \in Requests \cup {None}
    /\ requests \in 0 .. MaxRequests
    /\ faults \in 0 .. MaxFaults
    /\ AccountTypeOK /\ SettingsTypeOK /\ BridgeTypeOK /\ AutoTypeOK
    /\ HistoryTypeOK /\ StreamTypeOK /\ SessionTypeOK /\ HealthTypeOK

\* After a bind, trading goes to the account that was bound last, whatever rows
\* former versions left; and only after the Agent has verified that account,
\* unless the answer about another one marked the row.
AccessIsOfLastBind ==
    /\ bound # None =>
          \A r \in Rows : Resolved(r) => bound = <<r, account[r].uid>>
    /\ \A r \in Rows : account[r].verified =>
          <<r, account[r].uid>> \in provisioned \/ r \in mixed

\* A user who was told of a deposit does not see, in a snapshot of the account
\* it was made into, the funds from before it: unless one that was fetched
\* earlier has been stored later.
DepositShown ==
    \A r \in Live :
        LET s == snapshot[r]
        IN  \/ s = None
            \/ s.funds >= shown[<<r, s.uid>>]
            \/ r \in late

\* A token goes only to the provider it was entered for, in an analysis as in
\* a refinement, unless the provider and the token are of two requests that
\* crossed, or the page sent the plain token it had been given with another
\* provider.
TokenOfItsProvider ==
    \/ blended
    \/ \A llm \in {EffectiveLlm(profile), RefineLlm("personal"),
                   RefineLlm("system")} :
          /\ llm.token \in {None, llm.provider}
          /\ llm.source = "personal" => llm.provider \in Supported

\* The bridge gives a run only of a task that was completed, calls failed only
\* a task that failed, and gives up on the network only after so many failures
\* in a row that it was to try again after, or on time when time is over.
VerdictsTrue ==
    /\ verdict \in {"run", "agent_run_fetch_failed"} =>
          agentTask.status = "completed" /\ agentTask.run
    /\ verdict = "agent_task_failed" => agentTask.status = "failed"
    /\ verdict = "agent_poll_network_error" => misses > MaxRetries
    /\ verdict = "agent_poll_timeout" => overdue

\* The order that a worker places by itself is the largest that is asked for
\* and within both limits; and the account can carry it when it arrives,
\* unless the account moved after the worker had looked at it.
OrderWithinMeans ==
    [][\A c \in Clients :
          pc[c] = "place" /\ pc'[c] = "idle" /\ faults' = faults =>
             LET s == req[c].signal
                 n == req[c].quantity
                 Within(k) == /\ k <= s.wanted /\ k <= MaxQty
                              /\ k * s.price <= MaxNotional
             IN  /\ n > 0 /\ Within(n) /\ ~Within(n + 1)
                 /\ Affords(holding, s, n) \/ c \in drained]_vars

\* Of each stock of a chat message its owner has one row of history, from the
\* time its news are stored, however often the Agent saves it: unless two
\* requests that save it crossed.
HistoryOfOneMessage ==
    /\ \A o \in Owners, m \in Messages, s \in Stocks :
          history[o][m][s] > 1 => <<o, m, s>> \in doubled
    /\ \A c \in Clients :
          pc[c] \in {"findNews", "fillNews", "createNews"}
          /\ req[c].message # None
          => history[req[c].owner][req[c].message][Head(req[c].stocks)] > 0

\* News stay with the user and the query that found them first, although
\* everybody who finds them writes the row: unless two requests raced for it.
NewsStay ==
    [][\A u \in Urls :
          news[u] # None =>
             \A x \in {"owner", "query"} :
                news[u][x] # None /\ news'[u][x] # news[u][x]
                => \E c \in raced : pc[c] = "fillNews" /\ req[c].url = u
      ]_vars

\* Both together: what is saved again changes nothing that was there.
SavedOnce == []HistoryOfOneMessage /\ NewsStay

\* A page that follows the stream is told of each task in the order of its
\* life, nothing twice, and what the stream has noted of it last: unless the
\* task changed between the two reads of a poll, or was noted by a poll that
\* the next one had overtaken.
Follows(e, f) ==
    \/ e = "created" /\ f \in {"started", "failed", "completed"}
    \/ e = "started" /\ f \in {"failed", "completed"}
    \/ e = "failed" /\ f = "completed"

StreamTellsLives ==
    \A t \in Tasks \ (shifted \cup lost) :
        /\ told[t] = <<>> <=> known[t] = None
        /\ told[t] # <<>> =>
              /\ Head(told[t]) = "created"
              /\ \A i \in 2 .. Len(told[t]) :
                    Follows(told[t][i - 1], told[t][i])
              /\ CASE known[t] = "pending"    -> Last(told[t]) = "created"
                   [] known[t] = "processing" ->
                        Last(told[t]) \in {"created", "started"}
                   [] OTHER                   -> Last(told[t]) = known[t]

\* While orders are not allowed, the opening that is announced is the next time
\* they are: across the lunch break, the night, the week's end and the change of
\* date between the exchange and UTC.  Announced in the hour after midnight of a
\* weekday it is an opening too, but a later one: the guard takes that hour for
\* the end of the day.
NextOpenIsFirst ==
    InOrder /\ AfterMidnightHour /\ ~Allowed(clock) =>
        IF InMidnightHour(clock) /\ ~IsWeekend(clock)
        THEN /\ Wait(clock) > NextAllowed(clock)
             /\ Allowed((clock + Wait(clock)) % WeekLength)
        ELSE Wait(clock) = NextAllowed(clock)

\* A portfolio that gets worse in one metric never gains points, and the advice
\* to rebalance it is not withdrawn.
ScoreNeverGains ==
    [][/\ Score(portfolio') <= Score(portfolio)
       /\ RebalancingNeeded(portfolio) => RebalancingNeeded(portfolio')]_vars

=============================================================================
