------------------------------ MODULE AgentHistory ------------------------------
(***************************************************************************)
(* What analyses leave behind: the Agent saves the analyses of a chat      *)
(* message, and may save them again; an analysis asked for synchronously   *)
(* saves its own.  Both then store the news they rest on, of which there   *)
(* is one row per URL whoever found it.  Each statement is a step.         *)
(***************************************************************************)
EXTENDS ApiRequests, Sequences

CONSTANTS
    Owners,         \* bound: users
    Messages,       \* bound: assistant messages of chat sessions
    Stocks, Urls    \* bound

VARIABLES
    history,    \* history[o][m][s]: agent_chat rows of analysis_history with
                \* the query id of that message and stock
    news,       \* news[u]: owner and query of the row of news_intel, if any
    doubled,    \* history: <<o, m, s>> saved by requests that crossed
    raced       \* history: requests whose URL was written after they read it

historyVars == <<history, news, doubled, raced>>

\* The query of a row: nothing, or who asked (see Query).
NewsRow == [owner : Owners \cup {None}, query : (Messages \X Stocks)
                                            \cup {None, <<"analysis">>}]

\* Null is no row.
ASSUME NullIsNoNews == None \notin NewsRow

\* News of users that were deleted, and of former versions, may be there.
HistoryInit ==
    /\ history = [o \in Owners |-> [m \in Messages |-> [s \in Stocks |-> 0]]]
    /\ news \in [Urls -> {None, [owner |-> None, query |-> None]}]
    /\ doubled = {} /\ raced = {}

\* The first stock of `stocks` is the one at hand, `found` what was read of its
\* history row or of its news.
HistoryCall ==
    [kind : {"history"}, owner : Owners, message : Messages \cup {None},
     stocks : Seq(Stocks), url : Urls, found : NewsRow \cup {None}]

NoteCall(o, m, ss, u) ==
    [kind |-> "history", owner |-> o, message |-> m, stocks |-> ss,
     url |-> u, found |-> None]

\* saveAnalysisHistoryFromAgent, for one stock or for two.
SaveRequest(c) ==
    /\ \E o \in Owners, m \in Messages, u \in Urls,
          ss \in {<<s>> : s \in Stocks}
                 \cup {<<s, t>> : s, t \in Stocks} :
             Arrive(c, "findRow", NoteCall(o, m, ss, u))
    /\ UNCHANGED historyVars

\* runSync, once the Agent has answered; its query id is one of its own.
SyncRequest(c) ==
    /\ \E o \in Owners, s \in Stocks, u \in Urls :
          Arrive(c, "findNews", NoteCall(o, None, <<s>>, u))
    /\ UNCHANGED historyVars

QueryId_Message(m, s) == <<m, CHOOSE t \in Stocks : TRUE>>
QueryId(m, s) == <<m, s>>

Saved(o, q) == history[o][q[1]][q[2]]

FindRow(c) ==
    /\ pc[c] = "findRow"
    /\ LET q == QueryId(req[c].message, Head(req[c].stocks))
       IN  Goto(c, IF Saved(req[c].owner, q) = 0 THEN "createRow"
                   ELSE "findNews", req[c])
    /\ UNCHANGED historyVars

\* Nothing in the table keeps a second row with the same query id out.
CreateRow(c) ==
    /\ pc[c] = "createRow"
    /\ LET o == req[c].owner
           q == QueryId(req[c].message, Head(req[c].stocks))
       IN  /\ history' = [history EXCEPT ![o][q[1]][q[2]] = @ + 1]
           /\ doubled' = doubled \cup
                {<<o, q[1], q[2]>> : d \in {e \in Clients \ {c} :
                    /\ pc[e] = "createRow" /\ req[e].owner = o
                    /\ QueryId(req[e].message, Head(req[e].stocks)) = q}}
    /\ Goto(c, "findNews", req[c])
    /\ UNCHANGED <<news, raced>>

(***************************************************************************)
(* persistAgentNewsItems, persistAnalysisNewsItems.                        *)
(***************************************************************************)
FindNews(c) ==
    /\ pc[c] = "findNews"
    /\ LET n == news[req[c].url]
       IN  Goto(c, IF n = None THEN "createNews" ELSE "fillNews",
                [req[c] EXCEPT !.found = n])
    /\ raced' = raced \ {c}
    /\ UNCHANGED <<history, news, doubled>>

\* The next stock, or the end of the request.
NextStock(c) ==
    IF Len(req[c].stocks) > 1
    THEN Goto(c, "findRow", [req[c] EXCEPT !.stocks = Tail(@), !.found = None])
    ELSE Finish(c)

Query(r) == IF r.message = None THEN <<"analysis">>
            ELSE QueryId(r.message, Head(r.stocks))

\* Whoever writes the row of a URL is overtaken by the others that hold it.
Races(c) ==
    raced' = (raced \ {c})
             \cup {d \in Clients \ {c} : /\ pc[d] \in {"createNews", "fillNews"}
                                         /\ req[d].url = req[c].url}

\* What the row that was read lacks is filled in.
Filled_Owner(old, r) ==
    [owner |-> r.owner, query |-> IF r.found.query = None THEN Query(r)
                                  ELSE old.query]
Filled(old, r) ==
    [owner |-> IF r.found.owner = None THEN r.owner ELSE old.owner,
     query |-> IF r.found.query = None THEN Query(r) ELSE old.query]

FillNews(c) ==
    /\ pc[c] = "fillNews"
    /\ news' = [news EXCEPT ![req[c].url] = Filled(@, req[c])]
    /\ Races(c)
    /\ NextStock(c)
    /\ UNCHANGED <<history, doubled>>

\* The URL is unique: the second to create its row fails, and with it the rest
\* of its request.
CreateNews(c) ==
    /\ pc[c] = "createNews"
    /\ IF news[req[c].url] = None
       THEN /\ news' = [news EXCEPT ![req[c].url] =
                            [owner |-> req[c].owner, query |-> Query(req[c])]]
            /\ Races(c)
            /\ NextStock(c)
       ELSE /\ Finish(c)
            /\ raced' = raced \ {c}
            /\ UNCHANGED news
    /\ UNCHANGED <<history, doubled>>

HistoryStep(c) ==
    \/ FindRow(c) \/ CreateRow(c)
    \/ FindNews(c) \/ FillNews(c) \/ CreateNews(c)

\* Requests C end without finishing.
Unraced(C) == raced' = raced \ C /\ UNCHANGED <<history, news, doubled>>

HistoryTypeOK ==
    /\ history \in [Owners -> [Messages -> [Stocks -> Nat]]]
    /\ \A u \in Urls : news[u] \in NewsRow \cup {None}
    /\ doubled \subseteq Owners \X Messages \X Stocks
    /\ raced \subseteq Clients

=============================================================================
