----------------------------- MODULE ReplayBacktest -----------------------------
(***************************************************************************)
(* Agent backtests: a replay of a stock over a range, kept once per        *)
(* request hash.  A request runs the Agent's fast phase and stores version *)
(* 1 of the result; a worker takes the groups that wait for refinement and *)
(* stores version 2; whoever shows a completed group without an            *)
(* interpretation asks the Agent for one and writes it into the group's    *)
(* summary, which it read before it asked.                                 *)
(*                                                                         *)
(* A definition with an underscore in its name is the next one with a      *)
(* mistake in it.                                                          *)
(***************************************************************************)
EXTENDS ApiRequests

CONSTANTS
    Hashes      \* request hashes: owner, stock, range, costs, strategy

ASSUME ReplayConstants == None \notin Hashes

VARIABLES
    replay,     \* replay[h]: the run group with request hash h
    forsaken,   \* history: groups whose worker failed before it could say so
    outrun      \* history: requests that found no interpretation of a group
                \* that another has written since

replayVars == <<replay, forsaken, outrun>>

Readings == {"ready", "failed", "unavailable"}

\* versions: the result versions that have rows; summary: the version that the
\* figures in summary_json are of; reading: the interpretation beside them.
Group == [status : {"refining", "completed", "failed"},
          phase : {"fast", "refine", "done"}, active : 1 .. 2,
          versions : SUBSET (1 .. 2), summary : 1 .. 2,
          reading : Readings \cup {None}, born : Nat]

\* Null is neither a group nor an interpretation.
ASSUME NullIsNoGroup == None \notin Group /\ None \notin Readings

\* refine: whether the request allows refinement, and then whether there is
\* anything to refine; then: where an interpretation returns to.
ReplayCall == [op : {"replay", "showReplay", "refine"}, hash : Hashes,
               refine : BOOLEAN, seen : Group \cup {None},
               reading : Readings \cup {None},
               then : {"showReplay", "return"}]

Born(h) == replay[h] # None
Stored  == {h \in Hashes : Born(h)}

ReplayTypeOK ==
    /\ replay \in [Hashes -> Group \cup {None}]
    /\ forsaken \subseteq Hashes
    /\ outrun \subseteq Clients

ReplayInit ==
    /\ replay = [h \in Hashes |-> None]
    /\ forsaken = {}
    /\ outrun = {}

Call(op, h) == [op |-> op, hash |-> h, refine |-> FALSE, seen |-> None,
                reading |-> None, then |-> "return"]

Leaves(c, label, r) ==
    IF label = "return" THEN Finish(c) ELSE Goto(c, label, r)

(***************************************************************************)
(* runAgentRange.                                                          *)
(***************************************************************************)
ReplayRequest(c) ==
    /\ \E h \in Hashes, b \in BOOLEAN :
          Arrive(c, "findGroup", [Call("replay", h) EXCEPT !.refine = b])
    /\ UNCHANGED replayVars

\* findRunGroupByRequestHash: a group with this hash is the answer, whatever
\* became of it.
FindGroup(c) ==
    /\ pc[c] = "findGroup"
    /\ Goto(c, IF Born(req[c].hash) THEN "showReplay" ELSE "runFast", req[c])
    /\ UNCHANGED replayVars

\* The Agent's fast phase, with dates whose signals are to be refined or none;
\* a result with no daily steps is an error.
RunFast(c) ==
    /\ pc[c] = "runFast"
    /\ \/ \E anchors \in BOOLEAN :
             Goto(c, "insertGroup", [req[c] EXCEPT !.refine = @ /\ anchors])
       \/ Finish(c)
    /\ UNCHANGED replayVars

NewGroup_Zero(refine) ==
    [status |-> IF refine THEN "refining" ELSE "completed",
     phase |-> IF refine THEN "fast" ELSE "done", active |-> 0,
     versions |-> {0}, summary |-> 0, reading |-> None,
     born |-> Cardinality(Stored)]

NewGroup(refine) ==
    [status |-> IF refine THEN "refining" ELSE "completed",
     phase |-> IF refine THEN "fast" ELSE "done", active |-> 1,
     versions |-> {1}, summary |-> 1, reading |-> None,
     born |-> Cardinality(Stored)]

\* One transaction: insert the group with its rows, or on a conflict of the
\* hash adopt the group that is there and write nothing.
InsertGroup(c) ==
    LET r == req[c]
    IN  /\ pc[c] = "insertGroup"
        /\ replay' = IF Born(r.hash) THEN replay
                     ELSE [replay EXCEPT ![r.hash] = NewGroup(r.refine)]
        /\ Goto(c, IF r.refine THEN "showReplay" ELSE "readSummary",
                [r EXCEPT !.then = IF r.refine THEN @ ELSE "showReplay"])
        /\ UNCHANGED <<forsaken, outrun>>

(***************************************************************************)
(* getAgentRunDetail.  The rows of the active version it reads afterwards  *)
(* never change.                                                           *)
(***************************************************************************)
ShowRequest(c) ==
    /\ \E h \in Stored : Arrive(c, "showReplay", Call("showReplay", h))
    /\ UNCHANGED replayVars

Finished(g) == g.status = "completed" /\ g.phase = "done"

ShowReplay(c) ==
    LET g == replay[req[c].hash]
    IN  /\ pc[c] = "showReplay"
        /\ IF Finished(g) /\ g.reading = None
           THEN Goto(c, "readSummary", [req[c] EXCEPT !.then = "return"])
           ELSE Finish(c)
        /\ UNCHANGED replayVars

\* What the detail shows: the figures of a version, and steps, trades and
\* equity of the active one, if it has any.
Shown(h) == [figures |-> replay[h].summary,
             rows |-> replay[h].versions \cap {replay[h].active}]

(***************************************************************************)
(* ensureAgentRunGroupInterpretation: read the group, ask, and write the   *)
(* summary that was read together with the answer.                         *)
(***************************************************************************)
Interpretable_Anyhow(g) == g.reading = None
Interpretable(g) == Finished(g) /\ g.reading = None

ReadSummary(c) ==
    LET g == replay[req[c].hash]
    IN  /\ pc[c] = "readSummary"
        /\ IF Interpretable(g)
           THEN Goto(c, "interpret", [req[c] EXCEPT !.seen = g])
           ELSE Leaves(c, req[c].then, req[c])
        /\ outrun' = outrun \ {c}
        /\ UNCHANGED <<replay, forsaken>>

\* No model is configured, the Agent answers, or its call fails: each of them
\* is an interpretation.
Interpret(c) ==
    /\ pc[c] = "interpret"
    /\ \E a \in Readings : Goto(c, "writeSummary", [req[c] EXCEPT !.reading = a])
    /\ UNCHANGED replayVars

WriteSummary(c) ==
    LET r == req[c]
    IN  /\ pc[c] = "writeSummary"
        /\ replay' = [replay EXCEPT ![r.hash].summary = r.seen.summary,
                                    ![r.hash].reading = r.reading]
        /\ outrun' = outrun \cup
              {d \in Clients : /\ pc[d] \in {"interpret", "writeSummary"}
                               /\ d # c /\ req[d].hash = r.hash}
        /\ Leaves(c, r.then, r)
        /\ UNCHANGED forsaken

(***************************************************************************)
(* processNextRefineJob: pick the oldest group, lock it, read it, run the  *)
(* Agent and store version 2, all but the first three in a try block whose *)
(* handler marks the group failed.                                         *)
(***************************************************************************)
Waits(h) == Born(h) /\ replay[h].status = "refining"
                    /\ replay[h].phase = "fast"

PickGroup(w) ==
    /\ w \in Workers /\ pc[w] = "idle"
    /\ \E h \in Hashes :
          /\ Waits(h)
          /\ \A o \in Hashes : Waits(o) => replay[h].born <= replay[o].born
          /\ Goto(w, "lockGroup", Call("refine", h))
    /\ UNCHANGED replayVars

Lockable_ById(h) == Born(h)
Lockable(h) == Waits(h)

LockGroup(w) ==
    LET h == req[w].hash
    IN  /\ pc[w] = "lockGroup"
        /\ IF Lockable(h)
           THEN /\ replay' = [replay EXCEPT ![h].phase = "refine"]
                /\ Goto(w, "loadGroup", req[w])
           ELSE UNCHANGED replay /\ Finish(w)
        /\ UNCHANGED <<forsaken, outrun>>

LoadGroup(w) ==
    /\ pc[w] = "loadGroup"
    /\ Goto(w, "runRefine", req[w])
    /\ UNCHANGED replayVars

\* The Agent's refine phase, or an error: of the Agent, or that the personal
\* model the group was started with is gone.
RunRefine(w) ==
    /\ pc[w] = "runRefine"
    /\ \E next \in {"storeRefined", "failGroup"} : Goto(w, next, req[w])
    /\ UNCHANGED replayVars

\* The rows of a version, instead of those it had.
PersistResultVersion(g, v) == [g EXCEPT !.versions = @ \cup {v}]

Refined(g) == [PersistResultVersion(g, 2) EXCEPT
                  !.status = "completed", !.phase = "done",
                  !.active = 2, !.summary = 2, !.reading = None]

StoreRefined(w) ==
    LET h == req[w].hash
    IN  /\ pc[w] = "storeRefined"
        /\ replay' = [replay EXCEPT ![h] = Refined(@)]
        /\ Goto(w, "readSummary", req[w])
        /\ UNCHANGED <<forsaken, outrun>>

\* The transaction commits, and its answer is lost.
StoreUnanswered(w) ==
    LET h == req[w].hash
    IN  /\ pc[w] = "storeRefined"
        /\ replay' = [replay EXCEPT ![h] = Refined(@)]
        /\ Throws(w, "failGroup", req[w])
        /\ UNCHANGED <<forsaken, outrun>>

FailGroup(w) ==
    LET h == req[w].hash
    IN  /\ pc[w] = "failGroup"
        /\ replay' = [replay EXCEPT ![h].status = "failed", ![h].phase = "done"]
        /\ Finish(w)
        /\ UNCHANGED <<forsaken, outrun>>

\* Where an exception at a label of this module takes the request.
HandlerOfReplay(c) ==
    CASE pc[c] \in {"runRefine", "storeRefined"} -> "failGroup"
      [] pc[c] \in {"readSummary", "interpret", "writeSummary"} -> req[c].then
      [] OTHER -> "return"

\* The workers among C that end here leave their group in phase refine.
Forsake(C) ==
    forsaken' = forsaken \cup
        {req[w].hash : w \in {v \in C \cap Workers :
            pc[v] \in {"loadGroup", "runRefine", "storeRefined", "failGroup"}}}

ReplayStep(c) ==
    \/ FindGroup(c) \/ RunFast(c) \/ InsertGroup(c) \/ ShowReplay(c)
    \/ ReadSummary(c) \/ Interpret(c) \/ WriteSummary(c)

RefineStep(w) ==
    \/ PickGroup(w) \/ LockGroup(w) \/ LoadGroup(w) \/ RunRefine(w)
    \/ StoreRefined(w) \/ FailGroup(w)

=============================================================================
