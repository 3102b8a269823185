--------------------------- MODULE BacktestEvaluation ---------------------------
(***************************************************************************)
(* The evaluation of past analyses: a result per history row, and per      *)
(* owner a summary of all results and one per stock.  A run evaluates the  *)
(* rows that have no result, or a forced one any rows; the recompute       *)
(* script deletes results and summaries and evaluates everything again,    *)
(* batch by batch.  Results are written one by one, and the summaries of   *)
(* what was touched only after the last of them.                           *)
(*                                                                         *)
(* A definition with an underscore in its name is the next one with a      *)
(* mistake in it.                                                          *)
(***************************************************************************)
EXTENDS ApiRequests

CONSTANTS
    Owners,
    Codes,          \* stocks
    HistoryRows,    \* ids of the analyses that are old enough, with
    OwnerOf, CodeOf,    \* their owner and stock
    Limit           \* rows a run takes, and the batch of a recomputation

ASSUME EvaluationConstants ==
    /\ HistoryRows \subseteq Nat \ {0} /\ IsFiniteSet(HistoryRows)
    /\ OwnerOf \in [HistoryRows -> Owners]
    /\ CodeOf \in [HistoryRows -> Codes]
    /\ Limit \in Nat \ {0}
    /\ None \notin Codes

VARIABLES
    result,     \* result[i]: eval_status of the result of history row i
    summary,    \* summary[o][s]: what the summary of owner o was computed
                \* from, for stock s or, with None, for all of them
    lagging     \* history: owners whose summaries a failure or a stale write
                \* left behind their results

evalVars == <<result, summary, lagging>>

Evals  == {"completed", "insufficient_data"}    \* or error, which counts alike
Scopes == Codes \cup {None}

\* The rows of a summary and what they said.
Counts == UNION {[S -> Evals] : S \in SUBSET HistoryRows}

EvalCall == [op : {"run", "recompute"}, owners : SUBSET Owners,
             code : Scopes, force : BOOLEAN, cursor : Nat,
             batch : SUBSET HistoryRows, items : SUBSET HistoryRows, saved : Nat,
             touched : SUBSET (Owners \X Scopes), rows : Counts \cup {None}]

EvalTypeOK ==
    /\ result \in [HistoryRows -> Evals \cup {None}]
    /\ summary \in [Owners -> [Scopes -> Counts \cup {None}]]
    /\ lagging \subseteq Owners

EvalInit ==
    /\ result = [i \in HistoryRows |-> None]
    /\ summary = [o \in Owners |-> [s \in Scopes |-> None]]
    /\ lagging = {}

NoItems == [i \in {} |-> "completed"]

EvalRequest(op, owners, code, force) ==
    [op |-> op, owners |-> owners, code |-> code, force |-> force,
     cursor |-> 0, batch |-> {}, items |-> {}, saved |-> 0, touched |-> {}, rows |-> None]

Within(os) == {i \in HistoryRows : OwnerOf[i] \in os}

\* What a summary of o and s is computed from now.
Counted(o, s) ==
    [i \in {j \in Within({o}) : result[j] # None /\ s \in {None, CodeOf[j]}}
        |-> result[i]]

(***************************************************************************)
(* run, by a user for its own rows or by an administrator for all, of one  *)
(* stock or of every stock.                                                *)
(***************************************************************************)
RunRequest(c) ==
    /\ \E os \in {{o} : o \in Owners} \cup {Owners},
          s \in Scopes, force \in BOOLEAN :
          Arrive(c, "readBatch", EvalRequest("run", os, s, force))
    /\ UNCHANGED evalVars

(***************************************************************************)
(* recomputeAll, by the script for all owners: delete, then batches.       *)
(***************************************************************************)
RecomputeRequest(c) ==
    /\ Arrive(c, "deleteResults", EvalRequest("recompute", Owners, None, TRUE))
    /\ UNCHANGED evalVars

DeleteResults(c) ==
    /\ pc[c] = "deleteResults"
    /\ result' = [i \in HistoryRows |->
                     IF OwnerOf[i] \in req[c].owners THEN None ELSE result[i]]
    /\ Goto(c, "deleteSummaries", req[c])
    /\ UNCHANGED <<summary, lagging>>

\* Results that another request wrote in between lose their summary.
DeleteSummaries(c) ==
    LET os == req[c].owners
    IN  /\ pc[c] = "deleteSummaries"
        /\ summary' = [o \in Owners |-> IF o \in os THEN [s \in Scopes |-> None]
                                        ELSE summary[o]]
        /\ lagging' = lagging \cup {o \in os : Counted(o, None) # NoItems}
        /\ Goto(c, "readBatch", req[c])
        /\ UNCHANGED result

\* The newest rows of a run, the next rows of a recomputation.
Candidates(r) ==
    {i \in Within(r.owners) :
        /\ r.code \in {None, CodeOf[i]}
        /\ IF r.op = "run" THEN r.force \/ result[i] = None ELSE i > r.cursor}
FirstFew(S, r) ==
    {i \in S : Cardinality({j \in S : IF r.op = "run" THEN j > i ELSE j < i})
                  < Limit}

\* An empty batch ends a run at once, and the batches of a recomputation.
ReadBatch(c) ==
    LET r == req[c]
        batch == FirstFew(Candidates(r), r)
    IN  /\ pc[c] = "readBatch"
        /\ IF batch # {}
           THEN Goto(c, "evaluate", [r EXCEPT !.batch = batch])
           ELSE IF r.saved > 0 THEN Goto(c, "readRows", r)
           ELSE Finish(c)
        /\ UNCHANGED evalVars

\* The Agent may leave items out.  What it says of the others is chosen where
\* it is written.
Highest(S) == CHOOSE i \in S : \A j \in S : j <= i

Evaluate(c) ==
    LET r == req[c]
    IN  /\ pc[c] = "evaluate"
        /\ \E got \in SUBSET r.batch :
              Goto(c, "saveItems", [r EXCEPT !.items = got, !.batch = {},
                                             !.cursor = Highest(r.batch)])
        /\ UNCHANGED evalVars

(***************************************************************************)
(* One upsert per item, in order; one that fails is counted and skipped,   *)
(* and its stock is touched all the same.  Assumed of the Agent, as the    *)
(* code prefers what it says: an item repeats the owner and the stock that *)
(* the candidate was sent with.                                            *)
(***************************************************************************)
NextItem(r) == CHOOSE i \in r.items : \A j \in r.items : i <= j

Touched_Completed(r, i, e) ==
    IF e = "completed"
    THEN r.touched \cup {<<OwnerOf[i], None>>, <<OwnerOf[i], CodeOf[i]>>}
    ELSE r.touched \cup {<<OwnerOf[i], None>>}
Touched(r, i, e) ==
    r.touched \cup {<<OwnerOf[i], None>>, <<OwnerOf[i], CodeOf[i]>>}

After(r, i, e) == [r EXCEPT !.items = @ \ {i}, !.touched = Touched(r, i, e)]

SaveItem(c) ==
    LET r == req[c]
        i == NextItem(r)
    IN  /\ pc[c] = "saveItems" /\ r.items # {}
        /\ \E e \in Evals :
              /\ result' = [result EXCEPT ![i] = e]
              /\ Goto(c, "saveItems", [After(r, i, e) EXCEPT !.saved = @ + 1])
        /\ UNCHANGED <<summary, lagging>>

SaveFails(c) ==
    /\ pc[c] = "saveItems" /\ req[c].items # {}
    /\ \E e \in Evals :
          Throws(c, "saveItems", After(req[c], NextItem(req[c]), e))
    /\ UNCHANGED evalVars

Saved(c) ==
    LET r == req[c]
    IN  /\ pc[c] = "saveItems" /\ r.items = {}
        /\ IF r.op = "recompute" THEN Goto(c, "readBatch", r)
           ELSE IF r.saved > 0 THEN Goto(c, "readRows", r)
           ELSE Finish(c)
        /\ UNCHANGED evalVars

(***************************************************************************)
(* recomputeSummaries: per owner the overall summary and one per stock     *)
(* that was touched; each is read, computed by the Agent and upserted.     *)
(***************************************************************************)
NextSummary(r) ==
    CHOOSE t \in r.touched : t[2] # None => <<t[1], None>> \notin r.touched

ReadRows(c) ==
    LET r == req[c]
        t == NextSummary(r)
    IN  /\ pc[c] = "readRows"
        /\ Goto(c, "writeRows", [r EXCEPT !.rows = Counted(t[1], t[2])])
        /\ UNCHANGED evalVars

WriteRows(c) ==
    LET r == req[c]
        t == NextSummary(r)
        left == [r EXCEPT !.touched = @ \ {t}, !.rows = None]
    IN  /\ pc[c] = "writeRows"
        /\ summary' = [summary EXCEPT ![t[1]][t[2]] = r.rows]
        /\ lagging' = IF r.rows = Counted(t[1], t[2]) THEN lagging
                      ELSE lagging \cup {t[1]}
        /\ IF left.touched = {} THEN Finish(c) ELSE Goto(c, "readRows", left)
        /\ UNCHANGED result

\* The owners with results that request c has changed and not yet summarised.
Unsummarised(c) ==
    IF pc[c] \in {"deleteSummaries"} THEN req[c].owners
    ELSE IF pc[c] \in {"readBatch", "evaluate", "saveItems", "readRows",
                       "writeRows"}
    THEN {t[1] : t \in req[c].touched} ELSE {}

\* Requests C end there.  (The results are there, so the next run, which only
\* takes rows without one, does not come back to them.)
LagBehind(C) == lagging' = lagging \cup UNION {Unsummarised(c) : c \in C}

EvalStep(c) ==
    \/ DeleteResults(c) \/ DeleteSummaries(c) \/ ReadBatch(c) \/ Evaluate(c)
    \/ SaveItem(c) \/ SaveFails(c) \/ Saved(c) \/ ReadRows(c) \/ WriteRows(c)

=============================================================================
