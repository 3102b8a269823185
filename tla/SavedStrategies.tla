---------------------------- MODULE SavedStrategies ----------------------------
(***************************************************************************)
(* The strategies a user has saved for backtests: a name, a description, a *)
(* template and parameters that fit the template.  An update reads the     *)
(* row, fills what it was not asked to change with what it read, makes the *)
(* parameters fit the template, and writes all of it back, by id.          *)
(*                                                                         *)
(* A definition with an underscore in its name is the next one with a      *)
(* mistake in it.                                                          *)
(***************************************************************************)
EXTENDS ApiRequests

CONSTANTS
    Slots,          \* ids of saved strategies of one user
    Names, Texts,   \* names and descriptions that are not too long
    Blank,          \* the description that is given as an empty string
    Templates,
    Dsl,            \* rule_dsl, the template whose parameters are rules
    Fields, Entry,  \* fields of parameters; the entry conditions of rules
    FieldsOf,       \* FieldsOf[t]: the numbers that template t has
    Least, Most,    \* their bounds, and
    DefaultOf,      \* what stands for a number that is not given,
                    \* in halves: numbers in requests may have a fraction
    Below,          \* pairs of fields of which the first is to be smaller
    Given           \* bound: the parameters that requests give

Whole(n) == n - (n % 2)

\* Parameters are a JSON object.  None stands for a field that is not there
\* and, of the numbers, for a value that is none.
Params == [Fields -> Nat \cup {None}]

ASSUME StrategyConstants ==
    /\ None \notin Names \cup Texts \cup Templates \cup Slots \cup Nat
    /\ Blank \notin Texts \cup {None}
    /\ Entry \in Fields
    /\ FieldsOf \in [Templates \ {Dsl} -> SUBSET (Fields \ {Entry})]
    /\ {Least, Most, DefaultOf} \subseteq [Fields \ {Entry} -> Nat]
    /\ \A f \in Fields \ {Entry} : Whole(Least[f]) = Least[f]
                                   /\ Whole(DefaultOf[f]) = DefaultOf[f]
    /\ Below \subseteq Fields \X Fields
    /\ Given \subseteq Params

VARIABLES
    strategy,   \* strategy[i]: the row of user_backtest_strategies
    overwrote   \* history: updates since whose read another one wrote

strategyVars == <<strategy, overwrote>>

Strategy == [name : Names, description : Texts \cup {None},
             template : Templates, params : Params]

\* Null is neither parameters nor a saved strategy.
ASSUME NullIsNoStrategy == None \notin Strategy \cup Params

\* What an update names; the rest stays None.
Edit == [name : Names \cup {None}, description : Texts \cup {Blank, None},
         template : Templates \cup {None}, params : Params \cup {None}]

StrategyCall == [op : {"newStrategy", "edit", "remove"}, slot : Slots,
                 edit : Edit, row : Strategy \cup {None}]

StrategyTypeOK ==
    /\ strategy \in [Slots -> Strategy \cup {None}]
    /\ overwrote \subseteq Clients

(***************************************************************************)
(* normalizeBacktestStrategyParams: rules stay as they are, of numbers     *)
(* those of the template stay, without a fraction, and missing ones get    *)
(* their default.  Rules without an entry condition, numbers outside their *)
(* bounds and windows in the wrong order are refused.                      *)
(***************************************************************************)
NumberOf(p, f) == IF p[f] = None THEN DefaultOf[f] ELSE p[f]

Normal(t, p) ==
    IF t = Dsl THEN p
    ELSE [f \in Fields |-> IF f \in FieldsOf[t] THEN Whole(NumberOf(p, f))
                                                ELSE None]

Accepted(t, p) ==
    IF t = Dsl THEN p[Entry] # None
    ELSE /\ \A f \in FieldsOf[t] : NumberOf(p, f) \in Least[f] .. Most[f]
         /\ \A f, g \in FieldsOf[t] :
               <<f, g>> \in Below => Normal(t, p)[f] < Normal(t, p)[g]

\* A row that a run can use: mapResolvedRow throws at any other.
Fits(row) == /\ Accepted(row.template, row.params)
             /\ Normal(row.template, row.params) = row.params

\* Bound: the rows that are there, and that requests make, with the given
\* parameters and without a description.
RowOf(n, t, p) == [name |-> n, description |-> None, template |-> t,
                   params |-> Normal(t, p)]
RowsOf(t) == {RowOf(n, t, p) : n \in Names, p \in {q \in Given : Accepted(t, q)}}
Rows == UNION {RowsOf(t) : t \in Templates}

NameTaken(n, i) ==
    \E j \in Slots \ {i} : strategy[j] # None /\ strategy[j].name = n

\* Any rows with different names may be there.
StrategyInit ==
    /\ strategy \in [Slots -> Rows \cup {None}]
    /\ \A i \in Slots : strategy[i] # None => ~NameTaken(strategy[i].name, i)
    /\ overwrote = {}

\* createUserStrategy: the unique name of the owner may refuse it.  Ids are not
\* used again: a new row takes one that no request still has.
NewStrategy(c) ==
    /\ \E i \in Slots, s \in Rows :
          /\ strategy[i] = None
          /\ \A d \in Clients : req[d] # None => req[d].slot # i
          /\ Arrive(c, "insert", [op |-> "newStrategy", slot |-> i,
                edit |-> s, row |-> s])
    /\ UNCHANGED strategyVars

InsertStrategy(c) ==
    LET r == req[c]
    IN  /\ pc[c] = "insert"
        /\ strategy' = IF strategy[r.slot] # None \/ NameTaken(r.row.name, r.slot)
                       THEN strategy
                       ELSE [strategy EXCEPT ![r.slot] = r.row]
        /\ Finish(c)
        /\ UNCHANGED overwrote

NoEdit == [name |-> None, description |-> None, template |-> None,
           params |-> None]

\* Bound: a request names one field, or a template and parameters.
Conversions(t) == {[NoEdit EXCEPT !.template = t, !.params = p] : p \in Given}
Edits ==
    {[NoEdit EXCEPT !.name = n] : n \in Names}
        \cup {[NoEdit EXCEPT !.description = d] : d \in Texts \cup {Blank}}
        \cup {[NoEdit EXCEPT !.template = t] : t \in Templates}
        \cup {[NoEdit EXCEPT !.params = p] : p \in Given}
        \cup UNION {Conversions(t) : t \in Templates}

EditStrategy(c) ==
    /\ \E i \in Slots, e \in Edits :
          /\ strategy[i] # None
          /\ Arrive(c, "require", [op |-> "edit", slot |-> i, edit |-> e,
                                   row |-> None])
    /\ UNCHANGED strategyVars

RemoveStrategy(c) ==
    /\ \E i \in Slots :
          /\ strategy[i] # None
          /\ Arrive(c, "require", [op |-> "remove", slot |-> i,
                                   edit |-> NoEdit, row |-> None])
    /\ UNCHANGED strategyVars

\* What an update does not name is taken from the row.
Merged(e, row) ==
    [name        |-> IF e.name = None THEN row.name ELSE e.name,
     description |-> CASE e.description = None  -> row.description
                       [] e.description = Blank -> None
                       [] OTHER                 -> e.description,
     template    |-> IF e.template = None THEN row.template ELSE e.template,
     params      |-> IF e.params = None THEN row.params ELSE e.params]

\* normalizeStrategyDraft
Draft(e, row) ==
    LET m == Merged(e, row)
    IN  [m EXCEPT !.params = Normal(m.template, m.params)]

\* requireOwnedStrategy, and the draft, which may be refused.
RequireStrategy(c) ==
    LET r == req[c]
        row == strategy[r.slot]
        m == Merged(r.edit, row)
    IN  /\ pc[c] = "require"
        /\ IF row = None THEN Finish(c)
           ELSE IF r.op = "remove" THEN Goto(c, "delete", r)
           ELSE IF Accepted(m.template, m.params)
           THEN Goto(c, "update", [r EXCEPT !.row = Draft(r.edit, row)])
           ELSE Finish(c)
        /\ overwrote' = overwrote \ {c}
        /\ UNCHANGED strategy

UpdateStrategy_NamedOnly(c) ==
    LET r == req[c]
        old == strategy[r.slot]
        new == [r.row EXCEPT
                  !.name = IF r.edit.name = None THEN old.name ELSE @,
                  !.template = IF r.edit.template = None THEN old.template
                                                         ELSE @,
                  !.params = IF r.edit.template = None /\ r.edit.params = None
                             THEN old.params ELSE @]
    IN  /\ pc[c] = "update"
        /\ IF old = None \/ NameTaken(r.row.name, r.slot)
           THEN UNCHANGED strategyVars
           ELSE /\ strategy' = [strategy EXCEPT ![r.slot] = new]
                /\ overwrote' = overwrote \cup {d \in Clients :
                     d # c /\ pc[d] = "update" /\ req[d].slot = r.slot}
        /\ Finish(c)

\* A row that is gone and a name that is taken are errors.
UpdateStrategy(c) ==
    LET r == req[c]
    IN  /\ pc[c] = "update"
        /\ IF strategy[r.slot] = None \/ NameTaken(r.row.name, r.slot)
           THEN UNCHANGED strategyVars
           ELSE /\ strategy' = [strategy EXCEPT ![r.slot] = r.row]
                /\ overwrote' = overwrote \cup {d \in Clients :
                     d # c /\ pc[d] = "update" /\ req[d].slot = r.slot}
        /\ Finish(c)

DeleteStrategy(c) ==
    /\ pc[c] = "delete"
    /\ strategy' = [strategy EXCEPT ![req[c].slot] = None]
    /\ Finish(c)
    /\ UNCHANGED overwrote

StrategyStep(c) ==
    \/ InsertStrategy(c) \/ RequireStrategy(c) \/ UpdateStrategy(c)
    \/ DeleteStrategy(c)

=============================================================================
