---------------------------- MODULE OrderPlacement ----------------------------
(***************************************************************************)
(* Placing orders on the simulated account: placeOrder looks its           *)
(* idempotency key up in analysis_auto_orders, calls the broker and writes *)
(* what came of it back to that table, in three steps with an await in     *)
(* each.  Its callers are the order form, the chat agent and the worker,   *)
(* which give it different keys and different rows of the table.           *)
(*                                                                         *)
(* The broker is outside the repository.  It may accept, refuse, fail, or  *)
(* accept and have its answer lost; it is not assumed to look at the       *)
(* idempotency key that it is sent.                                        *)
(*                                                                         *)
(* A definition with an underscore in its name is the next one with a      *)
(* mistake in it.                                                          *)
(***************************************************************************)
EXTENDS Naturals

CONSTANTS
    Calls,          \* calls of placeOrder that may be in flight at once
    Users,
    Stocks,
    Terms,          \* what is ordered: direction, quantity and price
    DirectionOf,    \* DirectionOf[m]: the direction of m
    Sessions,       \* chat sessions
    Tasks,          \* analysis tasks that end in an automatic order
    OwnerOf,        \* the user of a session or a task
    StockOf,        \* the stock of a task
    ClientKeys,     \* values of the Idempotency-Key header
    LongKeys,       \* those with which "manual-<key>" overflows task_id
    None,
    MaxRequests,    \* bound: requests made
    MaxOrders,      \* bound: orders the broker accepts
    MaxFaults       \* bound: crashes and lost answers

ASSUME OrderConstants ==
    /\ DirectionOf \in [Terms -> {"buy", "sell"}]
    /\ OwnerOf \in [Sessions \cup Tasks -> Users]
    /\ StockOf \in [Tasks -> Stocks]
    /\ {MaxRequests, MaxOrders, MaxFaults} \subseteq Nat
    /\ LongKeys \subseteq ClientKeys
    /\ None \notin Sessions \cup Tasks \cup ClientKeys

VARIABLES
    pc,         \* pc[c]: what call c is about to do
    req,        \* req[c]: the request of call c
    reply,      \* reply[c]: the order the broker answered with, 0 for none
    orders,     \* orders[o]: the request under which o was accepted
    placed,     \* orders accepted so far
    audit,      \* the rows of analysis_auto_orders
    handled,    \* the tasks whose handler has come to its order
    requests, faults,   \* requests and faults so far
    exposed     \* history: the <<user, key>> pairs that OneOrderPerKey excuses

vars == <<pc, req, reply, orders, placed, audit, handled, requests, faults,
          exposed>>

OrderId == 1 .. MaxOrders

(***************************************************************************)
(* Requests, by caller.  The order form may give a key; by default the key *)
(* names neither the user nor the quantity.                                *)
(***************************************************************************)
DefaultKeys == {"manual"} \X Stocks \X {"buy", "sell"}
ChatKeys    == {"chat"} \X Sessions \X Stocks \X Terms
AutoKeys    == {"auto"} \X Tasks \X Stocks
Keys        == ClientKeys \cup DefaultKeys \cup ChatKeys \cup AutoKeys

Request == [user : Users, stock : Stocks, terms : Terms,
            task : Sessions \cup Tasks \cup {None}, key : Keys]

ASSUME NoneIsNoRequest == None \notin Request

FormRequest(u, s, m, k) ==
    [user |-> u, stock |-> s, terms |-> m, task |-> None,
     key |-> IF k = None THEN <<"manual", s, DirectionOf[m]>> ELSE k]

ChatRequest(x, s, m) ==
    [user |-> OwnerOf[x], stock |-> s, terms |-> m, task |-> x,
     key |-> <<"chat", x, s, m>>]

AutoRequest(t, m) ==
    [user |-> OwnerOf[t], stock |-> StockOf[t], terms |-> m, task |-> t,
     key |-> <<"auto", t, StockOf[t]>>]

Pair(r) == <<r.user, r.key>>

\* The unique key of the table: task and stock.  A manual order has its key
\* for a task.
RowTask(r) == IF r.task = None THEN <<"manual-", r.key>> ELSE r.task
SameRow(row, r) == row.task = RowTask(r) /\ row.stock = r.stock

RowTasks == Sessions \cup Tasks \cup ({"manual-"} \X Keys)

Row == [task : RowTasks, stock : Stocks, user : Users, terms : Terms,
        key : Keys, status : {"submitted", "failed"}, order : 0 .. MaxOrders]

Init ==
    /\ pc = [c \in Calls |-> "idle"]
    /\ req = [c \in Calls |-> None]
    /\ reply = [c \in Calls |-> 0]
    /\ orders = [o \in OrderId |-> None]
    /\ placed = 0
    /\ audit = {}
    /\ handled = {}
    /\ requests = 0
    /\ faults = 0
    /\ exposed = {}

Goto(c, label) == pc' = [pc EXCEPT ![c] = label]

\* The call returns or throws.
Finish(c) ==
    /\ Goto(c, "idle")
    /\ req' = [req EXCEPT ![c] = None]
    /\ reply' = [reply EXCEPT ![c] = 0]

(***************************************************************************)
(* The callers.  The worker comes to the order of a task once, because one *)
(* worker handles a task once (SingleConsumer of AnalysisQueue).           *)
(***************************************************************************)
Arrive(c, r) ==
    /\ pc[c] = "idle"
    /\ requests < MaxRequests
    /\ requests' = requests + 1
    /\ Goto(c, "check")
    /\ req' = [req EXCEPT ![c] = r]
    /\ UNCHANGED <<reply, orders, placed, audit, faults, exposed>>

FormOrder(c, u, s, m, k) ==
    /\ Arrive(c, FormRequest(u, s, m, k))
    /\ UNCHANGED handled

ChatOrder(c, x, s, m) ==
    /\ Arrive(c, ChatRequest(x, s, m))
    /\ UNCHANGED handled

AutoOrder(c, t, m) ==
    /\ t \notin handled
    /\ Arrive(c, AutoRequest(t, m))
    /\ handled' = handled \cup {t}

(***************************************************************************)
(* placeOrder.                                                             *)
(***************************************************************************)
Existing_ByRow(r) ==
    {row \in audit : /\ row.user = r.user
                     /\ SameRow(row, r)
                     /\ row.status = "submitted"}

\* findExistingIdempotentOrder
Existing(r) ==
    {row \in audit : /\ row.user = r.user
                     /\ row.key = r.key
                     /\ row.status = "submitted"}

\* The order of an earlier call with this key is the answer.
Replay(c) ==
    /\ pc[c] = "check"
    /\ Existing(req[c]) # {}
    /\ Finish(c)
    /\ UNCHANGED <<orders, placed, audit, handled, requests, faults, exposed>>

\* Another call with the same key may be on its way to the broker.
Overlapping(c) ==
    {d \in Calls \ {c} : /\ pc[d] \in {"place", "audit"}
                         /\ Pair(req[d]) = Pair(req[c])}

Proceed(c) ==
    /\ pc[c] = "check"
    /\ Existing(req[c]) = {}
    /\ Goto(c, "place")
    /\ exposed' = IF Overlapping(c) = {} THEN exposed
                                         ELSE exposed \cup {Pair(req[c])}
    /\ UNCHANGED <<req, reply, orders, placed, audit, handled, requests,
                   faults>>

AcceptAs(c, answer) ==
    /\ pc[c] = "place"
    /\ placed < MaxOrders
    /\ placed' = placed + 1
    /\ orders' = [orders EXCEPT ![placed + 1] = req[c]]
    /\ reply' = [reply EXCEPT ![c] = answer]
    /\ Goto(c, "audit")
    /\ UNCHANGED <<req, audit, handled, requests>>

Accept(c) == AcceptAs(c, placed + 1) /\ UNCHANGED <<faults, exposed>>

\* The order is accepted and the request times out.
LoseAnswer(c) ==
    /\ faults < MaxFaults
    /\ AcceptAs(c, 0)
    /\ faults' = faults + 1
    /\ exposed' = exposed \cup {Pair(req[c])}

\* The broker refuses the order, or a gateway error means it never got it.
Refuse(c) ==
    /\ pc[c] = "place"
    /\ Goto(c, "audit")
    /\ UNCHANGED <<req, reply, orders, placed, audit, handled, requests,
                   faults, exposed>>

AuditStatus_Raw(c) == IF reply[c] = 0 THEN "rejected" ELSE "submitted"

\* resolveAuditStatus
AuditStatus(c) == IF reply[c] = 0 THEN "failed" ELSE "submitted"

NewRow(c) ==
    LET r == req[c] IN
    [task |-> RowTask(r), stock |-> r.stock, user |-> r.user,
     terms |-> r.terms, key |-> r.key, status |-> AuditStatus(c),
     order |-> reply[c]]

Rewritten_KeepsKey(row, c) ==
    [row EXCEPT !.status = AuditStatus(c), !.order = reply[c]]

\* What the update of the upsert changes: neither the user nor the terms.
Rewritten(row, c) ==
    [row EXCEPT !.status = AuditStatus(c), !.order = reply[c],
                !.key = req[c].key]

\* The key column is unique over the whole table.
KeyTaken(c) ==
    \E row \in audit : row.key = req[c].key /\ ~SameRow(row, req[c])

\* Only a task id that the caller gives is cut to the column's width.
Overflows(c) == req[c].task = None /\ req[c].key \in LongKeys

Unwritable(c) == KeyTaken(c) \/ Overflows(c)

Insert(c) ==
    /\ pc[c] = "audit"
    /\ ~Unwritable(c)
    /\ \A row \in audit : ~SameRow(row, req[c])
    /\ audit' = audit \cup {NewRow(c)}
    /\ Finish(c)
    /\ UNCHANGED <<orders, placed, handled, requests, faults, exposed>>

Update(c, row) ==
    /\ pc[c] = "audit"
    /\ ~Unwritable(c)
    /\ row \in audit
    /\ SameRow(row, req[c])
    /\ audit' = (audit \ {row}) \cup {Rewritten(row, c)}
    /\ exposed' = IF Pair(row) = Pair(req[c]) THEN exposed
                  ELSE exposed \cup {Pair(row), Pair(req[c])}
    /\ Finish(c)
    /\ UNCHANGED <<orders, placed, handled, requests, faults>>

\* The pair of an order that call c would leave without a row.
Unrecorded(c) == IF reply[c] = 0 THEN {} ELSE {Pair(req[c])}

\* The database rejects the upsert: the call throws after its order.
RejectRow(c) ==
    /\ pc[c] = "audit"
    /\ Unwritable(c)
    /\ exposed' = exposed \cup Unrecorded(c)
    /\ Finish(c)
    /\ UNCHANGED <<orders, placed, audit, handled, requests, faults>>

\* The process dies, or a statement of the call fails.
Crash(c) ==
    /\ pc[c] # "idle"
    /\ faults < MaxFaults
    /\ faults' = faults + 1
    /\ exposed' = exposed \cup Unrecorded(c)
    /\ Finish(c)
    /\ UNCHANGED <<orders, placed, audit, handled, requests>>

Call(c) ==
    \/ Replay(c) \/ Proceed(c)
    \/ Accept(c) \/ LoseAnswer(c) \/ Refuse(c)
    \/ Insert(c) \/ RejectRow(c)
    \/ \E row \in audit : Update(c, row)
    \/ Crash(c)

Next ==
    \E c \in Calls :
        \/ \E u \in Users, s \in Stocks, m \in Terms,
              k \in ClientKeys \cup {None} : FormOrder(c, u, s, m, k)
        \/ \E x \in Sessions, s \in Stocks, m \in Terms : ChatOrder(c, x, s, m)
        \/ \E t \in Tasks, m \in Terms : AutoOrder(c, t, m)
        \/ Call(c)

Spec == Init /\ [][Next]_vars

-----------------------------------------------------------------------------
TypeOK ==
    /\ pc \in [Calls -> {"idle", "check", "place", "audit"}]
    /\ req \in [Calls -> Request \cup {None}]
    /\ \A c \in Calls : pc[c] = "idle" <=> req[c] = None
    /\ reply \in [Calls -> 0 .. placed]
    /\ placed \in 0 .. MaxOrders
    /\ orders \in [OrderId -> Request \cup {None}]
    /\ \A o \in OrderId : orders[o] # None <=> o <= placed
    /\ audit \subseteq Row
    /\ handled \subseteq Tasks
    /\ requests \in Nat
    /\ faults \in Nat
    /\ exposed \subseteq Users \X Keys

\* A row that says submitted names an order that the broker accepted under
\* the key and for the stock of the row: what placeOrder replays is an order
\* of that key, whichever calls have rewritten the row (writeOrderAudit).
AuditNamesItsOrder ==
    \A row \in audit : row.status = "submitted" =>
        /\ row.order \in 1 .. placed
        /\ orders[row.order].key = row.key
        /\ orders[row.order].stock = row.stock

\* One user's orders under one key are one order (trading-account.service.ts
\* line 957), unless one of these has exposed the key: two of its calls
\* overlapped, an accepted order got no row because the answer or the process
\* was lost or the database rejected the row, or the row is shared with
\* orders of another key or user.
OneOrderPerKey ==
    \A o, p \in 1 .. placed :
        Pair(orders[o]) = Pair(orders[p]) /\ Pair(orders[o]) \notin exposed
            => o = p

\* trading-account.service.ts:983: the audit lets one reconstruct every kind
\* of order, so a submitted row has the user and the terms of its order.
AuditDescribesItsOrder ==
    \A row \in audit : row.status = "submitted" =>
        /\ orders[row.order].user = row.user
        /\ orders[row.order].terms = row.terms

\* trading-account.service.ts:1163: every order leaves a trail in the audit,
\* whoever placed it, so an accepted order that no call still holds has a row.
EveryOrderHasARow ==
    faults = 0 =>
        \A o \in 1 .. placed :
            \/ \E c \in Calls : reply[c] = o
            \/ \E row \in audit : row.order = o

=============================================================================
