------------------------- MODULE OrderPlacementProofs -------------------------
(***************************************************************************)
(* Theorems about OrderPlacement, for any number of calls, users, stocks,  *)
(* terms, sessions, tasks and keys, and any bounds.                        *)
(***************************************************************************)
EXTENDS OrderPlacement, TLAPS

Now == 1 .. placed

\* A call has a reply only while it is about to record it, and the reply is
\* the order that was accepted for its request.
RepliesOwn ==
    \A c \in Calls : reply[c] # 0 =>
        /\ pc[c] = "audit"
        /\ orders[reply[c]] = req[c]

Sending(c) == pc[c] \in {"place", "audit"}

\* A pair that is not exposed has one call past its check,
OneSender ==
    \A c, d \in Calls :
        /\ Sending(c) /\ Sending(d)
        /\ Pair(req[c]) = Pair(req[d])
        /\ Pair(req[c]) \notin exposed
        => c = d

\* which has no earlier order of that pair before it while it has no reply,
NoneYet ==
    \A c \in Calls, o \in Now :
        /\ Sending(c) /\ reply[c] = 0
        /\ Pair(req[c]) \notin exposed
        => Pair(orders[o]) # Pair(req[c])

\* and each of its orders is in the hands of a call or found by its key.
Held(o) == \E c \in Calls : reply[c] = o

Recorded(o) ==
    \E row \in audit : /\ row.status = "submitted"
                       /\ row.order = o
                       /\ Pair(row) = Pair(orders[o])

Accounted ==
    \A o \in Now : Pair(orders[o]) \notin exposed => Held(o) \/ Recorded(o)

KeyInv == OneSender /\ NoneYet /\ Accounted /\ OneOrderPerKey

-----------------------------------------------------------------------------
\* What the callers hand to placeOrder is a request.
LEMMA FormType ==
  ASSUME NEW u \in Users, NEW s \in Stocks, NEW m \in Terms,
         NEW k \in ClientKeys \cup {None}
  PROVE  FormRequest(u, s, m, k) \in Request
<1>1. <<"manual", s, DirectionOf[m]>> \in DefaultKeys
  BY OrderConstants DEF DefaultKeys
<1> QED
  BY <1>1 DEF FormRequest, Request, Keys

\* What the chat sends to be placed is a well-formed request.
LEMMA ChatType ==
  ASSUME NEW x \in Sessions, NEW s \in Stocks, NEW m \in Terms
  PROVE  ChatRequest(x, s, m) \in Request
<1>1. <<"chat", x, s, m>> \in ChatKeys
  BY DEF ChatKeys
<1>2. OwnerOf[x] \in Users
  BY OrderConstants
<1> QED
  BY <1>1, <1>2 DEF ChatRequest, Request, Keys

\* What a worker sends to be placed is a well-formed request.
LEMMA AutoType ==
  ASSUME NEW t \in Tasks, NEW m \in Terms
  PROVE  AutoRequest(t, m) \in Request
<1>1. OwnerOf[t] \in Users /\ StockOf[t] \in Stocks
  BY OrderConstants
<1>2. <<"auto", t, StockOf[t]>> \in AutoKeys
  BY <1>1 DEF AutoKeys
<1> QED
  BY <1>1, <1>2 DEF AutoRequest, Request, Keys

\* Every step is a request that arrives, a step of a call or a stutter.
LEMMA Steps ==
  ASSUME [Next]_vars, handled \subseteq Tasks
  PROVE  /\ \/ \E c \in Calls, r \in Request : Arrive(c, r)
            \/ \E c \in Calls : Call(c)
            \/ UNCHANGED vars
         /\ handled' \subseteq Tasks
<1>1. ASSUME NEW c \in Calls, NEW u \in Users, NEW s \in Stocks,
             NEW m \in Terms, NEW k \in ClientKeys \cup {None},
             FormOrder(c, u, s, m, k)
      PROVE  Arrive(c, FormRequest(u, s, m, k)) /\ handled' = handled
  BY <1>1 DEF FormOrder
<1>2. ASSUME NEW c \in Calls, NEW x \in Sessions, NEW s \in Stocks,
             NEW m \in Terms, ChatOrder(c, x, s, m)
      PROVE  Arrive(c, ChatRequest(x, s, m)) /\ handled' = handled
  BY <1>2 DEF ChatOrder
<1>3. ASSUME NEW c \in Calls, NEW t \in Tasks, NEW m \in Terms,
             AutoOrder(c, t, m)
      PROVE  Arrive(c, AutoRequest(t, m)) /\ handled' = handled \cup {t}
  BY <1>3 DEF AutoOrder
<1>4. ASSUME NEW c \in Calls, Call(c)
      PROVE  handled' = handled
  BY <1>4 DEF Call, Replay, Proceed, Accept, LoseAnswer, AcceptAs, Refuse,
              Insert, RejectRow, Update, Crash
<1> QED
  BY <1>1, <1>2, <1>3, <1>4, FormType, ChatType, AutoType DEF Next, vars

-----------------------------------------------------------------------------
\* The initial states are well typed.
LEMMA TypeInit == Init => TypeOK
  BY OrderConstants DEF Init, TypeOK, OrderId

\* Every step keeps the types.
LEMMA TypeStep ==
  ASSUME TypeOK, [Next]_vars
  PROVE  TypeOK'
<1> USE OrderConstants, NoneIsNoRequest DEF TypeOK, OrderId
<1>1. ASSUME NEW c \in Calls, NEW r \in Request, Arrive(c, r)
      PROVE  TypeOK'
  <2>1. handled' \subseteq Tasks
    BY Steps
  <2> QED
    BY <1>1, <2>1 DEF Arrive, Goto
<1>2. ASSUME NEW c \in Calls, Call(c)
      PROVE  TypeOK'
  <2>1. CASE Replay(c)
    BY <2>1 DEF Replay, Finish, Goto
  <2>2. CASE Proceed(c)
    <3>1. Pair(req[c]) \in Users \X Keys
      BY <2>2 DEF Proceed, Pair, Request
    <3> QED
      BY <2>2, <3>1 DEF Proceed, Goto
  <2>3. ASSUME NEW a \in 0 .. placed + 1, AcceptAs(c, a)
        PROVE  /\ pc' \in [Calls -> {"idle", "check", "place", "audit"}]
               /\ \A d \in Calls : pc'[d] = "idle" <=> req'[d] = None
               /\ reply' \in [Calls -> 0 .. placed']
               /\ placed' \in 0 .. MaxOrders
               /\ orders' \in [OrderId -> Request \cup {None}]
               /\ \A o \in OrderId : orders'[o] # None <=> o <= placed'
               /\ UNCHANGED <<req, audit, handled, requests>>
    <3>1. req[c] \in Request
      BY <2>3 DEF AcceptAs
    <3> QED
      BY <2>3, <3>1 DEF AcceptAs, Goto
  <2>4. CASE Accept(c)
    BY <2>3, <2>4 DEF Accept
  <2>5. CASE LoseAnswer(c)
    <3>1. Pair(req[c]) \in Users \X Keys
      BY <2>5 DEF LoseAnswer, AcceptAs, Pair, Request
    <3>2. AcceptAs(c, 0) /\ faults' \in Nat /\ exposed' \subseteq Users \X Keys
      BY <2>5, <3>1 DEF LoseAnswer
    <3> QED
      BY <2>3, <3>2
  <2>6. CASE Refuse(c)
    BY <2>6 DEF Refuse, Goto
  <2>7. CASE Insert(c)
    <3>1. req[c] \in Request /\ reply[c] \in 0 .. MaxOrders
      BY <2>7 DEF Insert
    <3>2. RowTask(req[c]) \in RowTasks
      BY <3>1 DEF RowTask, RowTasks, Request
    <3>3. NewRow(c) \in Row
      BY <3>1, <3>2 DEF NewRow, Row, Request, AuditStatus
    <3> QED
      BY <2>7, <3>3 DEF Insert, Finish, Goto
  <2>8. CASE RejectRow(c)
    <3>1. Unrecorded(c) \subseteq Users \X Keys
      BY <2>8 DEF RejectRow, Unrecorded, Pair, Request
    <3> QED
      BY <2>8, <3>1 DEF RejectRow, Finish, Goto
  <2>9. ASSUME NEW row \in audit, Update(c, row)
        PROVE  TypeOK'
    <3>1. req[c] \in Request /\ reply[c] \in 0 .. MaxOrders /\ row \in Row
      BY <2>9 DEF Update
    <3>2. Rewritten(row, c) \in Row
      BY <3>1 DEF Rewritten, Row, Request, AuditStatus
    <3>3. Pair(row) \in Users \X Keys /\ Pair(req[c]) \in Users \X Keys
      BY <3>1 DEF Pair, Row, Request
    <3> QED
      BY <2>9, <3>2, <3>3 DEF Update, Finish, Goto
  <2>10. CASE Crash(c)
    <3>1. Unrecorded(c) \subseteq Users \X Keys
      BY <2>10 DEF Crash, Unrecorded, Pair, Request
    <3> QED
      BY <2>10, <3>1 DEF Crash, Finish, Goto
  <2> QED
    BY <1>2, <2>1, <2>2, <2>4, <2>5, <2>6, <2>7, <2>8, <2>9, <2>10 DEF Call
<1>3. CASE UNCHANGED vars
  BY <1>3 DEF vars
<1> QED
  BY <1>1, <1>2, <1>3, Steps

\* Every reachable state of the order service is well typed; in particular an
\* audit row says submitted or failed and nothing else (resolveAuditStatus).
THEOREM TypesHold == Spec => []TypeOK
<1>1. TypeOK /\ [Next]_vars => TypeOK'
  BY TypeStep
<1> QED
  BY TypeInit, <1>1, PTL DEF Spec

-----------------------------------------------------------------------------
\* Every step keeps a call's reply its own: the broker answers the order it was
\* sent.
LEMMA RepliesStep ==
  ASSUME TypeOK, RepliesOwn, [Next]_vars
  PROVE  RepliesOwn'
<1> USE DEF TypeOK, RepliesOwn, OrderId
<1>1. ASSUME NEW c \in Calls, NEW r \in Request, Arrive(c, r)
      PROVE  RepliesOwn'
  BY <1>1 DEF Arrive, Goto
<1>2. ASSUME NEW c \in Calls, Call(c)
      PROVE  RepliesOwn'
  <2>1. ASSUME pc[c] # "idle", Finish(c), UNCHANGED orders
        PROVE  RepliesOwn'
    BY <2>1 DEF Finish, Goto
  <2>2. CASE Replay(c) \/ Insert(c) \/ RejectRow(c) \/ Crash(c)
             \/ \E row \in audit : Update(c, row)
    BY <2>1, <2>2 DEF Replay, Insert, RejectRow, Crash, Update
  <2>3. CASE Proceed(c) \/ Refuse(c)
    BY <2>3 DEF Proceed, Refuse, Goto
  <2>4. CASE Accept(c) \/ LoseAnswer(c)
    <3>1. PICK a \in {0, placed + 1} : AcceptAs(c, a)
      BY <2>4 DEF Accept, LoseAnswer
    <3>2. \A d \in Calls : reply[d] # placed + 1
      OBVIOUS
    <3>3. placed + 1 \in OrderId
      BY <3>1, OrderConstants DEF AcceptAs
    <3>4. ASSUME NEW d \in Calls, reply'[d] # 0
          PROVE  pc'[d] = "audit" /\ orders'[reply'[d]] = req'[d]
      BY <3>1, <3>2, <3>3, <3>4 DEF AcceptAs, Goto
    <3> QED
      BY <3>4
  <2> QED
    BY <1>2, <2>2, <2>3, <2>4 DEF Call
<1>3. CASE UNCHANGED vars
  BY <1>3 DEF vars
<1> QED
  BY <1>1, <1>2, <1>3, Steps

\* Every step keeps a submitted audit row truthful about the order it names.
LEMMA AuditStep ==
  ASSUME TypeOK, RepliesOwn, AuditNamesItsOrder, [Next]_vars
  PROVE  AuditNamesItsOrder'
<1> USE DEF TypeOK, AuditNamesItsOrder, OrderId
<1>1. ASSUME UNCHANGED <<audit, orders, placed>>
      PROVE  AuditNamesItsOrder'
  BY <1>1
<1>2. ASSUME NEW c \in Calls, NEW r \in Request, Arrive(c, r)
      PROVE  AuditNamesItsOrder'
  BY <1>1, <1>2 DEF Arrive
<1>3. ASSUME NEW c \in Calls, Call(c)
      PROVE  AuditNamesItsOrder'
  <2>1. CASE \/ Replay(c) \/ Proceed(c) \/ Refuse(c) \/ RejectRow(c)
             \/ Crash(c)
    BY <1>1, <2>1 DEF Replay, Proceed, Refuse, RejectRow, Crash
  <2>2. CASE Accept(c) \/ LoseAnswer(c)
    <3>1. /\ audit' = audit
          /\ placed' = placed + 1
          /\ orders' = [orders EXCEPT ![placed + 1] = req[c]]
      BY <2>2 DEF Accept, LoseAnswer, AcceptAs
    <3>2. \A o \in 1 .. placed : orders'[o] = orders[o] /\ o \in 1 .. placed'
      BY <3>1, OrderConstants
    <3> QED
      BY <3>1, <3>2
  <2>3. ASSUME pc[c] = "audit", reply[c] # 0
        PROVE  reply[c] \in 1 .. placed /\ orders[reply[c]] = req[c]
    BY <2>3 DEF RepliesOwn
  <2>4. CASE Insert(c)
    <3>1. /\ NewRow(c).status = "submitted" => reply[c] # 0
          /\ NewRow(c).order = reply[c]
          /\ NewRow(c).key = req[c].key
          /\ NewRow(c).stock = req[c].stock
      BY DEF NewRow, AuditStatus
    <3> QED
      BY <2>3, <2>4, <3>1 DEF Insert
  <2>5. ASSUME NEW row \in audit, Update(c, row)
        PROVE  AuditNamesItsOrder'
    <3>1. row \in Row /\ row.stock = req[c].stock
      BY <2>5 DEF Update, SameRow
    <3>2. /\ Rewritten(row, c).status = "submitted" => reply[c] # 0
          /\ Rewritten(row, c).order = reply[c]
          /\ Rewritten(row, c).key = req[c].key
          /\ Rewritten(row, c).stock = req[c].stock
      BY <3>1 DEF Rewritten, AuditStatus, Row
    <3> QED
      BY <2>3, <2>5, <3>2 DEF Update
  <2> QED
    BY <1>3, <2>1, <2>2, <2>4, <2>5 DEF Call
<1>4. CASE UNCHANGED vars
  BY <1>1, <1>4 DEF vars
<1> QED
  BY <1>2, <1>3, <1>4, Steps

\* A submitted audit row names an order the broker accepted under the key and
\* for the stock of the row, whatever calls shared the row (writeOrderAudit).
THEOREM AuditTruth == Spec => []AuditNamesItsOrder
<1>1. Init => RepliesOwn /\ AuditNamesItsOrder
  BY DEF Init, RepliesOwn, AuditNamesItsOrder
<1>2. /\ TypeOK /\ RepliesOwn /\ AuditNamesItsOrder
      /\ [Next]_vars
      => RepliesOwn' /\ AuditNamesItsOrder'
  BY RepliesStep, AuditStep
<1> QED
  BY <1>1, <1>2, TypesHold, PTL DEF Spec

-----------------------------------------------------------------------------
\* A call that ends keeps KeyInv when the records of the orders stay and its
\* own order, if it has one, is recorded or its pair exposed.
LEMMA FinishStep ==
  ASSUME TypeOK, RepliesOwn, KeyInv, NEW c \in Calls, Finish(c),
         UNCHANGED <<orders, placed>>, exposed \subseteq exposed',
         \A o \in Now : /\ Recorded(o) \/ reply[c] = o
                        /\ Pair(orders[o]) \notin exposed'
                        => Recorded(o)'
  PROVE  KeyInv'
<1> USE DEF TypeOK, KeyInv, Now
<1>1. /\ pc'[c] = "idle"
      /\ \A d \in Calls \ {c} :
            pc'[d] = pc[d] /\ req'[d] = req[d] /\ reply'[d] = reply[d]
  BY DEF Finish, Goto
<1>2. OneSender'
  BY <1>1 DEF OneSender, Sending
<1>3. NoneYet'
  BY <1>1 DEF NoneYet, Sending
<1>4. Accounted'
  <2> SUFFICES ASSUME NEW o \in Now, Pair(orders[o]) \notin exposed'
               PROVE  Held(o)' \/ Recorded(o)'
    BY DEF Accounted
  <2>1. CASE Recorded(o)
    BY <2>1
  <2>2. CASE Held(o)
    <3>1. PICK d \in Calls : reply[d] = o
      BY <2>2 DEF Held
    <3>2. CASE d = c
      BY <3>1, <3>2 DEF RepliesOwn
    <3>3. CASE d # c
      BY <1>1, <3>1, <3>3 DEF Held
    <3> QED
      BY <3>2, <3>3
  <2> QED
    BY <2>1, <2>2 DEF Accounted
<1>5. OneOrderPerKey'
  BY DEF OneOrderPerKey
<1> QED
  BY <1>2, <1>3, <1>4, <1>5

\* The accepted order is the first of its pair, unless the pair is exposed.
LEMMA AcceptStep ==
  ASSUME TypeOK, RepliesOwn, KeyInv, NEW c \in Calls,
         Accept(c) \/ LoseAnswer(c)
  PROVE  KeyInv'
<1> USE DEF TypeOK, KeyInv, Now, OrderId
<1>1. /\ pc[c] = "place" /\ reply[c] = 0
      /\ placed + 1 \in OrderId
      /\ placed' = placed + 1
      /\ orders' = [orders EXCEPT ![placed + 1] = req[c]]
      /\ pc' = [pc EXCEPT ![c] = "audit"]
      /\ UNCHANGED <<req, audit>>
  BY OrderConstants
     DEF Accept, LoseAnswer, AcceptAs, Goto, RepliesOwn
<1>2. /\ exposed \subseteq exposed'
      /\ \A d \in Calls \ {c} : reply'[d] = reply[d]
      /\ Pair(req[c]) \notin exposed' => reply'[c] = placed + 1
  BY DEF Accept, LoseAnswer, AcceptAs
<1>3. /\ orders'[placed + 1] = req[c]
      /\ \A o \in Now : orders'[o] = orders[o]
      /\ \A o \in Now' : o \in Now \/ o = placed + 1
  BY <1>1
<1>4. \A d \in Calls : Sending(d)' <=> Sending(d)
  BY <1>1 DEF Sending
<1>5. Sending(c)
  BY <1>1 DEF Sending
<1>6. OneSender'
  BY <1>1, <1>2, <1>4 DEF OneSender
<1>7. NoneYet'
  <2> SUFFICES ASSUME NEW d \in Calls, NEW o \in Now', Sending(d),
                      reply'[d] = 0, Pair(req[d]) \notin exposed',
                      Pair(orders'[o]) = Pair(req[d])
               PROVE  FALSE
    BY <1>1, <1>4 DEF NoneYet
  <2>1. d # c
    BY <1>2
  <2>2. CASE o \in Now
    BY <1>2, <1>3, <2>1, <2>2 DEF NoneYet
  <2>3. CASE o = placed + 1
    BY <1>2, <1>3, <1>5, <2>1, <2>3 DEF OneSender
  <2> QED
    BY <1>3, <2>2, <2>3
<1>8. Accounted'
  <2> SUFFICES ASSUME NEW o \in Now', Pair(orders'[o]) \notin exposed'
               PROVE  Held(o)' \/ Recorded(o)'
    BY DEF Accounted
  <2>1. CASE o = placed + 1
    BY <1>2, <1>3, <2>1 DEF Held
  <2>2. CASE o \in Now
    <3>1. Held(o) \/ Recorded(o)
      BY <1>2, <1>3, <2>2 DEF Accounted
    <3>2. CASE Held(o)
      BY <1>1, <1>2, <2>2, <3>2 DEF Held
    <3>3. CASE Recorded(o)
      BY <1>1, <1>3, <2>2, <3>3 DEF Recorded
    <3> QED
      BY <3>1, <3>2, <3>3
  <2> QED
    BY <1>3, <2>1, <2>2
<1>9. OneOrderPerKey'
  <2>1. \A o \in Now : Pair(orders[o]) = Pair(req[c])
                       => Pair(req[c]) \in exposed
    BY <1>1, <1>5 DEF NoneYet
  <2> SUFFICES ASSUME NEW o \in Now', NEW p \in Now', o # p,
                      Pair(orders'[o]) = Pair(orders'[p]),
                      Pair(orders'[o]) \notin exposed'
               PROVE  FALSE
    BY DEF OneOrderPerKey
  <2>2. CASE o \in Now /\ p \in Now
    BY <1>2, <1>3, <2>2 DEF OneOrderPerKey
  <2>3. CASE o = placed + 1 /\ p \in Now
    BY <1>2, <1>3, <2>1, <2>3
  <2>4. CASE o \in Now /\ p = placed + 1
    BY <1>2, <1>3, <2>1, <2>4
  <2> QED
    BY <1>3, <2>2, <2>3, <2>4
<1> QED
  BY <1>6, <1>7, <1>8, <1>9

\* A call goes to the broker only when its pair has neither another call
\* past the check nor an order, unless the pair is exposed.
LEMMA ProceedStep ==
  ASSUME TypeOK, RepliesOwn, KeyInv, NEW c \in Calls, Proceed(c)
  PROVE  KeyInv'
<1> USE DEF TypeOK, KeyInv, Now
<1>1. /\ pc[c] = "check" /\ Existing(req[c]) = {}
      /\ pc' = [pc EXCEPT ![c] = "place"]
      /\ UNCHANGED <<req, reply, orders, placed, audit>>
      /\ exposed \subseteq exposed'
      /\ Pair(req[c]) \notin exposed' => Overlapping(c) = {}
  BY DEF Proceed, Goto
<1>2. \A d \in Calls \ {c} : Sending(d)' <=> Sending(d)
  BY <1>1 DEF Sending
<1>3. ASSUME NEW d \in Calls \ {c}, Sending(d),
             Pair(req[d]) = Pair(req[c]), Pair(req[c]) \notin exposed'
      PROVE  FALSE
  BY <1>1, <1>3 DEF Overlapping, Sending
<1>4. OneSender'
  <2> SUFFICES ASSUME NEW d \in Calls, NEW e \in Calls,
                      Sending(d)', Sending(e)',
                      Pair(req[d]) = Pair(req[e]),
                      Pair(req[d]) \notin exposed', d # e
               PROVE  FALSE
    BY <1>1 DEF OneSender
  <2>1. CASE d = c
    BY <1>2, <1>3, <2>1
  <2>2. CASE e = c
    BY <1>2, <1>3, <2>2
  <2>3. CASE d # c /\ e # c
    BY <1>1, <1>2, <2>3 DEF OneSender
  <2> QED
    BY <2>1, <2>2, <2>3
<1>5. NoneYet'
  <2>1. ASSUME NEW o \in Now, Pair(req[c]) \notin exposed',
               Pair(orders[o]) = Pair(req[c])
        PROVE  FALSE
    <3>1. ~Held(o)
      BY <1>1, <1>3, <2>1 DEF Held, RepliesOwn, Sending
    <3>2. ~Recorded(o)
      BY <1>1, <2>1 DEF Recorded, Existing, Pair
    <3> QED
      BY <1>1, <2>1, <3>1, <3>2 DEF Accounted
  <2> QED
    BY <1>1, <1>2, <2>1 DEF NoneYet
<1>6. Accounted'
  BY <1>1 DEF Accounted, Held, Recorded
<1>7. OneOrderPerKey'
  BY <1>1 DEF OneOrderPerKey
<1> QED
  BY <1>4, <1>5, <1>6, <1>7

\* A rewritten row still finds the orders that it found, unless it is shared.
LEMMA UpdateStep ==
  ASSUME TypeOK, RepliesOwn, KeyInv, NEW c \in Calls,
         NEW row \in audit, Update(c, row)
  PROVE  KeyInv'
<1> DEFINE new == Rewritten(row, c)
<1> USE DEF TypeOK, KeyInv, Now
<1>1. /\ pc[c] = "audit" /\ Sending(c)
      /\ Finish(c)
      /\ audit' = (audit \ {row}) \cup {new}
      /\ UNCHANGED <<orders, placed>>
      /\ exposed \subseteq exposed'
      /\ Pair(row) # Pair(req[c]) => Pair(row) \in exposed'
      /\ Pair(row) # Pair(req[c]) => Pair(req[c]) \in exposed'
  BY DEF Update, Sending
<1>2. /\ new.user = row.user /\ new.key = req[c].key
      /\ new.order = reply[c]
      /\ reply[c] # 0 => new.status = "submitted"
  BY DEF Rewritten, Row, AuditStatus
<1>3. ASSUME NEW o \in Now, reply[c] = o, Pair(orders[o]) \notin exposed'
      PROVE  Recorded(o)'
  <2>1. orders'[o] = req[c]
    BY <1>1, <1>3 DEF RepliesOwn
  <2>2. Pair(new) = Pair(req[c])
    BY <1>1, <1>2, <1>3, <2>1 DEF Pair
  <2> QED
    BY <1>1, <1>2, <1>3, <2>1, <2>2 DEF Recorded
<1>4. ASSUME NEW o \in Now, Recorded(o), Pair(orders[o]) \notin exposed'
      PROVE  Recorded(o)'
  <2>1. PICK old \in audit : /\ old.status = "submitted"
                             /\ old.order = o
                             /\ Pair(old) = Pair(orders[o])
    BY <1>4 DEF Recorded
  <2>2. CASE old # row
    BY <1>1, <2>1, <2>2 DEF Recorded
  <2>3. CASE old = row
    <3>1. Pair(req[c]) = Pair(orders[o])
      BY <1>1, <1>4, <2>1, <2>3
    <3>2. reply[c] # 0
      BY <1>1, <1>4, <3>1 DEF NoneYet
    <3>3. reply[c] \in Now /\ orders[reply[c]] = req[c]
      BY <3>2 DEF RepliesOwn
    <3>4. o = reply[c]
      BY <1>1, <1>4, <3>1, <3>3 DEF OneOrderPerKey
    <3> QED
      BY <1>3, <1>4, <3>4
  <2> QED
    BY <2>2, <2>3
<1> QED
  BY <1>1, <1>3, <1>4, FinishStep

\* Every step keeps the keys: the inductive step of KeysOrderOnce.
LEMMA KeyStep ==
  ASSUME TypeOK, RepliesOwn, KeyInv, [Next]_vars
  PROVE  KeyInv'
<1>1. ASSUME NEW c \in Calls, NEW r \in Request, Arrive(c, r)
      PROVE  KeyInv'
  <2>1. /\ ~Sending(c) /\ ~Sending(c)'
        /\ \A d \in Calls \ {c} : pc'[d] = pc[d] /\ req'[d] = req[d]
        /\ UNCHANGED <<reply, orders, placed, audit, exposed>>
    BY <1>1 DEF Arrive, Goto, Sending, TypeOK
  <2>2. \A d \in Calls \ {c} : Sending(d)' <=> Sending(d)
    BY <2>1 DEF Sending
  <2>3. OneSender' /\ NoneYet'
    BY <2>1, <2>2 DEF KeyInv, OneSender, NoneYet, Now
  <2>4. Accounted' /\ OneOrderPerKey'
    BY <2>1 DEF KeyInv, Accounted, Held, Recorded, OneOrderPerKey, Now
  <2> QED
    BY <2>3, <2>4 DEF KeyInv
<1>2. ASSUME NEW c \in Calls, Call(c)
      PROVE  KeyInv'
  <2>1. CASE Replay(c)
    <3>1. /\ reply[c] = 0 /\ Finish(c)
          /\ UNCHANGED <<orders, placed, audit, exposed>>
      BY <2>1 DEF Replay, RepliesOwn
    <3>2. \A o \in Now : /\ reply[c] # o
                         /\ Recorded(o) => Recorded(o)'
      BY <3>1 DEF Now, Recorded
    <3> QED
      BY <3>1, <3>2, FinishStep
  <2>2. CASE RejectRow(c) \/ Crash(c)
    <3>1. /\ Finish(c)
          /\ UNCHANGED <<orders, placed, audit>>
          /\ exposed' = exposed \cup Unrecorded(c)
      BY <2>2 DEF RejectRow, Crash
    <3>2. \A o \in Now : Recorded(o) => Recorded(o)'
      BY <3>1 DEF Recorded
    <3>3. \A o \in Now : reply[c] = o => Pair(orders[o]) \in exposed'
      BY <3>1 DEF Unrecorded, RepliesOwn, Now
    <3> QED
      BY <3>1, <3>2, <3>3, FinishStep
  <2>3. CASE Insert(c)
    <3>1. /\ pc[c] = "audit" /\ Finish(c)
          /\ audit' = audit \cup {NewRow(c)}
          /\ UNCHANGED <<orders, placed, exposed>>
      BY <2>3 DEF Insert
    <3>2. \A o \in Now : Recorded(o) => Recorded(o)'
      BY <3>1 DEF Recorded
    <3>3. ASSUME NEW o \in Now, reply[c] = o
          PROVE  Recorded(o)'
      <4>1. o # 0 /\ orders'[o] = req[c]
        BY <3>1, <3>3 DEF RepliesOwn, Now
      <4>2. /\ NewRow(c).status = "submitted"
            /\ NewRow(c).order = o
            /\ Pair(NewRow(c)) = Pair(req[c])
        BY <3>3, <4>1 DEF NewRow, AuditStatus, Pair
      <4> QED
        BY <3>1, <4>1, <4>2 DEF Recorded
    <3> QED
      BY <3>1, <3>2, <3>3, FinishStep
  <2>4. CASE Refuse(c)
    <3>1. /\ \A d \in Calls : Sending(d)' <=> Sending(d)
          /\ UNCHANGED <<req, reply, orders, placed, audit, exposed>>
      BY <2>4 DEF Refuse, Goto, Sending, TypeOK
    <3> QED
      BY <3>1 DEF KeyInv, OneSender, NoneYet, Accounted, Held, Recorded,
                  OneOrderPerKey, Now
  <2> QED
    BY <1>2, <2>1, <2>2, <2>3, <2>4, AcceptStep, ProceedStep, UpdateStep
       DEF Call
<1>3. CASE UNCHANGED vars
  BY <1>3 DEF vars, KeyInv, OneSender, NoneYet, Accounted, Held, Recorded,
              OneOrderPerKey, Now, Sending
<1> QED
  BY <1>1, <1>2, <1>3, Steps DEF TypeOK

\* One user's orders under one key are one order, unless the key was exposed
\* by overlapping calls, a loss or a shared row (placeOrder).
THEOREM KeysOrderOnce == Spec => []OneOrderPerKey
<1>1. Init => RepliesOwn /\ KeyInv
  BY DEF Init, RepliesOwn, KeyInv, OneSender, NoneYet, Accounted,
         OneOrderPerKey, Now, Sending
<1>2. TypeOK /\ RepliesOwn /\ KeyInv /\ [Next]_vars => RepliesOwn' /\ KeyInv'
  BY RepliesStep, KeyStep
<1>3. KeyInv => OneOrderPerKey
  BY DEF KeyInv
<1> QED
  BY <1>1, <1>2, <1>3, TypesHold, PTL DEF Spec

=============================================================================
