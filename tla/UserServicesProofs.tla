--------------------------- MODULE UserServicesProofs ---------------------------
(***************************************************************************)
(* Theorems about UserServices, for any number of clients, accounts,       *)
(* providers, tasks and stocks, any limits of an order and any bounds: its *)
(* types, and the safety of the account, the settings, the bridge, the     *)
(* order of a worker, the history and the stream.  A behaviour follows one *)
(* part, so an invariant of a part is one about the behaviours of it.      *)
(***************************************************************************)
EXTENDS UserServices, SequenceTheorems, Extremes

-----------------------------------------------------------------------------
(***************************************************************************)
(* Which request may be at which await, and what it has filled in by then: *)
(* what TypeOK lacks to be inductive.                                      *)
(***************************************************************************)
BindLabels     == {"bind", "verify", "markVerified"}
AccountLabels  == BindLabels \cup {"resolve", "access", "peek", "deposit",
                                   "fetch", "store"}
SettingsLabels == {"readProfile", "writeProfile"}
BridgeLabels   == {"create", "check", "poll", "getRun"}
OrderLabels    == {"precheck", "place"}
NewsLabels     == {"findNews", "fillNews", "createNews"}
HistoryLabels  == {"findRow", "createRow"} \cup NewsLabels
Labels         == {"idle", "list"} \cup AccountLabels \cup SettingsLabels
                  \cup BridgeLabels \cup OrderLabels \cup HistoryLabels

AccountFits(l, r) ==
    /\ r \in AccountCall
    /\ l \in BindLabels <=> r.kind = "bind"
    /\ l = "peek" => r.kind = "look"
    /\ l = "deposit" => r.kind = "deposit"
    /\ l # "resolve" => r.uid \in Uids
    /\ l \notin {"bind", "resolve"} => r.row \in Rows
    /\ l \in {"access", "fetch", "store"} /\ r.kind = "deposit"
       => r.into \in Accounts

SettingsFits(l, r) ==
    /\ r \in SettingsCall
    /\ l = "writeProfile" => r.read \in Profile

OrderFits(l, r) ==
    /\ r \in AutoCall
    /\ Executable(r.signal)
    /\ r.quantity = Limited(r.signal) /\ r.quantity > 0

HistoryFits(l, r) ==
    /\ r \in HistoryCall
    /\ r.stocks # <<>>
    /\ l \in {"findRow", "createRow"} \/ Len(r.stocks) > 1
       => r.message \in Messages
    /\ l = "fillNews" => r.found \in NewsRow

OneEach(S) == \A e, f \in S : e.task = f.task => e = f

StreamFits(r) ==
    /\ r \in StreamCall
    /\ OneEach(r.running) /\ OneEach(r.ended)

CallFits(p, l, r) ==
    \/ l = "idle" /\ r = None
    \/ p = "accounts" /\ l \in AccountLabels /\ AccountFits(l, r)
    \/ p = "settings" /\ l \in SettingsLabels /\ SettingsFits(l, r)
    \/ p = "bridge" /\ l \in BridgeLabels /\ r \in BridgeCall
    \/ p = "orders" /\ l \in OrderLabels /\ OrderFits(l, r)
    \/ p = "history" /\ l \in HistoryLabels /\ HistoryFits(l, r)
    \/ p = "stream" /\ l = "list" /\ StreamFits(r)

AllCalls == AccountCall \cup SettingsCall \cup BridgeCall \cup AutoCall
            \cup HistoryCall \cup StreamCall

CallTypes ==
    /\ part \in AllParts
    /\ pc \in [Clients -> Labels]
    /\ req \in [Clients -> AllCalls \cup {None}]
    /\ requests \in 0 .. MaxRequests
    /\ faults \in 0 .. MaxFaults
    /\ \A c \in Clients : CallFits(part, pc[c], req[c])

(***************************************************************************)
(* The tables.  The deposits into an account and those under way are not   *)
(* more than the requests that were made.                                  *)
(***************************************************************************)
Broker   == [uid : Uids \cup {None}, live : BOOLEAN, verified : BOOLEAN,
             at : Nat]
Snapshot == [uid : Uids, funds : 0 .. MaxRequests, fresh : BOOLEAN]

Depositing == {c \in Clients : /\ pc[c] \in {"resolve", "deposit"}
                               /\ req[c].kind = "deposit"}

AccountTypes ==
    /\ account \in [Rows -> Broker]
    /\ \A r \in Live : account[r].uid \in Uids
    /\ snapshot \in [Rows -> Snapshot \cup {None}]
    /\ funds \in [Accounts -> 0 .. MaxRequests]
    /\ provisioned \subseteq Accounts
    /\ bound \in Accounts \cup {None}
    /\ shown \in [Accounts -> 0 .. MaxRequests]
    /\ rebound \cup overrun \subseteq Clients
    /\ mixed \cup late \subseteq Rows
    /\ part = "accounts" =>
          \A a \in Accounts : funds[a] + Cardinality(Depositing) <= requests

BridgeTypes == BridgeTypeOK /\ misses <= missed

NewsAreThere ==
    \A c \in Clients : pc[c] = "fillNews" => news[req[c].url] # None

HistoryTypes ==
    /\ history \in [Owners -> [Messages -> [Stocks -> Nat]]]
    /\ news \in [Urls -> NewsRow \cup {None}]
    /\ doubled \subseteq Owners \X Messages \X Stocks
    /\ raced \subseteq Clients
    /\ part = "history" => NewsAreThere

Events == {"created", "started", "failed", "completed"}

StreamTypes ==
    /\ StreamTypeOK
    /\ task \in [Tasks -> TaskRow \cup {None}]
    /\ told \in [Tasks -> Seq(Events)]
    /\ part = "stream" => ticks <= requests

TypeInv ==
    /\ CallTypes /\ AccountTypes /\ SettingsTypeOK /\ BridgeTypes /\ AutoTypeOK
    /\ HistoryTypes /\ StreamTypes /\ SessionTypeOK /\ HealthTypeOK

-----------------------------------------------------------------------------
\* The request of c comes to await l with variables x.
ComesTo(c, l, x) == Goto(c, l, x) \/ Arrive(c, l, x)

\* What the labels say of the requests.
LEMMA FitsOf ==
  ASSUME CallTypes, NEW c \in Clients
  PROVE  /\ pc[c] \in Labels
         /\ pc[c] = "idle" => req[c] = None
         /\ pc[c] \in AccountLabels =>
               part = "accounts" /\ AccountFits(pc[c], req[c])
         /\ pc[c] \in SettingsLabels =>
               part = "settings" /\ SettingsFits(pc[c], req[c])
         /\ pc[c] \in BridgeLabels => part = "bridge" /\ req[c] \in BridgeCall
         /\ pc[c] \in OrderLabels =>
               part = "orders" /\ OrderFits(pc[c], req[c])
         /\ pc[c] \in HistoryLabels =>
               part = "history" /\ HistoryFits(pc[c], req[c])
         /\ pc[c] = "list" => part = "stream" /\ StreamFits(req[c])
<1>1. CallFits(part, pc[c], req[c]) /\ pc[c] \in Labels
  BY DEF CallTypes
<1> HIDE DEF AccountFits, SettingsFits, OrderFits, HistoryFits, StreamFits
<1> QED
  BY <1>1
     DEF CallFits, AccountLabels, BindLabels, SettingsLabels, BridgeLabels,
         OrderLabels, HistoryLabels, NewsLabels

\* What CallFits says of labels and requests in general.
LEMMA FitsTyped ==
  ASSUME NEW p, NEW l, NEW r, CallFits(p, l, r)
  PROVE  /\ l \in Labels /\ r \in AllCalls \cup {None}
         /\ l = "idle" <=> r = None
<1>1. r \in AllCalls \cup {None} /\ (l # "idle" => r \in AllCalls)
  BY DEF CallFits, AccountFits, SettingsFits, OrderFits, HistoryFits, StreamFits,
             AllCalls
<1>2. l \in Labels
  BY DEF CallFits, Labels
<1>3. r = None => l = "idle"
  BY <1>1, RequestConstants DEF AllCalls
<1>4. l = "idle" => r = None
  BY DEF CallFits, AccountLabels, BindLabels, SettingsLabels, BridgeLabels,
         OrderLabels, HistoryLabels, NewsLabels
<1> QED  BY <1>1, <1>2, <1>3, <1>4

\* A handler that goes on with what fits its next await keeps the types,
LEMMA GotoTyped ==
  ASSUME CallTypes, UNCHANGED part, NEW c \in Clients, NEW l, NEW r,
         CallFits(part, l, r), ComesTo(c, l, r)
  PROVE  CallTypes'
<1>1. l \in Labels /\ r \in AllCalls \cup {None}
  BY FitsTyped
<1>2. /\ pc' = [pc EXCEPT ![c] = l] /\ req' = [req EXCEPT ![c] = r]
  BY DEF ComesTo, Goto, Arrive
<1>3. /\ pc' \in [Clients -> Labels]
      /\ req' \in [Clients -> AllCalls \cup {None}]
  BY <1>1, <1>2 DEF CallTypes
<1>4. \A d \in Clients : CallFits(part, pc'[d], req'[d])
  BY <1>2 DEF CallTypes
<1>5. requests' \in 0 .. MaxRequests /\ faults' \in 0 .. MaxFaults
  BY ApiConstants DEF CallTypes, ComesTo, Goto, Arrive
<1>6. \A d \in Clients : CallFits(part, pc[d], req[d])'
  BY <1>4 DEF CallFits, AccountFits, SettingsFits, OrderFits, HistoryFits,
                  StreamFits
<1> QED  BY <1>3, <1>5, <1>6 DEF CallTypes

\* ... one that returns comes to rest,
LEMMA FinishTyped ==
  ASSUME NEW c \in Clients, Finish(c)
  PROVE  ComesTo(c, "idle", None) /\ CallFits(part, "idle", None)
  BY DEF ComesTo, CallFits, Finish

\* ... where what it was about does not matter.
LEMMA ComesThere ==
  ASSUME CallTypes, NEW c \in Clients, NEW l, NEW x, ComesTo(c, l, x)
  PROVE  /\ pc'[c] = l /\ req'[c] = x
         /\ \A d \in Clients \ {c} : pc'[d] = pc[d] /\ req'[d] = req[d]
  BY DEF CallTypes, ComesTo, Goto, Arrive

-----------------------------------------------------------------------------
(***************************************************************************)
(* The handlers of each part keep the types.                               *)
(***************************************************************************)
\* The clients that have a deposit under way are a finite set, of which a step
\* of c changes at most the membership of c.
LEMMA DepositsMove ==
  ASSUME CallTypes, NEW c \in Clients, NEW l, NEW x, ComesTo(c, l, x)
  PROVE  /\ IsFiniteSet(Depositing) /\ Cardinality(Depositing) \in Nat
         /\ Depositing' \in {Depositing, Depositing \cup {c}, Depositing \ {c}}
         /\ c \in Depositing' <=> l \in {"resolve", "deposit"} /\ x.kind = "deposit"
         /\ Cardinality(Depositing \cup {c}) <= Cardinality(Depositing) + 1
         /\ c \in Depositing =>
               Cardinality(Depositing \ {c}) = Cardinality(Depositing) - 1
<1>1. Depositing \in SUBSET Clients
  BY DEF Depositing
<1>2. IsFiniteSet(Depositing) /\ Cardinality(Depositing) \in Nat
  BY <1>1, ApiConstants, FS_Subset, FS_CardinalityType
<1>3. /\ Depositing' \ {c} = Depositing \ {c}
      /\ c \in Depositing' <=> l \in {"resolve", "deposit"} /\ x.kind = "deposit"
  BY ComesThere DEF Depositing
<1> HIDE DEF Depositing
<1>4. Depositing' \in {Depositing, Depositing \cup {c}, Depositing \ {c}}
  <2>1. CASE c \in Depositing'
    <3>1. Depositing' = Depositing \cup {c}
      BY <1>3, <2>1
    <3> QED  BY <3>1
  <2>2. CASE c \notin Depositing'
    <3>1. Depositing' = Depositing \ {c}
      BY <1>3, <2>2
    <3> QED  BY <3>1
  <2> QED  BY <2>1, <2>2
<1>5. Cardinality(Depositing \cup {c}) <= Cardinality(Depositing) + 1
  <2>1. Cardinality(Depositing \cup {c}) =
           IF c \in Depositing THEN Cardinality(Depositing)
           ELSE Cardinality(Depositing) + 1
    BY <1>2, FS_AddElement
  <2> QED  BY <1>2, <2>1
<1>6. c \in Depositing =>
         Cardinality(Depositing \ {c}) = Cardinality(Depositing) - 1
  BY <1>2, FS_RemoveElement
<1> QED  BY <1>2, <1>3, <1>4, <1>5, <1>6

\* The deposits stay within the requests, if a step begins one only with a
\* request and makes one only by ending it.
LEMMA FundsTyped ==
  ASSUME CallTypes, AccountTypes, part = "accounts", UNCHANGED part,
         NEW c \in Clients, NEW l, NEW x, ComesTo(c, l, x),
         \/ UNCHANGED funds /\ (Arrive(c, l, x) \/ c \notin Depositing'
                                \/ c \in Depositing)
         \/ /\ Goto(c, l, x) /\ c \in Depositing /\ c \notin Depositing'
            /\ \E a \in Accounts : funds' = [funds EXCEPT ![a] = @ + 1]
  PROVE  /\ funds' \in [Accounts -> 0 .. MaxRequests]
         /\ \A a \in Accounts : funds'[a] + Cardinality(Depositing') <= requests'
<1> DEFINE n == Cardinality(Depositing)
           m == Cardinality(Depositing')
<1>1. n \in Nat /\ m \in Nat
  <2>1. Depositing' \in SUBSET Clients
    BY DEF Depositing
  <2> QED
    BY <2>1, DepositsMove, ApiConstants, FS_Subset, FS_CardinalityType
<1>2. requests \in Nat /\ requests' \in {requests, requests + 1}
  BY ApiConstants DEF CallTypes, ComesTo, Goto, Arrive
<1>3. funds \in [Accounts -> Nat] /\ \A a \in Accounts : funds[a] + n <= requests
  BY DEF AccountTypes
<1>4. requests' <= MaxRequests /\ MaxRequests \in Nat
  BY ApiConstants DEF CallTypes, ComesTo, Goto, Arrive
<1>5. CASE UNCHANGED funds /\ Arrive(c, l, x)
  <2>1. m <= n + 1
    <3>1. n \in Nat /\ (c \in Depositing => Cardinality(Depositing \ {c}) = n - 1)
      BY DepositsMove
    <3>2. c \notin Depositing => Depositing \ {c} = Depositing
      OBVIOUS
    <3>3. Cardinality(Depositing \ {c}) <= n + 1
      BY <3>1, <3>2
    <3>4. /\ Cardinality(Depositing \cup {c}) <= n + 1
          /\ Depositing' \in {Depositing, Depositing \cup {c}, Depositing \ {c}}
      BY DepositsMove
    <3> HIDE DEF Depositing
    <3> QED  BY <3>1, <3>3, <3>4
  <2>2. requests' = requests + 1
    BY <1>5 DEF Arrive
  <2> HIDE DEF n, m
  <2>3. \A a \in Accounts : funds'[a] + m <= requests'
    BY <1>1, <1>2, <1>3, <1>5, <2>1, <2>2
  <2>4. \A a \in Accounts : funds[a] <= MaxRequests
    BY <1>1, <1>2, <1>3, <1>4, <2>2
  <2> QED  BY <1>3, <1>4, <1>5, <2>3, <2>4 DEF m
<1>6. CASE UNCHANGED funds /\ (c \notin Depositing' \/ c \in Depositing)
  <2>1. m <= n
    <3>1. n \in Nat /\ (c \in Depositing => Cardinality(Depositing \ {c}) = n - 1)
      BY DepositsMove
    <3>2. CASE Depositing' = Depositing
      BY <3>1, <3>2
    <3>3. CASE Depositing' = Depositing \cup {c} /\ c \in Depositing
      <4>1. Depositing' = Depositing
        BY <3>3
      <4> QED  BY <3>1, <4>1
    <3>4. CASE Depositing' = Depositing \ {c}
      <4>1. CASE c \in Depositing
        <5>1. m = n - 1
          BY <3>1, <3>4, <4>1
        <5> QED  BY <3>1, <5>1
      <4>2. CASE c \notin Depositing
        <5>1. Depositing' = Depositing
          BY <3>4, <4>2
        <5> QED  BY <3>1, <5>1
      <4> QED  BY <4>1, <4>2
    <3> QED  BY <1>6, <3>2, <3>3, <3>4, DepositsMove
  <2> HIDE DEF n, m
  <2>2. requests' >= requests
    BY <1>2
  <2>3. \A a \in Accounts : funds'[a] + m <= requests'
    BY <1>1, <1>2, <1>3, <1>6, <2>1, <2>2
  <2>4. \A a \in Accounts : funds[a] <= MaxRequests
    BY <1>1, <1>2, <1>3, <1>4, <2>2
  <2> QED  BY <1>3, <1>4, <1>6, <2>3, <2>4 DEF m
<1>7. ASSUME NEW a \in Accounts, Goto(c, l, x), c \in Depositing,
             c \notin Depositing', funds' = [funds EXCEPT ![a] = @ + 1]
      PROVE  /\ funds' \in [Accounts -> 0 .. MaxRequests]
             /\ \A b \in Accounts : funds'[b] + m <= requests'
  <2>1. m = n - 1
    <3>1. Depositing' = Depositing \ {c}
      BY <1>7, DepositsMove
    <3> QED  BY <1>7, <3>1, DepositsMove
  <2>2. requests' = requests
    BY <1>7 DEF Goto
  <2> HIDE DEF n, m
  <2>3. \A b \in Accounts : funds'[b] \in Nat /\ funds'[b] <= funds[b] + 1
    BY <1>3, <1>7
  <2>4. \A b \in Accounts : funds'[b] + m <= requests'
    BY <1>1, <1>2, <1>3, <2>1, <2>2, <2>3
  <2>5. \A b \in Accounts : funds'[b] <= MaxRequests
    BY <1>1, <1>2, <1>4, <2>3, <2>4
  <2>6. funds' = [b \in Accounts |-> funds'[b]]
    BY <1>3, <1>7
  <2> QED  BY <1>4, <2>3, <2>4, <2>5, <2>6
<1> QED  BY <1>5, <1>6, <1>7

\* The time of a row that is written now.
LEMMA NowTyped ==
  ASSUME AccountTypes
  PROVE  Now \in Nat
<1> DEFINE at == [r \in Rows |-> account[r].at]
           S  == {0} \cup {account[r].at : r \in Rows}
<1>1. S \in SUBSET Nat /\ IsFiniteSet(S)
  <2>1. IsFiniteSet({account[r].at : r \in Rows})
    <3> DEFINE T == {account[r].at : r \in Rows}
    <3>1. at \in Surjection(Rows, T)
      BY DEF Surjection
    <3> HIDE DEF at, T
    <3>2. IsFiniteSet(T)
      BY <3>1, AccountConstants, FS_Surjection
    <3> QED  BY <3>2 DEF T
  <2>2. IsFiniteSet({0} \cup {account[r].at : r \in Rows})
    BY <2>1, FS_Singleton, FS_Union
  <2> QED  BY <2>2 DEF AccountTypes, Broker
<1>2. PICK m \in S : \A i \in S : i <= m
  <2>1. S # {}
    OBVIOUS
  <2> HIDE DEF S
  <2> QED  BY <1>1, <2>1, GreatestExists
<1>3. \E u \in S : \A r \in Rows : account[r].at <= u
  BY <1>2
<1>4. (CHOOSE u \in S : \A r \in Rows : account[r].at <= u) \in S
  BY <1>3
<1>5. Now = 1 + CHOOSE u \in S : \A r \in Rows : account[r].at <= u
  BY DEF Now
<1>6. (CHOOSE u \in S : \A r \in Rows : account[r].at <= u) \in Nat
  BY <1>1, <1>4
<1> QED  BY <1>5, <1>6

\* A bind: the row it writes, and the rows that it takes out of use.
LEMMA BoundTyped ==
  ASSUME AccountTypes, NEW r \in Rows, NEW u \in Uids,
         account' = Bound(r, u)
  PROVE  /\ account' \in [Rows -> Broker]
         /\ Live' = {r} /\ account'[r].uid = u
         /\ \A s \in Rows : ~account'[s].verified
         /\ \A s \in Rows \ {r} : account'[s].uid = account[s].uid
<1>1. Now \in Nat
  BY NowTyped
<1>2. \A s \in Rows : account[s] \in Broker
  BY DEF AccountTypes
<1> HIDE DEF Now
<1>3. \A s \in Rows :
         account'[s] = IF s = r THEN [uid |-> u, live |-> TRUE,
                                      verified |-> FALSE, at |-> Now]
                       ELSE [account[s] EXCEPT !.live = FALSE,
                                               !.verified = FALSE]
  BY DEF Bound
<1>4. \A s \in Rows : /\ account'[s] \in Broker
                      /\ account'[s].live <=> s = r
                      /\ ~account'[s].verified
                      /\ account'[s].uid = IF s = r THEN u ELSE account[s].uid
  <2> TAKE s \in Rows
  <2>1. CASE s = r
    <3>1. account'[s] = [uid |-> u, live |-> TRUE, verified |-> FALSE, at |-> Now]
      BY <1>3, <2>1
    <3> QED  BY <1>1, <2>1, <3>1 DEF Broker
  <2>2. CASE s # r
    <3>1. account'[s] = [account[s] EXCEPT !.live = FALSE, !.verified = FALSE]
      BY <1>3, <2>2
    <3>2. account[s] \in Broker
      BY <1>2
    <3> QED  BY <2>2, <3>1, <3>2 DEF Broker
  <2> QED  BY <2>1, <2>2
<1>5. account' = [s \in Rows |-> account'[s]]
  BY DEF Bound
<1>6. account' \in [Rows -> Broker]
  BY <1>4, <1>5
<1> QED  BY <1>4, <1>6 DEF Live

\* The row of a verification: marked, and nothing else of it.
LEMMA MarkedTyped ==
  ASSUME AccountTypes, NEW r \in Rows,
         account' = [account EXCEPT ![r].verified = TRUE, ![r].at = Now]
  PROVE  /\ account' \in [Rows -> Broker]
         /\ \A s \in Rows : /\ account'[s].uid = account[s].uid
                            /\ account'[s].live = account[s].live
         /\ \A s \in Rows \ {r} : account'[s] = account[s]
         /\ Live' = Live
<1>1. Now \in Nat
  BY NowTyped
<1>2. \A s \in Rows : account[s] \in Broker
  BY DEF AccountTypes
<1> HIDE DEF Now
<1>3. account' = [account EXCEPT ![r] =
                     [account[r] EXCEPT !.verified = TRUE, !.at = Now]]
  BY <1>2 DEF AccountTypes, Broker
<1>4. /\ account' \in [Rows -> Broker]
      /\ \A s \in Rows : /\ account'[s].uid = account[s].uid
                         /\ account'[s].live = account[s].live
      /\ \A s \in Rows \ {r} : account'[s] = account[s]
  <2> DEFINE b == [account[r] EXCEPT !.verified = TRUE, !.at = Now]
  <2>1. account[r] \in Broker
    BY <1>2
  <2>2. b \in Broker /\ b.uid = account[r].uid /\ b.live = account[r].live
    BY <1>1, <2>1 DEF Broker
  <2> HIDE DEF b
  <2>3. account' = [account EXCEPT ![r] = b]
    BY <1>3 DEF b
  <2> QED  BY <2>2, <2>3 DEF AccountTypes
<1> QED  BY <1>4 DEF Live

\* Most steps leave the tables as they are: they may bring a deposit under way
\* only as a request arrives.
LEMMA AccountRead ==
  ASSUME CallTypes, AccountTypes, part = "accounts", UNCHANGED part,
         NEW c \in Clients, NEW l, NEW x, ComesTo(c, l, x),
         CallFits(part, l, x),
         \/ Arrive(c, l, x) \/ l \notin {"resolve", "deposit"}
         \/ x.kind = "look" \/ c \in Depositing,
         UNCHANGED <<account, snapshot, funds, provisioned, bound, shown, mixed,
                     late>>,
         rebound' \in SUBSET Clients, overrun' \in SUBSET Clients
  PROVE  CallTypes' /\ AccountTypes'
<1>1. Arrive(c, l, x) \/ c \notin Depositing' \/ c \in Depositing
  BY DepositsMove
<1>2. /\ funds' \in [Accounts -> 0 .. MaxRequests]
      /\ \A a \in Accounts : funds'[a] + Cardinality(Depositing') <= requests'
  BY <1>1, FundsTyped
<1> HIDE DEF Depositing
<1>3. AccountTypes'
  BY <1>2 DEF AccountTypes, Live
<1> QED  BY <1>3, GotoTyped

\* Steps that write to a table and end a deposit only as they make it.
LEMMA AccountWrites ==
  ASSUME CallTypes, AccountTypes, part = "accounts", UNCHANGED part,
         NEW c \in Clients, NEW l, NEW x, ComesTo(c, l, x),
         CallFits(part, l, x), l \notin {"resolve", "deposit"},
         account' \in [Rows -> Broker],
         \A r \in Live' : account'[r].uid \in Uids,
         snapshot' \in [Rows -> Snapshot \cup {None}],
         \/ UNCHANGED funds
         \/ /\ Goto(c, l, x) /\ c \in Depositing
            /\ \E a \in Accounts : funds' = [funds EXCEPT ![a] = @ + 1],
         provisioned' \in SUBSET Accounts, bound' \in Accounts \cup {None},
         shown' \in [Accounts -> 0 .. MaxRequests],
         rebound' \in SUBSET Clients, overrun' \in SUBSET Clients,
         mixed' \in SUBSET Rows, late' \in SUBSET Rows
  PROVE  CallTypes' /\ AccountTypes'
<1>1. c \notin Depositing'
  BY DepositsMove
<1>2. /\ funds' \in [Accounts -> 0 .. MaxRequests]
      /\ \A a \in Accounts : funds'[a] + Cardinality(Depositing') <= requests'
  BY <1>1, FundsTyped
<1> HIDE DEF Depositing
<1>3. AccountTypes'
  BY <1>2 DEF AccountTypes
<1> QED  BY <1>3, GotoTyped

\* Accounts: from the request to the snapshot that is stored.
LEMMA AccountTyped ==
  ASSUME CallTypes, AccountTypes, part = "accounts", UNCHANGED part,
         NEW c \in Clients,
         BindRequest(c) \/ LookRequest(c) \/ DepositRequest(c) \/ AccountStep(c)
  PROVE  CallTypes' /\ AccountTypes'
<1> DEFINE r == req[c]
<1>1. pc[c] \in AccountLabels => AccountFits(pc[c], r) /\ r \in AccountCall
  BY FitsOf DEF AccountFits
<1>2. /\ rebound \in SUBSET Clients /\ overrun \in SUBSET Clients
      /\ mixed \in SUBSET Rows /\ late \in SUBSET Rows
  BY DEF AccountTypes
<1>3. \A l \in AccountLabels, x \in AccountCall :
         AccountFits(l, x) => CallFits(part, l, x)
  BY DEF CallFits
<1>4. \A k \in {"bind", "look", "deposit"}, u \in Uids \cup {None}, f \in BOOLEAN :
         LET x == [kind |-> k, uid |-> u, refresh |-> f, row |-> None,
                   funds |-> 0, into |-> None, level |-> 0]
         IN  x \in AccountCall /\ x.kind = k /\ x.uid = u
  BY ApiConstants DEF AccountCall
<1>5. CASE BindRequest(c)
  <2>1. PICK u \in Uids : AskAccount(c, "bind", "bind", u, FALSE)
    BY <1>5 DEF BindRequest
  <2> DEFINE x == [kind |-> "bind", uid |-> u, refresh |-> FALSE, row |-> None,
                   funds |-> 0, into |-> None, level |-> 0]
  <2>2. x \in AccountCall /\ AccountFits("bind", x)
    BY <1>4 DEF AccountFits, BindLabels
  <2>3. CallFits(part, "bind", x)
    BY <1>3, <2>2 DEF AccountLabels, BindLabels
  <2>4. Arrive(c, "bind", x) /\ UNCHANGED accountVars
    BY <2>1 DEF AskAccount
  <2> HIDE DEF x
  <2> QED  BY <1>2, <2>3, <2>4, AccountRead DEF ComesTo, accountVars
<1>6. ASSUME NEW k \in {"look", "deposit"}, NEW f \in BOOLEAN,
             AskAccount(c, "resolve", k, None, f)
      PROVE  CallTypes' /\ AccountTypes'
  <2> DEFINE x == [kind |-> k, uid |-> None, refresh |-> f, row |-> None,
                   funds |-> 0, into |-> None, level |-> 0]
  <2>1. x \in AccountCall /\ AccountFits("resolve", x)
    BY <1>4 DEF AccountFits, BindLabels
  <2>2. CallFits(part, "resolve", x)
    BY <1>3, <2>1 DEF AccountLabels, BindLabels
  <2>3. Arrive(c, "resolve", x) /\ UNCHANGED accountVars
    BY <1>6 DEF AskAccount
  <2> HIDE DEF x
  <2> QED  BY <1>2, <2>2, <2>3, AccountRead DEF ComesTo, accountVars
<1>7. CASE LookRequest(c)
  BY <1>6, <1>7 DEF LookRequest
<1>8. CASE DepositRequest(c)
  BY <1>6, <1>8 DEF DepositRequest
<1>9. CASE Bind(c)
  <2>1. PICK s \in Rows : /\ account' = Bound(s, r.uid)
                          /\ bound' = <<s, r.uid>>
                          /\ mixed' = mixed \ {s}
                          /\ Goto(c, "verify", [r EXCEPT !.row = s])
    BY <1>9 DEF Bind
  <2>2. /\ UNCHANGED <<funds, provisioned, shown, overrun, late>>
        /\ rebound' \in SUBSET Clients
    <3>1. rebound' = rebound \cup
             {d \in Clients : pc[d] \in {"verify", "markVerified"}
                              /\ req[d].row = bound'[1]}
      BY <1>9 DEF Bind
    <3> QED  BY <1>2, <1>9, <3>1 DEF Bind
  <2>3. AccountFits("bind", r) /\ r \in AccountCall
    BY <1>1, <1>9 DEF Bind, AccountLabels, BindLabels
  <2>4. /\ [r EXCEPT !.row = s] \in AccountCall
        /\ AccountFits("verify", [r EXCEPT !.row = s])
    BY <2>3 DEF AccountFits, BindLabels, AccountCall
  <2>5. r.uid \in Uids
    BY <2>3 DEF AccountFits
  <2>6. /\ account' \in [Rows -> Broker]
        /\ \A q \in Live' : account'[q].uid \in Uids
    BY <2>1, <2>5, BoundTyped
  <2>7. snapshot' \in [Rows -> Snapshot \cup {None}]
    <3>1. PICK q : snapshot' = [p \in Rows |-> IF p \in Live \ {q} THEN None
                                               ELSE snapshot[p]]
      BY <1>9 DEF Bind
    <3> HIDE DEF Live
    <3> QED  BY <3>1 DEF AccountTypes
  <2>8. bound' \in Accounts /\ mixed' \in SUBSET Rows
    BY <1>2, <2>1, <2>5 DEF Accounts
  <2>9. CallFits(part, "verify", [r EXCEPT !.row = s])
    BY <1>3, <2>4 DEF AccountLabels, BindLabels
  <2>10. /\ provisioned' \in SUBSET Accounts /\ late' \in SUBSET Rows
         /\ shown' \in [Accounts -> 0 .. MaxRequests]
         /\ overrun' \in SUBSET Clients
    BY <1>2, <2>2 DEF AccountTypes
  <2>11. ComesTo(c, "verify", [r EXCEPT !.row = s]) /\ UNCHANGED funds
    BY <2>1, <2>2 DEF ComesTo
  <2> QED
    BY <2>2, <2>6, <2>7, <2>8, <2>9, <2>10, <2>11, AccountWrites
<1>10. CASE BindRefused(c)
  BY <1>2, <1>10, FinishTyped, AccountRead DEF BindRefused, accountVars
<1>11. CASE Verify(c)
  <2>1. AccountFits("verify", r) /\ r \in AccountCall
    BY <1>1, <1>11 DEF Verify, AccountLabels, BindLabels
  <2>2. AccountFits("markVerified", r)
    BY <2>1 DEF AccountFits, BindLabels
  <2>3. provisioned' \in SUBSET Accounts
    BY <1>11, <2>1 DEF Verify, AccountFits, AccountTypes, Accounts
  <2>4. CallFits(part, "markVerified", r)
    BY <1>3, <2>1, <2>2 DEF AccountLabels, BindLabels
  <2>5. /\ ComesTo(c, "markVerified", r)
        /\ UNCHANGED <<account, snapshot, funds, bound, shown, rebound, mixed,
                       overrun, late>>
    BY <1>11 DEF ComesTo, Verify
  <2>6. /\ account' \in [Rows -> Broker]
        /\ \A q \in Live' : account'[q].uid \in Uids
        /\ snapshot' \in [Rows -> Snapshot \cup {None}]
        /\ bound' \in Accounts \cup {None}
        /\ shown' \in [Accounts -> 0 .. MaxRequests]
    BY <2>5 DEF AccountTypes, Live
  <2> QED  BY <1>2, <2>3, <2>4, <2>5, <2>6, AccountWrites
<1>12. CASE MarkVerified(c)
  <2>1. r.row \in Rows
    BY <1>1, <1>12 DEF MarkVerified, AccountLabels, BindLabels, AccountFits
  <2>2. /\ account' \in [Rows -> Broker]
        /\ \A q \in Live' : account'[q].uid \in Uids
    BY <1>12, <2>1, MarkedTyped DEF MarkVerified, AccountTypes, Live
  <2>3. mixed' \in SUBSET Rows /\ rebound' \in SUBSET Clients
    BY <1>2, <1>12, <2>1 DEF MarkVerified
  <2>4. UNCHANGED <<snapshot, funds, provisioned, bound, shown, overrun, late>>
    BY <1>12 DEF MarkVerified
  <2>5. /\ snapshot' \in [Rows -> Snapshot \cup {None}]
        /\ bound' \in Accounts \cup {None}
        /\ shown' \in [Accounts -> 0 .. MaxRequests]
        /\ provisioned' \in SUBSET Accounts
    BY <2>4 DEF AccountTypes
  <2>6. ComesTo(c, "idle", None) /\ CallFits(part, "idle", None)
    BY <1>12, FinishTyped DEF MarkVerified
  <2> QED  BY <1>2, <2>2, <2>3, <2>4, <2>5, <2>6, AccountWrites
<1>13. CASE Resolve(c)
  <2>1. PICK s \in Rows :
           /\ s \in Live
           /\ Goto(c, IF pc[c] = "access" THEN "fetch"
                      ELSE IF r.kind = "deposit" THEN "deposit" ELSE "peek",
                   [r EXCEPT !.row = s, !.uid = account[s].uid])
    BY <1>13 DEF Resolve, Resolved
  <2> DEFINE x == [r EXCEPT !.row = s, !.uid = account[s].uid]
             l == IF pc[c] = "access" THEN "fetch"
                  ELSE IF r.kind = "deposit" THEN "deposit" ELSE "peek"
  <2>2. account[s].uid \in Uids
    BY <2>1 DEF AccountTypes
  <2>3. /\ r \in AccountCall /\ AccountFits(pc[c], r)
        /\ pc[c] \in {"resolve", "access"}
    BY <1>1, <1>13 DEF Resolve, AccountLabels
  <2>4. /\ x \in AccountCall /\ x.row = s /\ x.uid = account[s].uid
        /\ x.kind = r.kind /\ x.into = r.into
    BY <2>2, <2>3 DEF AccountCall
  <2>5. AccountFits(l, x)
    <3>1. r.kind \in {"look", "deposit"}
      BY <2>3 DEF AccountFits, BindLabels, AccountCall
    <3>2. CASE pc[c] = "access"
      <4>1. r.kind = "deposit" => r.into \in Accounts
        BY <2>3, <3>2 DEF AccountFits
      <4> HIDE DEF x
      <4> QED  BY <2>2, <2>4, <3>1, <3>2, <4>1 DEF AccountFits, BindLabels
    <3>3. CASE pc[c] = "resolve"
      <4> HIDE DEF x
      <4> QED  BY <2>2, <2>4, <3>1, <3>3 DEF AccountFits, BindLabels
    <3> QED  BY <2>3, <3>2, <3>3
  <2>6. CallFits(part, l, x)
    BY <1>3, <2>4, <2>5 DEF AccountLabels, BindLabels
  <2>7. l = "deposit" => c \in Depositing
    BY <2>3 DEF Depositing
  <2>8. ComesTo(c, l, x) /\ UNCHANGED accountVars /\ l # "resolve"
    BY <1>13, <2>1 DEF ComesTo, Resolve
  <2> HIDE DEF l, x
  <2> QED  BY <1>2, <2>6, <2>7, <2>8, AccountRead DEF accountVars
<1>14. CASE AccountRequired(c)
  BY <1>2, <1>14, FinishTyped, AccountRead DEF AccountRequired, accountVars
<1>15. CASE Peek(c)
  <2>1. AccountFits("peek", r) /\ r \in AccountCall
    BY <1>1, <1>15 DEF Peek, AccountLabels
  <2>2. AccountFits("access", r)
    BY <2>1 DEF AccountFits, BindLabels
  <2>3. CallFits(part, "access", r)
    BY <1>3, <2>1, <2>2 DEF AccountLabels
  <2>4. UNCHANGED accountVars /\ (Finish(c) \/ Goto(c, "access", r))
    BY <1>15 DEF Peek
  <2> QED
    BY <1>2, <2>3, <2>4, FinishTyped, AccountRead DEF ComesTo, accountVars
<1>16. CASE Deposit(c)
  <2> DEFINE a == <<r.row, r.uid>>
             x == [r EXCEPT !.into = a, !.level = funds[a] + 1]
  <2>1. AccountFits("deposit", r) /\ r \in AccountCall
    BY <1>1, <1>16 DEF Deposit, AccountLabels
  <2>2. a \in Accounts /\ r.kind = "deposit"
    BY <2>1 DEF AccountFits, BindLabels, Accounts
  <2>3. c \in Depositing
    BY <1>16, <2>2 DEF Deposit, Depositing
  <2>4. funds[a] + 1 \in 0 .. MaxRequests
    <3>1. Cardinality(Depositing) >= 1
      <4>1. /\ IsFiniteSet(Depositing) /\ Cardinality(Depositing) \in Nat
            /\ Cardinality(Depositing \ {c}) = Cardinality(Depositing) - 1
        <5>1. ComesTo(c, "access", x)
          BY <1>16 DEF Deposit, ComesTo
        <5> QED  BY <2>3, <5>1, DepositsMove
      <4>2. Depositing \ {c} \in SUBSET Depositing
        OBVIOUS
      <4>3. Cardinality(Depositing \ {c}) \in Nat
        BY <4>1, <4>2, FS_Subset, FS_CardinalityType
      <4> QED  BY <4>1, <4>3
    <3>2. Cardinality(Depositing) \in Nat
      <4>1. ComesTo(c, "access", x)
        BY <1>16 DEF Deposit, ComesTo
      <4> QED  BY <4>1, DepositsMove
    <3>3. /\ funds[a] \in Nat /\ requests \in Nat /\ requests <= MaxRequests
          /\ MaxRequests \in Nat /\ funds[a] + Cardinality(Depositing) <= requests
      BY <2>2, ApiConstants DEF AccountTypes, CallTypes
    <3> HIDE DEF a, Depositing
    <3> QED  BY <3>1, <3>2, <3>3
  <2>5. /\ x \in AccountCall /\ x.kind = "deposit" /\ x.into = a
        /\ x.row = r.row /\ x.uid = r.uid
    BY <2>1, <2>2, <2>4 DEF AccountCall
  <2>6. AccountFits("access", x)
    <3> HIDE DEF x, a
    <3> QED  BY <2>1, <2>2, <2>5 DEF AccountFits, BindLabels
  <2>7. CallFits(part, "access", x)
    BY <1>3, <2>5, <2>6 DEF AccountLabels
  <2>8. /\ Goto(c, "access", x) /\ funds' = [funds EXCEPT ![a] = @ + 1]
        /\ UNCHANGED <<account, snapshot, provisioned, bound, shown, rebound,
                       mixed, overrun, late>>
    BY <1>16 DEF Deposit
  <2>9. /\ account' \in [Rows -> Broker]
        /\ \A q \in Live' : account'[q].uid \in Uids
        /\ snapshot' \in [Rows -> Snapshot \cup {None}]
        /\ bound' \in Accounts \cup {None}
        /\ shown' \in [Accounts -> 0 .. MaxRequests]
        /\ provisioned' \in SUBSET Accounts
    BY <2>8 DEF AccountTypes, Live
  <2> HIDE DEF x, a
  <2> QED
    BY <1>2, <2>2, <2>3, <2>7, <2>8, <2>9, AccountWrites DEF ComesTo
<1>17. CASE Fetch(c)
  <2> DEFINE a == <<r.row, r.uid>>
             x == [r EXCEPT !.funds = funds[a]]
  <2>1. AccountFits("fetch", r) /\ r \in AccountCall
    BY <1>1, <1>17 DEF Fetch, AccountLabels
  <2>2. funds[a] \in 0 .. MaxRequests
    BY <2>1 DEF AccountFits, BindLabels, Accounts, AccountTypes
  <2>3. /\ x \in AccountCall /\ x.kind = r.kind /\ x.into = r.into
        /\ x.row = r.row /\ x.uid = r.uid
    BY <2>1, <2>2 DEF AccountCall
  <2>4. AccountFits("store", x)
    <3> HIDE DEF x, a
    <3> QED  BY <2>1, <2>3 DEF AccountFits, BindLabels
  <2>5. CallFits(part, "store", x)
    BY <1>3, <2>3, <2>4 DEF AccountLabels
  <2>6. /\ ComesTo(c, "store", x)
        /\ overrun' = overrun \ {c}
        /\ UNCHANGED <<account, snapshot, funds, provisioned, bound, shown,
                       rebound, mixed, late>>
    BY <1>17 DEF Fetch, ComesTo
  <2> HIDE DEF x, a
  <2> QED  BY <1>2, <2>5, <2>6, AccountRead
<1>18. CASE Store(c)
  <2>1. AccountFits("store", r) /\ r \in AccountCall
    BY <1>1, <1>18 DEF Store, AccountLabels
  <2>2. Cached(c) \in Snapshot
    BY <2>1 DEF Cached, Snapshot, AccountFits, BindLabels, AccountCall
  <2>3. snapshot' \in [Rows -> Snapshot \cup {None}]
    BY <1>18, <2>2 DEF Store, AccountTypes
  <2>4. shown' \in [Accounts -> 0 .. MaxRequests]
    <3>1. r.level \in 0 .. MaxRequests
      BY <2>1 DEF AccountCall
    <3> QED  BY <1>18, <3>1 DEF Store, Told, AccountTypes
  <2>5. late' \in SUBSET Rows /\ overrun' \in SUBSET Clients
    BY <1>2, <1>18, <2>1 DEF Store, AccountFits, BindLabels
  <2>6. UNCHANGED <<account, funds, provisioned, bound, rebound, mixed>>
    BY <1>18 DEF Store
  <2>7. /\ account' \in [Rows -> Broker]
        /\ \A q \in Live' : account'[q].uid \in Uids
        /\ bound' \in Accounts \cup {None}
        /\ provisioned' \in SUBSET Accounts
    BY <2>6 DEF AccountTypes, Live
  <2>8. ComesTo(c, "idle", None) /\ CallFits(part, "idle", None)
    BY <1>18, FinishTyped DEF Store
  <2> QED
    BY <1>2, <2>3, <2>4, <2>5, <2>6, <2>7, <2>8, AccountWrites
<1> QED
  BY <1>5, <1>7, <1>8, <1>9, <1>10, <1>11, <1>12, <1>13, <1>14, <1>15, <1>16,
     <1>17, <1>18 DEF AccountStep

\* Settings: what is read before an edit, and what is written after it.
LEMMA SettingsTyped ==
  ASSUME CallTypes, SettingsTypeOK, part = "settings", UNCHANGED part,
         NEW c \in Clients, SettingsRequest(c) \/ SettingsStep(c)
  PROVE  CallTypes' /\ SettingsTypeOK'
<1> DEFINE r == req[c]
<1>1. pc[c] \in SettingsLabels => SettingsFits(pc[c], r) /\ r \in SettingsCall
  BY FitsOf DEF SettingsFits
<1>2. \A l \in SettingsLabels, x \in SettingsCall :
         SettingsFits(l, x) => CallFits(part, l, x)
  BY DEF CallFits
<1>3. CASE SettingsRequest(c)
  <2>0. \E e \in Providers \cup {None}, p \in Supported \cup {None},
           t \in ApiTokens :
           Arrive(c, "readProfile", [kind |-> "settings", provider |-> p,
                                     apiToken |-> t, echo |-> e, read |-> None])
    <3>1. profile.token \in Providers \cup {None}
      BY DEF SettingsTypeOK, Profile
    <3>2. \A t \in ApiTokens : (IF t = "echoed" THEN profile.token ELSE None)
                                 \in Providers \cup {None}
      BY <3>1
    <3> QED  BY <1>3, <3>2 DEF SettingsRequest
  <2>1. PICK e \in Providers \cup {None}, p \in Supported \cup {None},
             t \in ApiTokens :
           Arrive(c, "readProfile", [kind |-> "settings", provider |-> p,
                                     apiToken |-> t, echo |-> e, read |-> None])
    BY <2>0
  <2> DEFINE x == [kind |-> "settings", provider |-> p, apiToken |-> t,
                   echo |-> e, read |-> None]
  <2>2. x \in SettingsCall /\ SettingsFits("readProfile", x)
    BY DEF SettingsCall, SettingsFits
  <2>3. CallFits(part, "readProfile", x)
    BY <1>2, <2>2 DEF SettingsLabels
  <2>4. UNCHANGED settingsVars
    BY <1>3 DEF SettingsRequest
  <2> HIDE DEF x
  <2>5. ComesTo(c, "readProfile", x)
    BY <2>1 DEF ComesTo, x
  <2> QED
    BY <2>3, <2>4, <2>5, GotoTyped DEF settingsVars, SettingsTypeOK
<1>4. CASE ReadProfile(c)
  <2>1. r \in SettingsCall /\ profile \in Profile
    BY <1>1, <1>4 DEF ReadProfile, SettingsLabels, SettingsTypeOK
  <2> DEFINE x == [r EXCEPT !.read = profile]
  <2>2. x \in SettingsCall /\ SettingsFits("writeProfile", x)
    BY <2>1 DEF SettingsCall, SettingsFits
  <2>3. CallFits(part, "writeProfile", x)
    BY <1>2, <2>2 DEF SettingsLabels
  <2>4. ComesTo(c, "writeProfile", x)
    BY <1>4 DEF ReadProfile, ComesTo
  <2>5. SettingsTypeOK'
    BY <1>4 DEF ReadProfile, SettingsTypeOK
  <2> HIDE DEF x
  <2> QED  BY <2>3, <2>4, <2>5, GotoTyped
<1>5. CASE WriteProfile(c)
  <2>1. /\ r \in SettingsCall /\ r.read \in Profile /\ profile \in Profile
        /\ r.provider \in Supported \cup {None}
        /\ r.echo \in Providers \cup {None}
    BY <1>1, <1>5 DEF WriteProfile, SettingsLabels, SettingsFits, SettingsTypeOK,
                      SettingsCall
  <2>2. \A p \in Providers : Chosen(r, p) \in Providers
    BY <2>1, SettingsConstants DEF Chosen
  <2>3. Edited(r) \in Profile
    <3>1. /\ profile.provider \in Providers /\ r.read.provider \in Providers
          /\ profile.token \in Providers \cup {None}
      BY <2>1 DEF Profile
    <3>2. /\ Chosen(r, profile.provider) \in Providers
          /\ Chosen(r, r.read.provider) \in Providers
      BY <2>2, <3>1
    <3>3. r.echo \in Providers \cup {None}
      BY <2>1
    <3> HIDE DEF r
    <3> QED  BY <3>1, <3>2, <3>3 DEF Edited, Profile
  <2>4. SettingsTypeOK'
    BY <1>5, <2>3 DEF WriteProfile, SettingsTypeOK
  <2>5. Finish(c)
    BY <1>5 DEF WriteProfile
  <2> QED  BY <2>4, <2>5, FinishTyped, GotoTyped
<1>6. CASE RefuseProfile(c)
  <2>1. SettingsTypeOK' /\ Finish(c)
    BY <1>6 DEF RefuseProfile, SettingsTypeOK
  <2> QED  BY <2>1, FinishTyped, GotoTyped
<1> QED  BY <1>3, <1>4, <1>5, <1>6 DEF SettingsStep

\* The bridge: what the Agent is asked, and how an analysis ends.
LEMMA BridgeTyped ==
  ASSUME CallTypes, BridgeTypes, part = "bridge", UNCHANGED part,
         NEW c \in Clients, BridgeRequest(c) \/ BridgeStep(c)
  PROVE  CallTypes' /\ BridgeTypes'
<1> DEFINE r == req[c]
           Task == [status : {None, "processing", "completed", "failed"},
                    run : BOOLEAN]
<1>1. pc[c] \in BridgeLabels => r \in BridgeCall
  BY FitsOf
<1>2. \A l \in BridgeLabels, x \in BridgeCall : CallFits(part, l, x)
  BY DEF CallFits
<1>3. ASSUME NEW l \in BridgeLabels, NEW x \in BridgeCall,
             Goto(c, l, x) \/ Arrive(c, l, x)
      PROVE  CallTypes'
  BY <1>2, <1>3, GotoTyped DEF ComesTo
<1>4. Finish(c) => CallTypes'
  BY FinishTyped, GotoTyped
<1>5. /\ misses \in Nat /\ missed \in Nat /\ misses <= missed
      /\ missed <= MaxMisses /\ MaxMisses \in Nat
      /\ agentTask \in Task /\ overdue \in BOOLEAN
      /\ verdict \in Verdicts \cup {None}
  BY BridgeConstants DEF BridgeTypes, BridgeTypeOK
<1>6. ASSUME agentTask' \in Task, overdue' \in BOOLEAN,
             verdict' \in Verdicts \cup {None},
             Answered \/ Misses \/ UNCHANGED <<misses, missed>>
      PROVE  BridgeTypes'
  <2>1. /\ misses' \in Nat /\ missed' \in Nat /\ misses' <= missed'
        /\ missed' <= MaxMisses
    BY <1>5, <1>6 DEF Answered, Misses
  <2> QED  BY <1>5, <1>6, <2>1 DEF BridgeTypes, BridgeTypeOK
<1>7. CASE BridgeRequest(c)
  <2>1. [kind |-> "bridge", errors |-> 0, attempt |-> 1] \in BridgeCall
    BY DEF BridgeCall
  <2>2. CallTypes'
    BY <1>3, <1>7, <2>1 DEF BridgeRequest, BridgeLabels
  <2>3. agentTask' \in Task /\ overdue' \in BOOLEAN /\ verdict' = None
    BY <1>7 DEF BridgeRequest, NoAgentTask
  <2>4. misses' = 0 /\ missed' = missed
    BY <1>7 DEF BridgeRequest
  <2> QED
    BY <1>5, <2>2, <2>3, <2>4 DEF BridgeTypes, BridgeTypeOK
<1>8. ASSUME NEW t \in Task, Follow(c, t), r \in BridgeCall
      PROVE  CallTypes' /\ verdict' \in Verdicts \cup {None}
  <2>1. CASE \E v \in Verdicts : Ends(c, v)
    BY <1>4, <2>1 DEF Ends
  <2>2. CASE On(c, "getRun", r) \/ On(c, "poll", r)
    BY <1>3, <1>5, <1>8, <2>2 DEF On, BridgeLabels
  <2> QED  BY <1>8, <2>1, <2>2 DEF Follow, Verdicts
<1>9. CASE CreateRunAsync(c)
  <2>1. r \in BridgeCall
    BY <1>1, <1>9 DEF CreateRunAsync, BridgeLabels
  <2>2. CASE Follow(c, agentTask') /\ Answered
             /\ agentTask' \in [status : {"processing", "failed"}, run : {FALSE}]
                               \cup [status : {"completed"}, run : BOOLEAN]
    <3>1. agentTask' \in Task
      BY <2>2
    <3>2. overdue' = overdue
      BY <1>9 DEF CreateRunAsync
    <3> QED  BY <1>5, <1>6, <1>8, <2>1, <2>2, <3>1, <3>2
  <2>3. CASE \E v \in Verdicts : /\ Ends(c, v) /\ UNCHANGED <<agentTask, overdue>>
                                 /\ Answered \/ Misses
    BY <1>4, <1>5, <1>6, <2>3 DEF Ends
  <2> QED  BY <1>9, <2>2, <2>3 DEF CreateRunAsync, Verdicts
<1>10. CASE CheckTime(c)
  <2>1. r \in BridgeCall /\ UNCHANGED <<agentTask, overdue, misses, missed>>
    BY <1>1, <1>10 DEF CheckTime, BridgeLabels
  <2>2. Ends(c, "agent_poll_timeout") \/ On(c, "poll", r)
    BY <1>10 DEF CheckTime
  <2>3. CallTypes' /\ verdict' \in Verdicts \cup {None}
    BY <1>3, <1>4, <1>5, <2>1, <2>2 DEF Ends, On, Verdicts, BridgeLabels
  <2> QED  BY <1>5, <1>6, <2>1, <2>3
<1>11. CASE Poll(c)
  <2>1. r \in BridgeCall /\ UNCHANGED <<agentTask, overdue>> /\ Answered
    BY <1>1, <1>11 DEF Poll, BridgeLabels
  <2>2. AfterAnswer(r) \in BridgeCall
    BY <2>1 DEF AfterAnswer, BridgeCall
  <2>3. On(c, "check", AfterAnswer(r)) \/ Follow(c, agentTask)
    <3>1. CASE agentTask.status = "processing"
      BY <1>11, <3>1 DEF Poll
    <3>2. CASE agentTask.status # "processing"
      BY <1>11, <3>2 DEF Poll
    <3> QED  BY <3>1, <3>2
  <2>4. CallTypes' /\ verdict' \in Verdicts \cup {None}
    BY <1>3, <1>5, <1>8, <2>1, <2>2, <2>3 DEF On, BridgeLabels
  <2> QED  BY <1>5, <1>6, <2>1, <2>4
<1>12. CASE PollFails(c)
  <2>1. r \in BridgeCall /\ UNCHANGED <<agentTask, overdue>> /\ Misses
    BY <1>1, <1>12 DEF PollFails, BridgeLabels
  <2>2. [r EXCEPT !.errors = @ + 1] \in BridgeCall
    BY <2>1 DEF BridgeCall
  <2>3. \/ \E v \in Verdicts : Ends(c, v)
        \/ On(c, "check", [r EXCEPT !.errors = @ + 1])
    BY <1>12 DEF PollFails, Verdicts
  <2>4. CallTypes' /\ verdict' \in Verdicts \cup {None}
    BY <1>3, <1>4, <1>5, <2>2, <2>3 DEF Ends, On, BridgeLabels
  <2> QED  BY <1>5, <1>6, <2>1, <2>4
<1>13. CASE GetRun(c)
  <2>1. UNCHANGED <<agentTask, overdue>> /\ Answered /\ Ends(c, "run")
    BY <1>13 DEF GetRun
  <2> QED  BY <1>4, <1>5, <1>6, <2>1 DEF Ends, Verdicts
<1>14. CASE GetRunFails(c)
  <2>1. r \in BridgeCall /\ UNCHANGED <<agentTask, overdue>> /\ Misses
    BY <1>1, <1>14 DEF GetRunFails, BridgeLabels
  <2>2. [r EXCEPT !.attempt = @ + 1] \in BridgeCall
    BY <2>1 DEF BridgeCall
  <2>3. \/ \E v \in Verdicts : Ends(c, v)
        \/ On(c, "getRun", [r EXCEPT !.attempt = @ + 1])
    BY <1>14 DEF GetRunFails, Verdicts
  <2>4. CallTypes' /\ verdict' \in Verdicts \cup {None}
    BY <1>3, <1>4, <1>5, <2>2, <2>3 DEF Ends, On, BridgeLabels
  <2> QED  BY <1>5, <1>6, <2>1, <2>4
<1> QED
  BY <1>7, <1>9, <1>10, <1>11, <1>12, <1>13, <1>14 DEF BridgeStep

-----------------------------------------------------------------------------
\* More of the same thing is not worth less.
LEMMA TimesGrows ==
  ASSUME NEW a \in Nat, NEW b \in Nat, NEW p \in Nat, a <= b
  PROVE  a * p <= b * p
<1>1. PICK d \in Nat : b = a + d
  <2>1. b - a \in Nat /\ b = a + (b - a)
    OBVIOUS
  <2> QED  BY <2>1
<1>2. b * p = a * p + d * p
  BY <1>1
<1>3. d * p \in Nat /\ a * p \in Nat
  OBVIOUS
<1> QED  BY <1>2, <1>3

\* The quotient is how often the divisor fits.
LEMMA QuotientFits ==
  ASSUME NEW m \in Nat, NEW p \in Nat, p > 0
  PROVE  /\ m \div p \in Nat
         /\ (m \div p) * p <= m
         /\ m < ((m \div p) + 1) * p
<1>1. m \div p \in Nat /\ m % p \in Nat /\ m % p < p
  OBVIOUS
<1>2. m = p * (m \div p) + (m % p)
  OBVIOUS
<1> DEFINE q == m \div p
<1> HIDE DEF q
<1>3. q \in Nat
  BY <1>1 DEF q
<1>4. q * p = p * q /\ (q + 1) * p = q * p + p
  BY <1>3
<1> QED  BY <1>1, <1>2, <1>4 DEF q

\* The limits of an order: it is within all three, and the next is not.
LEMMA LimitedIsLargest ==
  ASSUME NEW s \in Signal, s.price > 0
  PROVE  LET n == Limited(s)
             Within(k) == /\ k <= s.wanted /\ k <= MaxQty
                          /\ k * s.price <= MaxNotional
         IN  n \in Nat /\ Within(n) /\ ~Within(n + 1)
<1> DEFINE q == MaxNotional \div s.price
           S == {s.wanted, MaxQty, q}
           n == Limited(s)
<1>1. s.wanted \in Nat /\ s.price \in Nat /\ MaxQty \in Nat /\ MaxNotional \in Nat
  BY AutoOrderConstants DEF Signal
<1>2. q \in Nat /\ q * s.price <= MaxNotional /\ MaxNotional < (q + 1) * s.price
  BY <1>1, QuotientFits
<1>3. S \in SUBSET Nat /\ S # {}
  BY <1>1, <1>2
<1>4. \E k \in S : \A i \in S : k <= i
  BY <1>3, LeastExists
<1>5. n = CHOOSE k \in S : \A i \in S : k <= i
  BY DEF Limited, Least
<1> HIDE DEF S, n, q
<1>6. n \in S /\ \A i \in S : n <= i
  BY <1>4, <1>5
<1>7. n \in {s.wanted, MaxQty, q} /\ n <= s.wanted /\ n <= MaxQty /\ n <= q
  BY <1>6 DEF S
<1>8. n \in Nat
  BY <1>3, <1>6
<1>9. n * s.price <= MaxNotional
  <2>1. n * s.price <= q * s.price
    BY <1>1, <1>2, <1>7, <1>8, TimesGrows
  <2>2. n * s.price \in Nat /\ q * s.price \in Nat
    BY <1>1, <1>2, <1>8
  <2> HIDE DEF n
  <2> QED  BY <1>1, <1>2, <2>1, <2>2
<1>10. CASE n = q
  BY <1>1, <1>2, <1>7, <1>8, <1>9, <1>10 DEF n
<1>11. CASE n \in {s.wanted, MaxQty}
  BY <1>1, <1>7, <1>8, <1>9, <1>11 DEF n
<1> QED  BY <1>7, <1>10, <1>11

\* The smaller of two.
LEMMA LeastOfTwo ==
  ASSUME NEW a \in Nat, NEW b \in Nat
  PROVE  Least({a, b}) \in Nat /\ Least({a, b}) <= a
<1>1. {a, b} \in SUBSET Nat /\ {a, b} # {}
  OBVIOUS
<1>2. \E k \in {a, b} : \A i \in {a, b} : k <= i
  BY <1>1, LeastExists
<1>3. Least({a, b}) \in {a, b} /\ \A i \in {a, b} : Least({a, b}) <= i
  BY <1>2 DEF Least
<1> HIDE DEF Least
<1> QED  BY <1>3

\* What an order that is carried out leaves of an account that affords it.
LEMMA TradedTyped ==
  ASSUME NEW h \in Holding, NEW s \in Signal, NEW n \in Nat, Affords(h, s, n)
  PROVE  Traded(h, s, n) \in Holding
<1>1. /\ h.cash \in Nat /\ h.held \in Nat /\ h.cash <= MaxCash
      /\ h.held <= MaxHeld /\ MaxCash \in Nat /\ MaxHeld \in Nat
      /\ s.price \in Nat /\ Margin \in Nat
  BY AutoOrderConstants DEF Holding, Signal
<1>2. CASE s.action = "buy"
  <2> DEFINE cost == Cost(s.price, n)
             k == Least({MaxHeld, h.held + n})
  <2>1. cost \in Nat /\ h.cash * 100 >= cost
    <3>1. s.price * n \in Nat /\ 100 + Margin \in Nat
      BY <1>1
    <3>2. cost \in Nat
      BY <3>1 DEF Cost
    <3> QED  BY <1>2, <3>2 DEF Affords
  <2>2. k \in Nat /\ k <= MaxHeld
    BY <1>1, LeastOfTwo
  <2>3. Traded(h, s, n) = [cash |-> h.cash - (cost + 99) \div 100, held |-> k]
    BY <1>2 DEF Traded
  <2> HIDE DEF cost, k
  <2>4. (cost + 99) \div 100 \in Nat /\ (cost + 99) \div 100 <= h.cash
    BY <1>1, <2>1
  <2>5. h.cash - (cost + 99) \div 100 \in 0 .. MaxCash
    BY <1>1, <2>4
  <2> QED  BY <1>1, <2>2, <2>3, <2>5 DEF Holding
<1>3. CASE s.action # "buy"
  <2> DEFINE k == Least({MaxCash, h.cash + s.price * n})
  <2>1. s.price * n \in Nat
    BY <1>1
  <2>2. k \in Nat /\ k <= MaxCash
    BY <1>1, <2>1, LeastOfTwo
  <2>3. Traded(h, s, n) = [cash |-> k, held |-> h.held - n]
    BY <1>3 DEF Traded
  <2>4. h.held - n \in 0 .. MaxHeld
    BY <1>1, <1>3 DEF Affords
  <2> HIDE DEF k
  <2> QED  BY <1>1, <2>2, <2>3, <2>4 DEF Holding
<1> QED  BY <1>2, <1>3

\* Orders of workers: the signal, the look at the account, the order.
LEMMA OrderTyped ==
  ASSUME CallTypes, AutoTypeOK, part = "orders", UNCHANGED part,
         NEW c \in Clients, AutoRequest(c) \/ AutoStep(c)
  PROVE  CallTypes' /\ AutoTypeOK'
<1> DEFINE r == req[c]
<1>1. pc[c] \in OrderLabels => OrderFits(pc[c], r)
  BY FitsOf
<1>2. \A l \in OrderLabels, x \in AutoCall :
         OrderFits(l, x) => CallFits(part, l, x)
  BY DEF CallFits
<1>3. CASE AutoRequest(c)
  <2>1. PICK s \in Signal :
           /\ Executable(s) /\ Limited(s) > 0
           /\ Arrive(c, "precheck", [kind |-> "auto", signal |-> s,
                                     quantity |-> Limited(s)])
    BY <1>3 DEF AutoRequest
  <2> DEFINE x == [kind |-> "auto", signal |-> s, quantity |-> Limited(s)]
  <2>2. Limited(s) \in Nat
    BY <2>1, LimitedIsLargest DEF Executable
  <2>3. x \in AutoCall /\ x.signal = s /\ x.quantity = Limited(s)
    BY <2>2 DEF AutoCall
  <2>4. ComesTo(c, "precheck", x)
    BY <2>1 DEF ComesTo
  <2> HIDE DEF x
  <2>5. OrderFits("precheck", x)
    BY <2>1, <2>3 DEF OrderFits
  <2>6. CallFits(part, "precheck", x)
    BY <1>2, <2>3, <2>5 DEF OrderLabels
  <2>7. AutoTypeOK'
    BY <1>3 DEF AutoRequest, autoVars, AutoTypeOK
  <2> QED  BY <2>4, <2>6, <2>7, GotoTyped
<1>4. CASE Precheck(c)
  <2>1. OrderFits("precheck", r)
    BY <1>1, <1>4 DEF Precheck, OrderLabels
  <2>2. CallFits(part, "place", r)
    BY <1>2, <2>1 DEF OrderFits, OrderLabels
  <2>3. AutoTypeOK'
    BY <1>4 DEF Precheck, AutoTypeOK
  <2>4. Finish(c) \/ Goto(c, "place", r)
    BY <1>4 DEF Precheck
  <2> QED  BY <2>2, <2>3, <2>4, FinishTyped, GotoTyped DEF ComesTo
<1>5. CASE Place(c)
  <2>1. r.signal \in Signal /\ r.quantity \in Nat
    BY <1>1, <1>5 DEF Place, OrderLabels, OrderFits, AutoCall
  <2>2. holding' \in Holding
    <3>1. CASE Affords(holding, r.signal, r.quantity)
      <4>1. holding' = Traded(holding, r.signal, r.quantity)
        BY <1>5, <3>1 DEF Place
      <4> QED  BY <2>1, <3>1, <4>1, TradedTyped DEF AutoTypeOK
    <3>2. CASE ~Affords(holding, r.signal, r.quantity)
      BY <1>5, <3>2 DEF Place, AutoTypeOK
    <3> QED  BY <3>1, <3>2
  <2>3. drained' \subseteq Clients
    BY <1>5 DEF Place, AutoTypeOK
  <2>4. Finish(c)
    BY <1>5 DEF Place
  <2> QED  BY <2>2, <2>3, <2>4, FinishTyped, GotoTyped DEF AutoTypeOK
<1> QED  BY <1>3, <1>4, <1>5 DEF AutoStep

-----------------------------------------------------------------------------
\* The query that a request writes into the row of its news.
LEMMA QueryTyped ==
  ASSUME NEW r \in HistoryCall, r.stocks # <<>>
  PROVE  Query(r) \in (Messages \X Stocks) \cup {None, <<"analysis">>}
<1>1. Head(r.stocks) \in Stocks
  BY DEF HistoryCall
<1>2. r.message \in Messages \cup {None}
  BY DEF HistoryCall
<1> QED  BY <1>1, <1>2 DEF Query, QueryId

\* What is left of several stocks.
LEMMA TailStays ==
  ASSUME NEW S, NEW q \in Seq(S), q # <<>>, Len(q) > 1
  PROVE  Tail(q) \in Seq(S) /\ Tail(q) # <<>>
<1>1. /\ Tail(q) \in Seq(S) /\ Len(Tail(q)) = Len(q) - 1 /\ Len(q) \in Nat
  BY HeadTailProperties, LenProperties
<1>2. Tail(q) = <<>> => Len(Tail(q)) = 0
  BY EmptySeq
<1> QED  BY <1>1, <1>2

\* The row of news that a request has read does not go away.
LEMMA NewsKept ==
  ASSUME CallTypes, part = "history", NewsAreThere, NEW c \in Clients,
         NEW l, NEW x, ComesTo(c, l, x),
         l = "fillNews" => news'[x.url] # None,
         \A u \in Urls : news[u] # None => news'[u] # None
  PROVE  NewsAreThere'
<1>1. ASSUME NEW d \in Clients \ {c}, pc[d] = "fillNews"
      PROVE  req[d].url \in Urls
  BY <1>1, FitsOf DEF HistoryLabels, NewsLabels, HistoryFits, HistoryCall
<1>2. /\ pc'[c] = l /\ req'[c] = x
      /\ \A d \in Clients \ {c} : pc'[d] = pc[d] /\ req'[d] = req[d]
  BY ComesThere
<1> QED  BY <1>1, <1>2 DEF NewsAreThere

\* From one stock to the next.
LEMMA NextStockTyped ==
  ASSUME CallTypes, part = "history", UNCHANGED part, NEW c \in Clients,
         NEW l \in NewsLabels, HistoryFits(l, req[c]), NextStock(c)
  PROVE  /\ CallTypes'
         /\ \E k \in {"idle", "findRow"}, x \in AllCalls \cup {None} :
               ComesTo(c, k, x)
<1> DEFINE r == req[c]
           x == [r EXCEPT !.stocks = Tail(@), !.found = None]
<1>1. CASE Len(r.stocks) > 1
  <2>1. r \in HistoryCall /\ r.message \in Messages
    BY <1>1 DEF HistoryFits
  <2>2. Tail(r.stocks) \in Seq(Stocks) /\ Tail(r.stocks) # <<>>
    <3>1. r.stocks \in Seq(Stocks) /\ r.stocks # <<>>
      BY <2>1 DEF HistoryCall, HistoryFits
    <3> QED  BY <1>1, <3>1, TailStays
  <2>3. x \in HistoryCall /\ x.stocks = Tail(r.stocks) /\ x.message = r.message
    BY <2>1, <2>2 DEF HistoryCall
  <2>4. Goto(c, "findRow", x)
    BY <1>1 DEF NextStock
  <2> HIDE DEF x
  <2>5. HistoryFits("findRow", x)
    BY <2>1, <2>2, <2>3 DEF HistoryFits
  <2>6. CallFits(part, "findRow", x)
    BY <2>5 DEF CallFits, HistoryLabels
  <2>7. ComesTo(c, "findRow", x) /\ x \in AllCalls
    BY <2>3, <2>4 DEF ComesTo, AllCalls
  <2> QED  BY <2>6, <2>7, GotoTyped
<1>2. CASE ~(Len(r.stocks) > 1)
  BY <1>2, FinishTyped, GotoTyped DEF NextStock
<1> QED  BY <1>1, <1>2

\* The history and the news, saved by one request for one stock after another.
LEMMA HistoryTyped ==
  ASSUME CallTypes, HistoryTypes, part = "history", UNCHANGED part,
         NEW c \in Clients, SaveRequest(c) \/ SyncRequest(c) \/ HistoryStep(c)
  PROVE  CallTypes' /\ HistoryTypes'
<1> DEFINE r == req[c]
<1>0. ASSUME NEW l, NEW x, ComesTo(c, l, x),
             l = "fillNews" => news'[x.url] # None, UNCHANGED <<history, news, doubled>>,
             raced' \subseteq Clients
      PROVE  HistoryTypes'
  <2>1. NewsAreThere'
    BY <1>0, NewsKept DEF HistoryTypes
  <2> HIDE DEF NewsAreThere
  <2> QED  BY <1>0, <2>1 DEF HistoryTypes
<1>1. pc[c] \in HistoryLabels => HistoryFits(pc[c], r) /\ r \in HistoryCall
  BY FitsOf DEF HistoryFits
<1>2. \A l \in HistoryLabels, x \in HistoryCall :
         HistoryFits(l, x) => CallFits(part, l, x)
  BY DEF CallFits
<1>3. ASSUME NEW o \in Owners, NEW m \in Messages \cup {None}, NEW u \in Urls,
             NEW ss \in Seq(Stocks), ss # <<>>,
             NEW l \in {"findRow", "findNews"},
             l = "findRow" \/ Len(ss) > 1 => m \in Messages,
             Arrive(c, l, NoteCall(o, m, ss, u))
      PROVE  /\ CallTypes'
             /\ UNCHANGED historyVars => HistoryTypes'
  <2> DEFINE x == NoteCall(o, m, ss, u)
  <2>1. x \in HistoryCall /\ x.stocks = ss /\ x.message = m
    BY DEF NoteCall, HistoryCall
  <2>2. ComesTo(c, l, x)
    BY <1>3 DEF ComesTo
  <2> HIDE DEF x
  <2>3. HistoryFits(l, x)
    BY <1>3, <2>1 DEF HistoryFits
  <2>4. CallFits(part, l, x)
    BY <1>2, <2>1, <2>3 DEF HistoryLabels, NewsLabels
  <2>5. UNCHANGED historyVars => HistoryTypes'
    BY <1>0, <1>3, <2>2 DEF historyVars, HistoryTypes
  <2> QED  BY <2>2, <2>4, <2>5, GotoTyped
<1>4. CASE SaveRequest(c)
  <2>1. PICK o \in Owners, m \in Messages, u \in Urls,
             ss \in {<<s>> : s \in Stocks} \cup {<<s, t>> : s, t \in Stocks} :
                Arrive(c, "findRow", NoteCall(o, m, ss, u))
    BY <1>4 DEF SaveRequest
  <2>2. ss \in Seq(Stocks) /\ ss # <<>>
    <3>1. ASSUME NEW s \in Stocks, ss = <<s>>
          PROVE  ss \in Seq(Stocks) /\ ss # <<>>
      BY <3>1
    <3>2. ASSUME NEW s \in Stocks, NEW t \in Stocks, ss = <<s, t>>
          PROVE  ss \in Seq(Stocks) /\ ss # <<>>
      BY <3>2
    <3> QED  BY <2>1, <3>1, <3>2
  <2> QED  BY <1>3, <1>4, <2>1, <2>2 DEF SaveRequest
<1>5. CASE SyncRequest(c)
  <2>1. PICK o \in Owners, s \in Stocks, u \in Urls :
                Arrive(c, "findNews", NoteCall(o, None, <<s>>, u))
    BY <1>5 DEF SyncRequest
  <2>2. <<s>> \in Seq(Stocks) /\ <<s>> # <<>> /\ ~(Len(<<s>>) > 1)
    OBVIOUS
  <2> QED  BY <1>3, <1>5, <2>1, <2>2 DEF SyncRequest
<1>6. CASE FindRow(c)
  <2>1. HistoryFits("findRow", r) /\ r \in HistoryCall
    BY <1>1, <1>6 DEF FindRow, HistoryLabels
  <2>2. HistoryFits("createRow", r) /\ HistoryFits("findNews", r)
    BY <2>1 DEF HistoryFits
  <2>3. CallFits(part, "createRow", r) /\ CallFits(part, "findNews", r)
    BY <1>2, <2>1, <2>2 DEF HistoryLabels, NewsLabels
  <2>4. ComesTo(c, "createRow", r) \/ ComesTo(c, "findNews", r)
    BY <1>6 DEF FindRow, ComesTo
  <2>5. UNCHANGED historyVars /\ raced \subseteq Clients
    BY <1>6 DEF FindRow, HistoryTypes
  <2> QED  BY <1>0, <2>3, <2>4, <2>5, GotoTyped DEF historyVars
<1>7. CASE CreateRow(c)
  <2>1. HistoryFits("createRow", r) /\ r \in HistoryCall
    BY <1>1, <1>7 DEF CreateRow, HistoryLabels
  <2>2. HistoryFits("findNews", r)
    BY <2>1 DEF HistoryFits
  <2>3. CallFits(part, "findNews", r)
    BY <1>2, <2>1, <2>2 DEF HistoryLabels, NewsLabels
  <2>4. CallTypes'
    BY <1>7, <2>3, GotoTyped DEF ComesTo, CreateRow
  <2> DEFINE o == r.owner
             m == r.message
             s == Head(r.stocks)
  <2>5. o \in Owners /\ m \in Messages /\ s \in Stocks
    BY <2>1 DEF HistoryFits, HistoryCall
  <2>6. /\ history' = [history EXCEPT ![o][m][s] = @ + 1]
        /\ doubled' \subseteq doubled \cup {<<o, m, s>>}
    <3>1. QueryId(m, s)[1] = m /\ QueryId(m, s)[2] = s
      BY DEF QueryId
    <3> QED  BY <1>7, <3>1 DEF CreateRow
  <2> HIDE DEF o, m, s
  <2>7. history' \in [Owners -> [Messages -> [Stocks -> Nat]]]
    BY <2>5, <2>6 DEF HistoryTypes
  <2>8. doubled' \subseteq Owners \X Messages \X Stocks
    BY <2>5, <2>6 DEF HistoryTypes
  <2>9. /\ UNCHANGED <<news, raced>>
        /\ Goto(c, "findNews", r)
    <3> HIDE DEF Goto
    <3> QED  BY <1>7, Zenon DEF CreateRow
  <2>10. NewsAreThere'
    BY <2>9, NewsKept DEF HistoryTypes, ComesTo
  <2> HIDE DEF NewsAreThere
  <2> QED  BY <2>4, <2>7, <2>8, <2>9, <2>10 DEF HistoryTypes
<1>8. CASE FindNews(c)
  <2>1. HistoryFits("findNews", r) /\ r \in HistoryCall
    BY <1>1, <1>8 DEF FindNews, HistoryLabels, NewsLabels
  <2> DEFINE n == news[r.url]
             x == [r EXCEPT !.found = n]
             l == IF n = None THEN "createNews" ELSE "fillNews"
  <2>2. n \in NewsRow \cup {None}
    BY <2>1 DEF HistoryCall, HistoryTypes
  <2>3. /\ x \in HistoryCall /\ x.stocks = r.stocks /\ x.message = r.message
        /\ x.found = n
    BY <2>1, <2>2 DEF HistoryCall
  <2>4. ComesTo(c, l, x)
    BY <1>8 DEF FindNews, ComesTo
  <2>8. /\ UNCHANGED <<history, news, doubled>> /\ raced' \subseteq Clients
        /\ l = "fillNews" => news[x.url] # None
    BY <1>8, <2>1 DEF FindNews, HistoryTypes, HistoryCall
  <2> HIDE DEF x, n
  <2>5. HistoryFits(l, x)
    BY <2>1, <2>2, <2>3 DEF HistoryFits
  <2>6. CallFits(part, l, x)
    BY <1>2, <2>3, <2>5 DEF HistoryLabels, NewsLabels
  <2>7. CallTypes'
    BY <2>4, <2>6, GotoTyped
  <2>9. HistoryTypes'
    BY <1>0, <2>4, <2>8
  <2> QED  BY <2>7, <2>9
<1>9. \A d \in Clients : Races(d) => raced' \subseteq Clients
  BY DEF Races, HistoryTypes
<1>10. CASE FillNews(c)
  <2>1. HistoryFits("fillNews", r) /\ r \in HistoryCall
    BY <1>1, <1>10 DEF FillNews, HistoryLabels, NewsLabels
  <2>2. /\ CallTypes'
        /\ \E k \in {"idle", "findRow"}, x \in AllCalls \cup {None} :
              ComesTo(c, k, x)
    BY <1>10, <2>1, NextStockTyped DEF FillNews, NewsLabels
  <2>3. r.url \in Urls /\ r.owner \in Owners /\ r.found \in NewsRow
        /\ r.stocks # <<>>
    BY <2>1 DEF HistoryFits, HistoryCall
  <2>4. Query(r) \in (Messages \X Stocks) \cup {None, <<"analysis">>}
    BY <2>1, <2>3, QueryTyped
  <2>5. news[r.url] \in NewsRow
    BY <1>10, <2>3 DEF FillNews, HistoryTypes, NewsAreThere
  <2>6. Filled(news[r.url], r) \in NewsRow
    <3> HIDE DEF r
    <3> QED  BY <2>3, <2>4, <2>5 DEF Filled, NewsRow
  <2>7. news' = [news EXCEPT ![r.url] = Filled(news[r.url], r)]
    BY <1>10 DEF FillNews
  <2>8. /\ news' \in [Urls -> NewsRow \cup {None}]
        /\ \A u \in Urls : news[u] # None => news'[u] # None
    BY <2>3, <2>6, <2>7, NullIsNoNews DEF HistoryTypes
  <2>9. NewsAreThere'
    BY <2>2, <2>8, NewsKept DEF HistoryTypes
  <2>10. raced' \subseteq Clients /\ UNCHANGED <<history, doubled>>
    BY <1>9, <1>10 DEF FillNews
  <2> HIDE DEF NewsAreThere
  <2> QED  BY <2>2, <2>8, <2>9, <2>10 DEF HistoryTypes
<1>11. CASE CreateNews(c)
  <2>1. HistoryFits("createNews", r) /\ r \in HistoryCall
    BY <1>1, <1>11 DEF CreateNews, HistoryLabels, NewsLabels
  <2>2. r.url \in Urls /\ r.owner \in Owners /\ r.stocks # <<>>
    BY <2>1 DEF HistoryFits, HistoryCall
  <2>3. Query(r) \in (Messages \X Stocks) \cup {None, <<"analysis">>}
    BY <2>1, <2>2, QueryTyped
  <2>4. CASE news[r.url] = None
    <3>1. /\ CallTypes'
          /\ \E k \in {"idle", "findRow"}, x \in AllCalls \cup {None} :
                ComesTo(c, k, x)
      BY <1>11, <2>1, <2>4, NextStockTyped DEF CreateNews, NewsLabels
    <3>2. [owner |-> r.owner, query |-> Query(r)] \in NewsRow
      BY <2>2, <2>3 DEF NewsRow
    <3>3. news' = [news EXCEPT ![r.url] = [owner |-> r.owner, query |-> Query(r)]]
      BY <1>11, <2>4 DEF CreateNews
    <3>4. /\ news' \in [Urls -> NewsRow \cup {None}]
          /\ \A u \in Urls : news[u] # None => news'[u] # None
      BY <2>2, <3>2, <3>3, NullIsNoNews DEF HistoryTypes
    <3>5. raced' \subseteq Clients /\ UNCHANGED <<history, doubled>>
      BY <1>9, <1>11, <2>4 DEF CreateNews
    <3>6. NewsAreThere'
      BY <3>1, <3>4, NewsKept DEF HistoryTypes
    <3> HIDE DEF NewsAreThere
    <3> QED  BY <3>1, <3>4, <3>5, <3>6 DEF HistoryTypes
  <2>5. CASE news[r.url] # None
    <3>1. Finish(c) /\ raced' = raced \ {c} /\ UNCHANGED <<news, history, doubled>>
      BY <1>11, <2>5 DEF CreateNews
    <3>2. CallTypes' /\ ComesTo(c, "idle", None)
      BY <3>1, FinishTyped, GotoTyped
    <3> QED  BY <1>0, <3>1, <3>2 DEF HistoryTypes
  <2> QED  BY <2>4, <2>5
<1> QED
  BY <1>4, <1>5, <1>6, <1>7, <1>8, <1>10, <1>11 DEF HistoryStep

-----------------------------------------------------------------------------
Status == RunningStatus \cup EndStatus
Notes  == [events : Seq(Events), known : Status \cup {None}]

\* What one entry of a list adds.
LEMMA ComparedTyped ==
  ASSUME NEW acc \in Notes, NEW e \in Entry
  PROVE  Compared(acc, e) \in Notes
<1>1. e.status \in Status /\ acc.events \in Seq(Events)
      /\ acc.known \in Status \cup {None}
  BY DEF Entry, Notes, Status
<1>2. /\ Append(acc.events, "created") \in Seq(Events)
      /\ <<"created">> \in Seq(Events) /\ <<>> \in Seq(Events)
  BY <1>1 DEF Events
<1>3. EventOf(e.status) \in Seq(Events)
  <2>1. /\ <<"started">> \in Seq(Events) /\ <<"completed">> \in Seq(Events)
        /\ <<"failed">> \in Seq(Events)
    BY DEF Events
  <2>2. EventOf(e.status) \in {<<>>, <<"started">>, <<"completed">>, <<"failed">>}
    BY <1>1 DEF EventOf, Status, RunningStatus, EndStatus
  <2> QED  BY <1>2, <2>1, <2>2
<1>4. /\ <<"created">> \o EventOf(e.status) \in Seq(Events)
      /\ \A q \in Seq(Events) : acc.events \o q \in Seq(Events)
  BY <1>1, <1>2, <1>3, ConcatProperties
<1>5. FirstNote(acc, e) \in Notes
  BY <1>1, <1>2 DEF FirstNote, Notes
<1>6. Note(acc, e) \in Notes
  <2> DEFINE q == IF acc.known = None THEN <<"created">> \o EventOf(e.status)
                  ELSE IF acc.known # e.status THEN EventOf(e.status) ELSE <<>>
  <2>1. q \in Seq(Events)
    BY <1>2, <1>3, <1>4
  <2>2. Note(acc, e) = [events |-> acc.events \o q, known |-> e.status]
    BY DEF Note
  <2> HIDE DEF q
  <2> QED  BY <1>1, <1>4, <2>1, <2>2 DEF Notes
<1> QED  BY <1>5, <1>6 DEF Compared

\* The entries of a task in a list, the one that changed last, and the other.
Entries(r, t) == {e \in Listed(r) : e.task = t}
IsLast(S, e)   == \A f \in S : f.at <= e.at
Latest(S)      == CHOOSE e \in S : IsLast(S, e)

LEMMA ListedTyped ==
  ASSUME NEW r \in StreamCall, NEW t
  PROVE  Entries(r, t) \in SUBSET Entry
  BY DEF Entries, Listed, StreamCall

\* What a poll notes of a task: nothing, one entry, or two.
LEMMA NotedIs ==
  ASSUME NEW r \in StreamCall, NEW t \in Tasks
  PROVE  LET S == Entries(r, t)
             acc == [events |-> <<>>, known |-> known[t]]
         IN  Noted(r, t) = IF S = {} THEN acc
                           ELSE IF S = {Latest(S)} THEN Compared(acc, Latest(S))
                           ELSE Compared(Compared(acc, Latest(S)),
                                         CHOOSE e \in S \ {Latest(S)} : TRUE)
  BY DEF Noted, Entries, Latest, IsLast

LEMMA LatestIsLast ==
  ASSUME NEW r, StreamFits(r), NEW t, Entries(r, t) # {}
  PROVE  /\ Latest(Entries(r, t)) \in Entries(r, t)
         /\ \A f \in Entries(r, t) : f.at <= Latest(Entries(r, t)).at
<1> DEFINE S == Entries(r, t)
<1>1. S \in SUBSET Entry
  BY ListedTyped DEF StreamFits
<1>2. \A e \in S : (e \in r.running \/ e \in r.ended) /\ e.task = t
  BY DEF Entries, Listed
<1> HIDE DEF S
<1>3. \A e \in S : e.at \in Nat
  BY <1>1 DEF Entry
<1>4. PICK a \in S : TRUE
  BY DEF S
<1>5. \E b \in S : S = {a, b}
  <2>1. CASE S = {a}
    BY <1>4, <2>1
  <2>2. CASE S # {a}
    <3>1. PICK b \in S : b # a
      BY <1>4, <2>2
    <3>2. \A e \in S : e = a \/ e = b
      BY <1>2, <1>4, <3>1 DEF StreamFits, OneEach
    <3>3. S = {a, b}
      BY <1>4, <3>1, <3>2
    <3> QED  BY <3>3
  <2> QED  BY <2>1, <2>2
<1>6. \E e \in S : IsLast(S, e)
  <2>1. PICK b \in S : S = {a, b}
    BY <1>5
  <2>2. a.at \in Nat /\ b.at \in Nat
    BY <1>3, <1>4
  <2>3. IsLast(S, a) \/ IsLast(S, b)
    BY <2>1, <2>2 DEF IsLast
  <2> QED  BY <1>4, <2>3
<1>7. Latest(S) \in S /\ IsLast(S, Latest(S))
  BY <1>6 DEF Latest
<1> QED  BY <1>7 DEF IsLast, S

\* So what a poll notes of a task has its type.
LEMMA NotedTyped ==
  ASSUME NEW r, StreamFits(r), NEW t \in Tasks, StreamTypes
  PROVE  Noted(r, t) \in Notes
<1> DEFINE S == Entries(r, t)
           acc == [events |-> <<>>, known |-> known[t]]
           other == CHOOSE e \in S \ {Latest(S)} : TRUE
<1>1. acc \in Notes
  BY DEF Notes, StreamTypes, StreamTypeOK, Status
<1>2. S \in SUBSET Entry
  BY ListedTyped DEF StreamFits
<1>3. S # {} => Latest(S) \in S
  BY LatestIsLast
<1>4. S # {} /\ S # {Latest(S)} => other \in Entry
  <2> HIDE DEF S
  <2>2. S # {} /\ S # {Latest(S)} => \E e \in S \ {Latest(S)} : TRUE
    BY <1>3
  <2>3. S # {} /\ S # {Latest(S)} => other \in S
    BY <2>2
  <2> HIDE DEF other
  <2> QED  BY <1>2, <2>3
<1>5. Noted(r, t) = IF S = {} THEN acc
                    ELSE IF S = {Latest(S)} THEN Compared(acc, Latest(S))
                    ELSE Compared(Compared(acc, Latest(S)), other)
  BY NotedIs DEF StreamFits
<1> HIDE DEF S, acc, other
<1> QED  BY <1>1, <1>2, <1>3, <1>4, <1>5, ComparedTyped

\* The rows of the two reads: one of a task.
LEMMA RowsTyped ==
  ASSUME StreamTypes
  PROVE  /\ RunningRows \in SUBSET Entry /\ EndedRows \in SUBSET Entry
         /\ OneEach(RunningRows) /\ OneEach(EndedRows)
<1>1. \A t \in Tasks : task[t] # None => Row(t) \in Entry
  BY DEF Row, Entry, StreamTypes, TaskRow
<1>2. \A t \in Tasks : Row(t).task = t
  BY DEF Row
<1> HIDE DEF Row
<1>3. \A S : \A t \in WithStatus(S) : t \in Tasks /\ task[t] # None
  BY DEF WithStatus
<1> HIDE DEF WithStatus
<1>4. \A e \in RunningRows \cup EndedRows :
         \E t \in Tasks : task[t] # None /\ e = Row(t)
  BY <1>3 DEF RunningRows, EndedRows
<1>5. \A e, f \in RunningRows \cup EndedRows : e.task = f.task => e = f
  BY <1>2, <1>4
<1> HIDE DEF RunningRows, EndedRows
<1> QED  BY <1>1, <1>4, <1>5 DEF OneEach

\* Polls of the stream.
LEMMA StreamTyped ==
  ASSUME CallTypes, StreamTypes, part = "stream", UNCHANGED part,
         NEW c \in Clients, PollBegins(c) \/ StreamStep(c)
  PROVE  CallTypes' /\ StreamTypes'
<1> DEFINE r == req[c]
<1>1. pc[c] = "list" => StreamFits(r) /\ r \in StreamCall
  BY FitsOf DEF StreamFits
<1>2. \A x \in StreamCall : StreamFits(x) => CallFits(part, "list", x)
  BY DEF CallFits
<1>3. /\ requests \in Nat /\ ticks \in Nat /\ ticks <= requests
      /\ MaxRequests \in Nat /\ requests <= MaxRequests
  BY ApiConstants DEF CallTypes, StreamTypes, StreamTypeOK
<1>4. CASE PollBegins(c)
  <2> DEFINE x == [kind |-> "stream", running |-> {}, ended |-> {},
                   unread |-> {"running", "ended"}]
  <2>1. x \in StreamCall /\ StreamFits(x)
    BY DEF StreamCall, StreamFits, OneEach
  <2>2. Arrive(c, "list", x) /\ ticks' = ticks + 1 /\ newest' = c
        /\ UNCHANGED <<task, moves, open, known, told, shifted, lost>>
    BY <1>4 DEF PollBegins
  <2> HIDE DEF x
  <2>3. CallTypes'
    BY <1>2, <2>1, <2>2, GotoTyped DEF ComesTo
  <2>4. ticks' \in 0 .. MaxRequests /\ ticks' <= requests'
    BY <1>3, <2>2 DEF Arrive
  <2> QED  BY <2>2, <2>3, <2>4 DEF StreamTypes, StreamTypeOK
<1>5. ASSUME NEW x \in StreamCall, StreamFits(x), Goto(c, "list", x),
             UNCHANGED streamVars
      PROVE  CallTypes' /\ StreamTypes'
  <2>1. CallTypes'
    BY <1>2, <1>5, GotoTyped DEF ComesTo
  <2>2. ticks' = ticks /\ requests' = requests
    BY <1>5 DEF Goto, streamVars
  <2> QED  BY <1>5, <2>1, <2>2 DEF streamVars, StreamTypes, StreamTypeOK
<1>6. CASE ReadRunning(c)
  <2> DEFINE x == [r EXCEPT !.running = RunningRows, !.unread = @ \ {"running"}]
  <2>1. x \in StreamCall /\ StreamFits(x)
    BY <1>1, <1>6, RowsTyped DEF ReadRunning, StreamCall, StreamFits
  <2>2. Goto(c, "list", x) /\ UNCHANGED streamVars
    BY <1>6 DEF ReadRunning
  <2> HIDE DEF x
  <2> QED  BY <1>5, <2>1, <2>2
<1>7. CASE ReadEnded(c)
  <2> DEFINE x == [r EXCEPT !.ended = EndedRows, !.unread = @ \ {"ended"}]
  <2>1. x \in StreamCall /\ StreamFits(x)
    BY <1>1, <1>7, RowsTyped DEF ReadEnded, StreamCall, StreamFits
  <2>2. Goto(c, "list", x) /\ UNCHANGED streamVars
    BY <1>7 DEF ReadEnded
  <2> HIDE DEF x
  <2> QED  BY <1>5, <2>1, <2>2
<1>8. CASE PollEnds(c)
  <2>1. StreamFits(r)
    BY <1>1, <1>8 DEF PollEnds
  <2>2. \A t \in Tasks : Noted(r, t) \in Notes
    BY <2>1, NotedTyped
  <2>3. /\ known' = [t \in Tasks |-> Noted(r, t).known]
        /\ \/ told' = [t \in Tasks |-> told[t] \o Noted(r, t).events]
           \/ told' = told
        /\ lost' \subseteq Tasks
        /\ Finish(c)
        /\ UNCHANGED <<task, moves, ticks, newest, open, shifted>>
    BY <1>8 DEF PollEnds, StreamTypes, StreamTypeOK
  <2>4. known' \in [Tasks -> RunningStatus \cup EndStatus \cup {None}]
    BY <2>2, <2>3 DEF Notes, Status
  <2>5. told' \in [Tasks -> Seq(Events)]
    <3>1. \A t \in Tasks : Noted(r, t).events \in Seq(Events)
                           /\ told[t] \in Seq(Events)
      BY <2>2 DEF Notes, StreamTypes
    <3>2. \A t \in Tasks : told[t] \o Noted(r, t).events \in Seq(Events)
      BY <3>1, ConcatProperties
    <3> QED  BY <2>3, <3>2 DEF StreamTypes
  <2>6. CallTypes' /\ requests' = requests
    BY <2>3, FinishTyped, GotoTyped DEF Finish, Goto
  <2> QED  BY <2>3, <2>4, <2>5, <2>6 DEF StreamTypes, StreamTypeOK
<1> QED  BY <1>4, <1>6, <1>7, <1>8 DEF StreamStep

\* The queue moves a task.
LEMMA MoveTyped ==
  ASSUME StreamTypes, UNCHANGED part, NEW t \in Tasks, TaskMoves(t)
  PROVE  StreamTypes'
<1>1. moves \in Nat /\ moves < MaxMoves /\ moves' = moves + 1 /\ MaxMoves \in Nat
  BY StreamConstants DEF TaskMoves, StreamTypes, StreamTypeOK
<1>2. PICK s \in Status : /\ task[t] # None \/ s = "pending"
                          /\ Becomes(t, s)
  BY DEF TaskMoves, Status, RunningStatus, EndStatus
<1> DEFINE row == [status |-> s, at |-> moves + 1,
                   created |-> IF s = "pending" THEN moves + 1
                               ELSE task[t].created]
<1>3. row \in TaskRow
  BY <1>1, <1>2 DEF StreamTypes, TaskRow, Status
<1>4. task' = [task EXCEPT ![t] = row]
  BY <1>2 DEF Becomes
<1> HIDE DEF row
<1>5. task' \in [Tasks -> TaskRow \cup {None}]
  BY <1>3, <1>4 DEF StreamTypes
<1>6. shifted' \subseteq Tasks
  BY DEF TaskMoves, StreamTypes, StreamTypeOK
<1>7. UNCHANGED <<ticks, newest, open, known, told, lost, requests>>
  BY DEF TaskMoves, apiVars
<1> QED  BY <1>1, <1>5, <1>6, <1>7 DEF StreamTypes, StreamTypeOK

-----------------------------------------------------------------------------
(***************************************************************************)
(* The steps of a behaviour, one part after the other.                     *)
(***************************************************************************)
\* A part whose tables a step leaves alone keeps their types.
LEMMA OthersKept ==
  ASSUME TypeInv, UNCHANGED part
  PROVE  /\ UNCHANGED <<apiVars, part>> => CallTypes'
         /\ part # "accounts" /\ UNCHANGED accountVars => AccountTypes'
         /\ UNCHANGED <<apiVars, accountVars>> => AccountTypes'
         /\ UNCHANGED settingsVars => SettingsTypeOK'
         /\ UNCHANGED bridgeVars => BridgeTypes'
         /\ UNCHANGED autoVars => AutoTypeOK'
         /\ part # "history" /\ UNCHANGED historyVars => HistoryTypes'
         /\ UNCHANGED <<apiVars, historyVars>> => HistoryTypes'
         /\ part # "stream" /\ UNCHANGED streamVars => StreamTypes'
         /\ UNCHANGED <<apiVars, streamVars>> => StreamTypes'
         /\ UNCHANGED sessionVars => SessionTypeOK'
         /\ UNCHANGED portfolio => HealthTypeOK'
<1>1. UNCHANGED <<apiVars, part>> => CallTypes'
  <2> SUFFICES ASSUME UNCHANGED <<apiVars, part>>
               PROVE  CallTypes'
    OBVIOUS
  <2>1. \A c \in Clients : CallFits(part, pc[c], req[c])'
    BY DEF TypeInv, CallTypes, apiVars, CallFits, AccountFits, SettingsFits,
           OrderFits, HistoryFits, StreamFits
  <2> QED  BY <2>1 DEF TypeInv, CallTypes, apiVars
<1>2. /\ part # "accounts" /\ UNCHANGED accountVars => AccountTypes'
      /\ UNCHANGED <<apiVars, accountVars>> => AccountTypes'
  <2>1. UNCHANGED apiVars => Depositing' = Depositing
    BY DEF apiVars, Depositing
  <2>2. UNCHANGED accountVars => Live' = Live
    BY DEF accountVars, Live
  <2>3. UNCHANGED apiVars => requests' = requests
    BY DEF apiVars
  <2> HIDE DEF Depositing, Live, apiVars
  <2> QED  BY <2>1, <2>2, <2>3 DEF TypeInv, AccountTypes, accountVars
<1>3. UNCHANGED settingsVars => SettingsTypeOK'
  BY DEF TypeInv, SettingsTypeOK, settingsVars
<1>4. UNCHANGED bridgeVars => BridgeTypes'
  BY DEF TypeInv, BridgeTypes, BridgeTypeOK, bridgeVars
<1>5. UNCHANGED autoVars => AutoTypeOK'
  BY DEF TypeInv, AutoTypeOK, autoVars
<1>6. /\ part # "history" /\ UNCHANGED historyVars => HistoryTypes'
      /\ UNCHANGED <<apiVars, historyVars>> => HistoryTypes'
  <2>1. UNCHANGED <<apiVars, historyVars>> /\ NewsAreThere => NewsAreThere'
    BY DEF apiVars, historyVars, NewsAreThere
  <2> HIDE DEF NewsAreThere, apiVars
  <2> QED  BY <2>1 DEF TypeInv, HistoryTypes, historyVars
<1>7. /\ part # "stream" /\ UNCHANGED streamVars => StreamTypes'
      /\ UNCHANGED <<apiVars, streamVars>> => StreamTypes'
  BY DEF TypeInv, StreamTypes, StreamTypeOK, streamVars, apiVars
<1>8. UNCHANGED sessionVars => SessionTypeOK'
  BY DEF TypeInv, SessionTypeOK, sessionVars
<1>9. UNCHANGED portfolio => HealthTypeOK'
  BY DEF TypeInv, HealthTypeOK
<1> QED  BY <1>1, <1>2, <1>3, <1>4, <1>5, <1>6, <1>7, <1>8, <1>9

\* A snapshot grows old.
LEMMA ExpiryTyped ==
  ASSUME TypeInv, UNCHANGED part, NEW r \in Rows, Expires(r)
  PROVE  CallTypes' /\ AccountTypes'
<1>1. UNCHANGED apiVars /\ CallTypes'
  BY OthersKept DEF Expires
<1>2. /\ snapshot[r] \in Snapshot
      /\ snapshot' = [snapshot EXCEPT ![r] = [snapshot[r] EXCEPT !.fresh = FALSE]]
  BY DEF Expires, TypeInv, AccountTypes
<1>3. [snapshot[r] EXCEPT !.fresh = FALSE] \in Snapshot
  BY <1>2 DEF Snapshot
<1>4. snapshot' \in [Rows -> Snapshot \cup {None}]
  BY <1>2, <1>3 DEF TypeInv, AccountTypes
<1>5. /\ Depositing' = Depositing /\ Live' = Live /\ requests' = requests
      /\ UNCHANGED <<account, funds, provisioned, bound, shown, rebound, mixed,
                     overrun, late>>
  BY DEF Expires, apiVars, Depositing, Live
<1> HIDE DEF Depositing, Live
<1> QED  BY <1>1, <1>4, <1>5 DEF TypeInv, AccountTypes

\* The calculations.
LEMMA TickTyped ==
  ASSUME SessionTypeOK, Tick
  PROVE  SessionTypeOK'
<1>1. WeekLength \in Nat \ {0}
  BY SessionConstants DEF WeekLength
<1>2. clock + 1 \in Nat
  BY <1>1 DEF SessionTypeOK
<1> HIDE DEF WeekLength
<1>3. (clock + 1) % WeekLength \in 0 .. WeekLength - 1
  BY <1>1, <1>2
<1> QED  BY <1>3 DEF Tick, SessionTypeOK, WeekLength

LEMMA WorsenTyped ==
  ASSUME HealthTypeOK, Worsen
  PROVE  HealthTypeOK'
<1>1. portfolio \in Portfolio /\ Len(portfolio.equity) <= MaxPoints
  BY DEF HealthTypeOK
<1>2. CASE \/ \E w \in Weights : \/ portfolio' = [portfolio EXCEPT !["top1"] = w]
                                 \/ portfolio' = [portfolio EXCEPT !["top3"] = w]
                                 \/ portfolio' = [portfolio EXCEPT !["industry"] = w]
           \/ \E k \in CashRatios : portfolio' = [portfolio EXCEPT !.cash = k]
           \/ portfolio' = [portfolio EXCEPT !.sharpe = "weak"]
           \/ \E k \in Returns : portfolio' = [portfolio EXCEPT !.return = k]
           \/ \E d \in Drawdowns : portfolio' = [portfolio EXCEPT !.drawdown = d]
  <2>1. portfolio' \in Portfolio /\ portfolio'.equity = portfolio.equity
    BY <1>1, <1>2 DEF Portfolio
  <2> QED  BY <1>1, <2>1 DEF HealthTypeOK
<1>3. CASE \E e \in Equities :
              /\ Len(portfolio.equity) < MaxPoints
              /\ portfolio' = [portfolio EXCEPT !.equity = Append(@, e)]
  <2>1. PICK e \in Equities :
           /\ Len(portfolio.equity) < MaxPoints
           /\ portfolio' = [portfolio EXCEPT !.equity =
                                Append(portfolio.equity, e)]
    BY <1>3
  <2> DEFINE q == Append(portfolio.equity, e)
  <2>2. portfolio.equity \in Seq(Equities)
    BY <1>1 DEF Portfolio
  <2>3. q \in Seq(Equities) /\ Len(q) = Len(portfolio.equity) + 1
        /\ Len(portfolio.equity) \in Nat
    BY <2>2, LenProperties
  <2> HIDE DEF q
  <2>4. portfolio' = [portfolio EXCEPT !.equity = q]
    BY <2>1 DEF q
  <2>5. portfolio' \in Portfolio /\ portfolio'.equity = q
    BY <1>1, <2>3, <2>4 DEF Portfolio
  <2> QED  BY <2>1, <2>3, <2>5, HealthConstants DEF HealthTypeOK
<1> QED  BY <1>2, <1>3 DEF Worsen

\* Requests C end without finishing: what Fails and Dies have in common.
Stops(C) ==
    /\ pc' = [c \in Clients |-> IF c \in C THEN "idle" ELSE pc[c]]
    /\ req' = [c \in Clients |-> IF c \in C THEN None ELSE req[c]]
    /\ requests' = requests /\ faults' \in 0 .. MaxFaults
    /\ Leave(C)
    /\ UNCHANGED <<bridgeVars, sessionVars, portfolio, part>>

LEMMA StopsIs ==
  ASSUME TypeInv, (\E c \in Clients : Fails(c)) \/ Dies
  PROVE  \E C \in SUBSET Clients : Stops(C) /\ (part = "bridge" => C = Clients)
<1>1. faults \in Nat /\ MaxFaults \in Nat
  BY ApiConstants DEF TypeInv, CallTypes
<1>2. CASE Dies
  BY <1>1, <1>2 DEF Dies, Stops, Lose, Faults
<1>3. ASSUME NEW c \in Clients, Fails(c) PROVE Stops({c}) /\ part # "bridge"
  <2>1. /\ pc' = [pc EXCEPT ![c] = "idle"] /\ req' = [req EXCEPT ![c] = None]
        /\ requests' = requests /\ faults' = faults + 1 /\ faults < MaxFaults
    BY <1>3 DEF Fails, CallFails, Throws, Faults
  <2>2. /\ pc' = [d \in Clients |-> IF d \in {c} THEN "idle" ELSE pc[d]]
        /\ req' = [d \in Clients |-> IF d \in {c} THEN None ELSE req[d]]
    BY <2>1 DEF TypeInv, CallTypes
  <2>3. faults' \in 0 .. MaxFaults
    BY <1>1, <2>1
  <2> QED  BY <1>3, <2>1, <2>2, <2>3 DEF Fails, Stops
<1> QED  BY <1>2, <1>3

LEMMA StopsTyped ==
  ASSUME TypeInv, NEW C \in SUBSET Clients, Stops(C)
  PROVE  TypeInv'
<1>1. /\ part' = part /\ requests' = requests /\ faults' \in 0 .. MaxFaults
      /\ \A c \in Clients : \/ pc'[c] = pc[c] /\ req'[c] = req[c]
                            \/ pc'[c] = "idle" /\ req'[c] = None
  BY DEF Stops
<1>2. CallTypes'
  <2>1. pc' \in [Clients -> Labels] /\ req' \in [Clients -> AllCalls \cup {None}]
    BY DEF Stops, TypeInv, CallTypes, Labels
  <2>2. \A c \in Clients : CallFits(part, pc'[c], req'[c])
    BY <1>1 DEF TypeInv, CallTypes, CallFits
  <2>3. \A c \in Clients : CallFits(part, pc[c], req[c])'
    BY <1>1, <2>2 DEF CallFits, AccountFits, SettingsFits, OrderFits, HistoryFits,
                      StreamFits
  <2> QED  BY <1>1, <2>1, <2>3 DEF TypeInv, CallTypes
<1>3. AccountTypes'
  <2>1. /\ UNCHANGED <<account, snapshot, funds, provisioned, bound, shown,
                       mixed, late>>
        /\ rebound' \subseteq rebound /\ overrun' \subseteq overrun
    BY DEF Stops, Leave, Uncross
  <2>2. part = "accounts" => \A a \in Accounts :
           funds[a] + Cardinality(Depositing') <= requests
    <3> SUFFICES ASSUME part = "accounts", NEW a \in Accounts
                 PROVE  funds[a] + Cardinality(Depositing') <= requests
      OBVIOUS
    <3>1. Depositing' \in SUBSET Depositing /\ Depositing \in SUBSET Clients
      BY <1>1 DEF Depositing
    <3>2. /\ Cardinality(Depositing') \in Nat /\ Cardinality(Depositing) \in Nat
          /\ Cardinality(Depositing') <= Cardinality(Depositing)
      <4> HIDE DEF Depositing
      <4>1. IsFiniteSet(Depositing)
        BY <3>1, ApiConstants, FS_Subset
      <4> DEFINE D == Depositing'
      <4>2. D \in SUBSET Depositing
        BY <3>1
      <4> HIDE DEF D
      <4>3. IsFiniteSet(D) /\ Cardinality(D) <= Cardinality(Depositing)
        BY <4>1, <4>2, FS_Subset
      <4>4. Cardinality(D) \in Nat /\ Cardinality(Depositing) \in Nat
        BY <4>1, <4>3, FS_CardinalityType
      <4> QED  BY <4>3, <4>4 DEF D
    <3>3. /\ funds[a] \in Nat /\ requests \in Nat
          /\ funds[a] + Cardinality(Depositing) <= requests
      BY ApiConstants DEF TypeInv, AccountTypes, CallTypes
    <3> HIDE DEF Depositing
    <3> QED  BY <3>2, <3>3
  <2> HIDE DEF Depositing
  <2> QED  BY <1>1, <2>1, <2>2 DEF TypeInv, AccountTypes, Live
<1>4. /\ SettingsTypeOK' /\ BridgeTypes' /\ AutoTypeOK' /\ SessionTypeOK'
      /\ HealthTypeOK'
  <2>1. SettingsTypeOK'
    BY DEF Stops, Leave, Uncrossed, TypeInv, SettingsTypeOK
  <2>2. AutoTypeOK'
    BY DEF Stops, Leave, Undrained, TypeInv, AutoTypeOK
  <2>3. UNCHANGED <<bridgeVars, sessionVars, portfolio>>
    BY DEF Stops
  <2> QED  BY <1>1, <2>1, <2>2, <2>3, OthersKept
<1>5. HistoryTypes'
  <2>1. UNCHANGED <<history, news, doubled>> /\ raced' \subseteq Clients
    BY DEF Stops, Leave, Unraced, TypeInv, HistoryTypes
  <2>2. NewsAreThere => NewsAreThere'
    BY <1>1, <2>1 DEF NewsAreThere
  <2> HIDE DEF NewsAreThere
  <2> QED  BY <1>1, <2>1, <2>2 DEF TypeInv, HistoryTypes
<1>6. StreamTypes'
  <2>1. /\ UNCHANGED <<task, moves, ticks, newest, known, told, shifted, lost>>
        /\ open' \in BOOLEAN
    BY DEF Stops, Leave, Closes
  <2> QED  BY <1>1, <2>1 DEF TypeInv, StreamTypes, StreamTypeOK
<1> QED  BY <1>2, <1>3, <1>4, <1>5, <1>6 DEF TypeInv

\* Every step keeps the types.
LEMMA NextTyped ==
  ASSUME TypeInv, [Next]_vars
  PROVE  TypeInv'
<1>1. CASE AccountPart
  <2>1. /\ part = "accounts" /\ UNCHANGED part
        /\ UNCHANGED <<settingsVars, bridgeVars, autoVars, historyVars,
                       streamVars, sessionVars, portfolio>>
    BY <1>1 DEF AccountPart, InPart
  <2>2. CallTypes' /\ AccountTypes'
    <3>1. ASSUME NEW c \in Clients,
                 BindRequest(c) \/ LookRequest(c) \/ DepositRequest(c)
                 \/ AccountStep(c)
          PROVE  CallTypes' /\ AccountTypes'
      BY <2>1, <3>1, AccountTyped DEF TypeInv
    <3>2. ASSUME NEW r \in Rows, Expires(r)
          PROVE  CallTypes' /\ AccountTypes'
      BY <2>1, <3>2, ExpiryTyped
    <3> QED  BY <1>1, <3>1, <3>2 DEF AccountPart
  <2> QED  BY <2>1, <2>2, OthersKept DEF TypeInv
<1>2. CASE SettingsPart
  <2>1. /\ part = "settings" /\ UNCHANGED part
        /\ UNCHANGED <<accountVars, bridgeVars, autoVars, historyVars,
                       streamVars, sessionVars, portfolio>>
    BY <1>2 DEF SettingsPart, InPart
  <2>2. CallTypes' /\ SettingsTypeOK'
    BY <1>2, <2>1, SettingsTyped DEF SettingsPart, TypeInv
  <2> QED  BY <2>1, <2>2, OthersKept DEF TypeInv
<1>3. CASE BridgePart
  <2>1. /\ part = "bridge" /\ UNCHANGED part
        /\ UNCHANGED <<accountVars, settingsVars, autoVars, historyVars,
                       streamVars, sessionVars, portfolio>>
    BY <1>3 DEF BridgePart, InPart
  <2>2. CallTypes' /\ BridgeTypes'
    <3>1. ASSUME NEW c \in Clients, BridgeRequest(c) \/ BridgeStep(c)
          PROVE  CallTypes' /\ BridgeTypes'
      BY <2>1, <3>1, BridgeTyped DEF TypeInv
    <3>2. CASE AgentWorks
      BY <2>1, <3>2, OthersKept
         DEF AgentWorks, TypeInv, BridgeTypes, BridgeTypeOK
    <3>3. CASE PollTimePasses
      BY <2>1, <3>3, OthersKept
         DEF PollTimePasses, TypeInv, BridgeTypes, BridgeTypeOK
    <3> QED  BY <1>3, <3>1, <3>2, <3>3 DEF BridgePart
  <2> QED  BY <2>1, <2>2, OthersKept DEF TypeInv
<1>4. CASE OrderPart
  <2>1. /\ part = "orders" /\ UNCHANGED part
        /\ UNCHANGED <<accountVars, settingsVars, bridgeVars, historyVars,
                       streamVars, sessionVars, portfolio>>
    BY <1>4 DEF OrderPart, InPart
  <2>2. CallTypes' /\ AutoTypeOK'
    <3>1. ASSUME NEW c \in Clients, AutoRequest(c) \/ AutoStep(c)
          PROVE  CallTypes' /\ AutoTypeOK'
      BY <2>1, <3>1, OrderTyped DEF TypeInv
    <3>2. CASE AccountMoves
      BY <2>1, <3>2, OthersKept DEF AccountMoves, TypeInv, AutoTypeOK
    <3> QED  BY <1>4, <3>1, <3>2 DEF OrderPart
  <2> QED  BY <2>1, <2>2, OthersKept DEF TypeInv
<1>5. CASE HistoryPart
  <2>1. /\ part = "history" /\ UNCHANGED part
        /\ UNCHANGED <<accountVars, settingsVars, bridgeVars, autoVars,
                       streamVars, sessionVars, portfolio>>
    BY <1>5 DEF HistoryPart, InPart
  <2>2. CallTypes' /\ HistoryTypes'
    BY <1>5, <2>1, HistoryTyped DEF HistoryPart, TypeInv
  <2> QED  BY <2>1, <2>2, OthersKept DEF TypeInv
<1>6. CASE StreamPart
  <2>1. /\ part = "stream" /\ UNCHANGED part
        /\ UNCHANGED <<accountVars, settingsVars, bridgeVars, autoVars,
                       historyVars, sessionVars, portfolio>>
    BY <1>6 DEF StreamPart, InPart
  <2>2. CallTypes' /\ StreamTypes'
    <3>1. ASSUME NEW c \in Clients, PollBegins(c) \/ StreamStep(c)
          PROVE  CallTypes' /\ StreamTypes'
      BY <2>1, <3>1, StreamTyped DEF TypeInv
    <3>2. ASSUME NEW t \in Tasks, TaskMoves(t)
          PROVE  CallTypes' /\ StreamTypes'
      <4>1. UNCHANGED apiVars
        BY <3>2 DEF TaskMoves
      <4> QED  BY <2>1, <3>2, <4>1, MoveTyped, OthersKept DEF TypeInv
    <3> QED  BY <1>6, <3>1, <3>2 DEF StreamPart
  <2> QED  BY <2>1, <2>2, OthersKept DEF TypeInv
<1>7. CASE Calculations
  <2>1. /\ UNCHANGED part
        /\ UNCHANGED <<apiVars, accountVars, settingsVars, bridgeVars, autoVars,
                       historyVars, streamVars>>
    BY <1>7 DEF Calculations, InPart
  <2>2. \/ Tick /\ UNCHANGED portfolio
        \/ Worsen /\ UNCHANGED sessionVars
    BY <1>7 DEF Calculations
  <2>3. SessionTypeOK' /\ HealthTypeOK'
    BY <2>1, <2>2, TickTyped, WorsenTyped, OthersKept DEF TypeInv
  <2> QED  BY <2>1, <2>3, OthersKept DEF TypeInv
<1>8. CASE (\E c \in Clients : Fails(c)) \/ Dies
  BY <1>8, StopsIs, StopsTyped
<1>9. CASE UNCHANGED vars
  <2>1. /\ UNCHANGED part
        /\ UNCHANGED <<apiVars, accountVars, settingsVars, bridgeVars, autoVars,
                       historyVars, streamVars, sessionVars, portfolio>>
    BY <1>9 DEF vars
  <2> QED  BY <2>1, OthersKept DEF TypeInv
<1> QED
  BY <1>1, <1>2, <1>3, <1>4, <1>5, <1>6, <1>7, <1>8, <1>9 DEF Next

\* And a behaviour begins with them.
LEMMA InitTyped ==
  ASSUME Init
  PROVE  TypeInv
<1>1. CallTypes
  BY ApiConstants, PartConstants DEF Init, ApiInit, CallTypes, CallFits, Labels
<1>2. AccountTypes
  <2>1. \A r \in Rows : /\ account[r] \in Broker
                        /\ account[r].live => account[r].uid \in Uids
                        /\ account[r].verified => account[r].uid \in Uids
    <3> SUFFICES ASSUME NEW r \in Rows
                 PROVE  /\ account[r] \in Broker
                        /\ account[r].live => account[r].uid \in Uids
                        /\ account[r].verified => account[r].uid \in Uids
      OBVIOUS
    <3>1. account[r] \in {NoRow} \cup [uid : Uids, live : {TRUE},
                                       verified : BOOLEAN, at : Rows]
      BY DEF Init, AccountInit
    <3>2. \A i \in Rows : i \in Nat
      BY AccountConstants
    <3>3. CASE account[r] = NoRow
      BY <3>3 DEF NoRow, Broker
    <3>4. CASE account[r] \in [uid : Uids, live : {TRUE}, verified : BOOLEAN,
                               at : Rows]
      BY <3>2, <3>4 DEF Broker
    <3> QED  BY <3>1, <3>3, <3>4
  <2>2. account \in [Rows -> Broker]
    BY <2>1 DEF Init, AccountInit
  <2>3. provisioned \subseteq Accounts
    BY <2>1 DEF Init, AccountInit, Accounts
  <2>4. Depositing = {} /\ Cardinality({}) = 0
    BY FS_EmptySet DEF Init, ApiInit, Depositing
  <2>5. /\ funds = [a \in Accounts |-> 0] /\ shown = [a \in Accounts |-> 0]
        /\ snapshot = [r \in Rows |-> None] /\ bound = None /\ requests = 0
        /\ rebound = {} /\ mixed = {} /\ overrun = {} /\ late = {}
    BY DEF Init, AccountInit, ApiInit
  <2>6. 0 \in 0 .. MaxRequests
    BY ApiConstants
  <2> HIDE DEF Depositing
  <2> QED  BY <2>1, <2>2, <2>3, <2>4, <2>5, <2>6 DEF AccountTypes, Live
<1>3. SettingsTypeOK
  BY DEF Init, SettingsInit, SettingsTypeOK
<1>4. BridgeTypes
  <2>1. /\ agentTask = [status |-> None, run |-> FALSE] /\ overdue = FALSE
        /\ misses = 0 /\ missed = 0 /\ verdict = None
    BY DEF Init, BridgeInit, NoAgentTask
  <2>2. agentTask \in [status : {None, "processing", "completed", "failed"},
                       run : BOOLEAN]
    BY <2>1
  <2>3. 0 \in 0 .. MaxMisses
    BY BridgeConstants
  <2>4. BridgeTypeOK
    BY <2>1, <2>2, <2>3, Zenon DEF BridgeTypeOK
  <2>5. misses <= missed
    BY <2>1
  <2> QED  BY <2>4, <2>5 DEF BridgeTypes
<1>5. AutoTypeOK
  BY DEF Init, AutoInit, AutoTypeOK
<1>6. HistoryTypes
  <2>1. NewsAreThere
    BY DEF NewsAreThere, Init, ApiInit
  <2>2. [owner |-> None, query |-> None] \in NewsRow
    BY DEF NewsRow
  <2> HIDE DEF NewsAreThere
  <2> QED  BY <2>1, <2>2 DEF Init, HistoryInit, HistoryTypes
<1>7. StreamTypes
  <2>1. [status |-> "completed", created |-> 0, at |-> 0] \in TaskRow
    BY DEF TaskRow, EndStatus
  <2>2. task \in [Tasks -> TaskRow \cup {None}]
    BY <2>1 DEF Init, StreamInit
  <2>3. 0 \in 0 .. MaxMoves /\ 0 \in 0 .. MaxRequests
    BY StreamConstants, ApiConstants
  <2> QED
    BY <2>2, <2>3 DEF Init, ApiInit, StreamInit, StreamTypes, StreamTypeOK
<1>8. SessionTypeOK
  <2>1. WeekLength \in Nat \ {0}
    BY SessionConstants DEF WeekLength
  <2>2. sessions \in Seq(Windows)
    <3>1. sessions = <<>> \/ sessions \in BoundedSeq(Windows, MaxWindows)
      BY DEF Init, SessionInit
    <3>2. ASSUME NEW m \in Nat, sessions \in [1 .. m -> Windows]
          PROVE  sessions \in Seq(Windows)
      BY <3>2, SeqDef, Zenon
    <3>3. sessions \in BoundedSeq(Windows, MaxWindows) =>
             \E m \in Nat : sessions \in [1 .. m -> Windows]
      <4>1. \A m \in 0 .. MaxWindows : m \in Nat
        BY SessionConstants
      <4> QED  BY <4>1, Zenon DEF BoundedSeq, SeqOf
    <3>4. <<>> \in Seq(Windows)
      OBVIOUS
    <3> QED  BY <3>1, <3>2, <3>3, <3>4
  <2>3. clock \in 0 .. WeekLength - 1
    BY <2>1 DEF Init, SessionInit
  <2> QED  BY <2>2, <2>3 DEF SessionTypeOK
<1>9. HealthTypeOK
  <2>1. portfolio.equity = <<>>
    BY DEF Init, HealthInit, NoPortfolio
  <2>2. portfolio \in Portfolio
    <3>1. <<>> \in Seq(Equities)
      OBVIOUS
    <3>2. CASE part = "health"
      <4>1. HealthInit
        BY <3>2 DEF Init
      <4> QED  BY <3>1, <4>1 DEF HealthInit, Portfolio
    <3>3. CASE part # "health"
      <4>1. portfolio = NoPortfolio
        BY <3>3 DEF Init
      <4> QED  BY <3>1, <4>1 DEF NoPortfolio, Portfolio
    <3> QED  BY <3>2, <3>3
  <2> QED  BY <2>1, <2>2, HealthConstants DEF HealthTypeOK
<1> QED
  BY <1>1, <1>2, <1>3, <1>4, <1>5, <1>6, <1>7, <1>8, <1>9 DEF TypeInv

LEMMA AlwaysTyped == Spec => []TypeInv
<1>1. Init => TypeInv
  BY InitTyped
<1>2. TypeInv /\ [Next]_vars => TypeInv'
  BY NextTyped
<1> QED  BY <1>1, <1>2, PTL DEF Spec

\* What the run checks of the types.
LEMMA TypesImply ==
  ASSUME TypeInv
  PROVE  TypeOK
<1>1. \A c \in Clients : /\ pc[c] = "idle" <=> req[c] = None
                         /\ req[c] \in Requests \cup {None}
  <2> SUFFICES ASSUME NEW c \in Clients
               PROVE  /\ pc[c] = "idle" <=> req[c] = None
                      /\ req[c] \in Requests \cup {None}
    OBVIOUS
  <2>1. CallFits(part, pc[c], req[c])
    BY DEF TypeInv, CallTypes
  <2>2. pc[c] = "idle" <=> req[c] = None
    BY <2>1, FitsTyped
  <2>3. req[c] \in Requests \cup {None}
    <3> HIDE DEF AccountCall, SettingsCall, BridgeCall, AutoCall, HistoryCall,
                 StreamCall
    <3> QED
      BY <2>1 DEF CallFits, AccountFits, SettingsFits, OrderFits, HistoryFits,
                  StreamFits, Requests
  <2> QED  BY <2>2, <2>3
<1>2. /\ requests \in 0 .. MaxRequests /\ faults \in 0 .. MaxFaults
      /\ SettingsTypeOK /\ BridgeTypeOK /\ AutoTypeOK /\ StreamTypeOK
      /\ SessionTypeOK /\ HealthTypeOK
  BY DEF TypeInv, CallTypes, BridgeTypes, StreamTypes
<1>3. AccountTypeOK
  BY DEF TypeInv, AccountTypes, AccountTypeOK, Broker, Snapshot
<1>4. HistoryTypeOK
  BY DEF TypeInv, HistoryTypes, HistoryTypeOK
<1> QED  BY <1>1, <1>2, <1>3, <1>4 DEF TypeOK

\* The tables and the requests of every part have their types, whatever the
\* requests, the failures and the deaths of the process.
THEOREM TypeCorrect == Spec => []TypeOK
<1>1. TypeInv => TypeOK
  BY TypesImply
<1> QED  BY <1>1, AlwaysTyped, PTL

-----------------------------------------------------------------------------
(***************************************************************************)
(* A step is one of its part, one of another, or the end of some requests; *)
(* an invariant of a part is proved for these three.                       *)
(***************************************************************************)
Elsewhere(p) == part # p \/ UNCHANGED apiVars
Stopping     == \E C \in SUBSET Clients :
                   Stops(C) /\ (part = "bridge" => C = Clients)

LEMMA StepOf ==
  ASSUME TypeInv, [Next]_vars
  PROVE  /\ TypeInv' /\ UNCHANGED part
         /\ \/ Stopping \/ AccountPart
            \/ Elsewhere("accounts") /\ UNCHANGED accountVars
         /\ \/ Stopping \/ SettingsPart
            \/ Elsewhere("settings") /\ UNCHANGED settingsVars
         /\ \/ Stopping \/ BridgePart
            \/ Elsewhere("bridge") /\ UNCHANGED bridgeVars
         /\ \/ Stopping \/ OrderPart
            \/ Elsewhere("orders") /\ UNCHANGED autoVars
         /\ \/ Stopping \/ HistoryPart
            \/ Elsewhere("history") /\ UNCHANGED historyVars
         /\ \/ Stopping \/ StreamPart
            \/ Elsewhere("stream") /\ UNCHANGED streamVars
<1>1. TypeInv'
  BY NextTyped
<1>2. CASE AccountPart
  BY <1>1, <1>2 DEF AccountPart, InPart, Elsewhere
<1>3. CASE SettingsPart
  BY <1>1, <1>3 DEF SettingsPart, InPart, Elsewhere
<1>4. CASE BridgePart
  BY <1>1, <1>4 DEF BridgePart, InPart, Elsewhere
<1>5. CASE OrderPart
  BY <1>1, <1>5 DEF OrderPart, InPart, Elsewhere
<1>6. CASE HistoryPart
  BY <1>1, <1>6 DEF HistoryPart, InPart, Elsewhere
<1>7. CASE StreamPart
  BY <1>1, <1>7 DEF StreamPart, InPart, Elsewhere
<1>8. CASE Calculations
  BY <1>1, <1>8 DEF Calculations, InPart, Elsewhere
<1>9. CASE (\E c \in Clients : Fails(c)) \/ Dies
  <2>1. Stopping
    BY <1>9, StopsIs DEF Stopping
  <2>2. UNCHANGED part
    BY <2>1 DEF Stopping, Stops
  <2> QED  BY <1>1, <2>1, <2>2
<1>10. CASE UNCHANGED vars
  BY <1>1, <1>10 DEF vars, Elsewhere
<1> QED
  BY <1>2, <1>3, <1>4, <1>5, <1>6, <1>7, <1>8, <1>9, <1>10 DEF Next

\* What the end of requests C is to the others.
LEMMA StopsOthers ==
  ASSUME NEW C \in SUBSET Clients, Stops(C), NEW c \in Clients
  PROVE  /\ c \in C => pc'[c] = "idle" /\ req'[c] = None
         /\ c \notin C => pc'[c] = pc[c] /\ req'[c] = req[c]
  BY DEF Stops

-----------------------------------------------------------------------------
(***************************************************************************)
(* Settings: a token that is not of two crossed requests is one of its     *)
(* provider, because a request that nobody crossed still knows the profile *)
(* that it checked its change against.                                     *)
(***************************************************************************)
TokenInv ==
    /\ blended \/ profile.token \in {None, profile.provider}
    /\ \A c \in Clients : pc[c] = "writeProfile" /\ c \notin crossed
                          => req[c].read = profile

LEMMA TokenStep ==
  ASSUME TypeInv, TypeInv', TokenInv, SettingsPart
  PROVE  TokenInv'
<1>1. PICK c \in Clients : SettingsRequest(c) \/ SettingsStep(c)
  BY DEF SettingsPart
<1> DEFINE r == req[c]
<1>2. CASE SettingsRequest(c)
  <2>1. \E x : ComesTo(c, "readProfile", x) /\ UNCHANGED settingsVars
    BY <1>2 DEF SettingsRequest, ComesTo
  <2> QED
    BY <2>1, ComesThere DEF TokenInv, settingsVars, TypeInv
<1>3. CASE ReadProfile(c)
  <2> DEFINE x == [r EXCEPT !.read = profile]
  <2>1. r \in SettingsCall
    BY <1>3, FitsOf DEF ReadProfile, SettingsLabels, SettingsFits, TypeInv
  <2>2. x.read = profile
    BY <2>1 DEF SettingsCall
  <2>3. /\ ComesTo(c, "writeProfile", x) /\ crossed' = crossed \ {c}
        /\ UNCHANGED <<profile, blended>>
    BY <1>3 DEF ReadProfile, ComesTo
  <2> HIDE DEF x
  <2> QED  BY <2>2, <2>3, ComesThere DEF TokenInv, TypeInv
<1>4. CASE WriteProfile(c)
  <2>1. /\ pc[c] = "writeProfile" /\ ~Refused(r) /\ profile' = Edited(r)
        /\ blended' = \/ c \in crossed
                      \/ SentBack(r)
                      \/ blended /\ r.apiToken \in {"absent", "masked"}
        /\ crossed' = (crossed \ {c})
                      \cup {d \in Clients \ {c} : pc[d] = "writeProfile"}
        /\ Finish(c)
    BY <1>4 DEF WriteProfile
  <2>2. r \in SettingsCall
    BY <2>1, FitsOf DEF SettingsLabels, SettingsFits, TypeInv
  <2>3. \A d \in Clients : pc'[d] = "writeProfile" => d \in crossed'
    BY <2>1, ComesThere, FinishTyped DEF TypeInv
  <2>4. blended' \/ profile'.token \in {None, profile'.provider}
    <3> SUFFICES ASSUME c \notin crossed, ~SentBack(r),
                        blended => r.apiToken \notin {"absent", "masked"}
                 PROVE  Edited(r).token \in {None, Edited(r).provider}
      BY <2>1
    <3>1. r.read = profile
      BY <2>1 DEF TokenInv
    <3>2. CASE r.apiToken \in {"blank", "new"}
      BY <3>1, <3>2 DEF Edited
    <3>4. CASE r.apiToken = "echoed"
      BY <3>1, <3>4 DEF Edited, SentBack
    <3>3. CASE r.apiToken \in {"absent", "masked"}
      <4>1. profile.token \in {None, profile.provider}
        BY <3>3 DEF TokenInv
      <4>2. r.provider \in {None, profile.provider} \/ profile.token = None
        BY <2>1, <3>1, <3>3 DEF Refused
      <4>3. Edited(r).token = profile.token
        BY <3>3 DEF Edited
      <4>4. Edited(r).provider \in {profile.provider, r.provider}
            /\ (r.provider = None => Edited(r).provider = profile.provider)
        BY DEF Edited, Chosen
      <4> QED  BY <4>1, <4>2, <4>3, <4>4
    <3> QED  BY <2>2, <3>2, <3>3, <3>4 DEF SettingsCall, ApiTokens
  <2> QED  BY <2>3, <2>4 DEF TokenInv
<1>5. CASE RefuseProfile(c)
  <2>1. /\ ComesTo(c, "idle", None) /\ crossed' = crossed \ {c}
        /\ UNCHANGED <<profile, blended>>
    BY <1>5, FinishTyped DEF RefuseProfile
  <2> QED  BY <2>1, ComesThere DEF TokenInv, TypeInv
<1> QED  BY <1>1, <1>2, <1>3, <1>4, <1>5 DEF SettingsStep

LEMMA TokenImplies ==
  ASSUME TypeInv, TokenInv
  PROVE  TokenOfItsProvider
<1>1. /\ SystemDefault.token \in {None, SystemDefault.provider}
      /\ SystemDefault.source # "personal"
  BY DEF SystemDefault, AgentDefault, AgentEnvDefault, ConfigDefault, NoLlm
<1>2. /\ NoLlm.token \in {None, NoLlm.provider} /\ NoLlm.source # "personal"
  BY DEF NoLlm
<1>3. \A x \in Profile : \/ EffectiveLlm(x) = SystemDefault
                          \/ /\ x.provider \in Supported
                             /\ EffectiveLlm(x) =
                                  [source |-> "personal", provider |-> x.provider,
                                   token |-> x.token]
  BY DEF EffectiveLlm
<1> DEFINE Sound(llm) == /\ llm.token \in {None, llm.provider}
                         /\ llm.source = "personal" => llm.provider \in Supported
           bare == [profile EXCEPT !.token = None]
<1>4. profile \in Profile /\ bare \in Profile /\ bare.token = None
  BY DEF TypeInv, SettingsTypeOK, Profile
<1>5. Sound(SystemDefault) /\ Sound(NoLlm)
  BY <1>1, <1>2
<1> HIDE DEF bare
<1>6. blended \/ (Sound(EffectiveLlm(profile)) /\ Sound(EffectiveLlm(bare)))
  BY <1>3, <1>4, <1>5 DEF TokenInv
<1> HIDE DEF Sound
<1>7. /\ RefineLlm("personal") \in {EffectiveLlm(profile), NoLlm}
      /\ RefineLlm("system") \in {EffectiveLlm(bare), NoLlm}
  BY DEF RefineLlm, bare
<1>8. blended \/ \A llm \in {EffectiveLlm(profile), RefineLlm("personal"),
                             RefineLlm("system")} : Sound(llm)
  BY <1>5, <1>6, <1>7
<1> QED  BY <1>8 DEF TokenOfItsProvider, Sound

\* A token goes only to the provider it was entered for, unless provider and
\* token are of two requests that crossed, or the plain token that getMySettings
\* gave out came back with another provider: updateMySettings checks a change
\* against the profile it has read, and nobody wrote in between.
THEOREM TokenSafe == Spec => []TokenOfItsProvider
<1>1. Init => TokenInv
  BY DEF Init, ApiInit, SettingsInit, TokenInv
<1>2. TypeInv /\ TokenInv /\ [Next]_vars => TokenInv'
  <2> SUFFICES ASSUME TypeInv, TokenInv, [Next]_vars
               PROVE  TokenInv'
    OBVIOUS
  <2>1. TypeInv' /\ UNCHANGED part
    BY StepOf
  <2>2. ASSUME NEW C \in SUBSET Clients, Stops(C)
        PROVE  TokenInv'
    <3>1. UNCHANGED <<profile, blended>> /\ crossed' = crossed \ C
      BY <2>2 DEF Stops, Leave, Uncrossed
    <3> QED  BY <2>2, <3>1, StopsOthers DEF TokenInv
  <2>3. CASE Elsewhere("settings") /\ UNCHANGED settingsVars
    <3>1. CASE UNCHANGED apiVars
      BY <2>3, <3>1 DEF TokenInv, apiVars, settingsVars
    <3>2. CASE part # "settings"
      <4>1. \A c \in Clients : pc'[c] # "writeProfile"
        BY <2>1, <3>2 DEF TypeInv, CallTypes, CallFits, AccountLabels, BindLabels,
                          BridgeLabels, OrderLabels, HistoryLabels, NewsLabels
      <4> QED  BY <2>3, <4>1 DEF TokenInv, settingsVars
    <3> QED  BY <2>3, <3>1, <3>2 DEF Elsewhere
  <2> QED  BY <2>1, <2>2, <2>3, TokenStep, StepOf DEF Stopping
<1>3. TypeInv /\ TokenInv => TokenOfItsProvider
  BY TokenImplies
<1> QED  BY <1>1, <1>2, <1>3, AlwaysTyped, PTL DEF Spec

-----------------------------------------------------------------------------
(***************************************************************************)
(* The bridge: one analysis is under way, or its verdict is known; and its *)
(* counts of failures are not more than the calls that failed.             *)
(***************************************************************************)
Counted(l, r, failures, outcome) ==
    /\ l = "create" => r.errors = 0
    /\ l \in {"create", "check", "poll"} => r.attempt = 1
    /\ l \in {"check", "poll"} => r.errors <= failures
    /\ l = "getRun" => /\ outcome.status = "completed" /\ outcome.run
                       /\ r.attempt <= failures + 1

VerdictInv ==
    /\ VerdictsTrue
    /\ part = "bridge" =>
          /\ \A c, d \in Clients : pc[c] # "idle" /\ pc[d] # "idle" => c = d
          /\ \A c \in Clients : pc[c] # "idle" =>
                verdict = None /\ Counted(pc[c], req[c], misses, agentTask)

\* The analysis goes on,
LEMMA VerdictGoesOn ==
  ASSUME TypeInv, VerdictInv, part = "bridge", UNCHANGED part,
         NEW c \in Clients, NEW l, NEW r, ComesTo(c, l, r),
         \A d \in Clients \ {c} : pc[d] = "idle",
         verdict' = None, Counted(l, r, misses', agentTask')
  PROVE  VerdictInv'
<1>1. VerdictsTrue'
  BY NullIsNoVerdict DEF VerdictsTrue, Verdicts
<1>2. /\ pc'[c] = l /\ req'[c] = r
      /\ \A d \in Clients \ {c} : pc'[d] = "idle"
  BY ComesThere DEF TypeInv
<1> QED  BY <1>1, <1>2 DEF VerdictInv, Counted

\* ... or comes to its verdict.
LEMMA VerdictIsGiven ==
  ASSUME TypeInv, VerdictInv, part = "bridge", UNCHANGED part,
         NEW c \in Clients, NEW v, Ends(c, v),
         \A d \in Clients \ {c} : pc[d] = "idle",
         /\ v \in {"run", "agent_run_fetch_failed"} =>
               agentTask'.status = "completed" /\ agentTask'.run
         /\ v = "agent_task_failed" => agentTask'.status = "failed"
         /\ v = "agent_poll_network_error" => misses' > MaxRetries
         /\ v = "agent_poll_timeout" => overdue'
  PROVE  VerdictInv'
<1>1. VerdictsTrue'
  BY DEF VerdictsTrue, Ends
<1>2. \A d \in Clients : pc'[d] = "idle"
  BY ComesThere, FinishTyped DEF TypeInv, Ends
<1> QED  BY <1>1, <1>2 DEF VerdictInv

\* What the status of a task leads to.
LEMMA VerdictFollows ==
  ASSUME TypeInv, VerdictInv, part = "bridge", UNCHANGED part,
         NEW c \in Clients, pc[c] \in {"create", "poll"}, Answered,
         Follow(c, agentTask'),
         pc[c] = "create" \/ agentTask'.status # "processing"
  PROVE  VerdictInv'
<1>1. /\ \A d \in Clients \ {c} : pc[d] = "idle"
      /\ verdict = None /\ Counted(pc[c], req[c], misses, agentTask)
      /\ req[c] \in BridgeCall
  BY FitsOf DEF VerdictInv, TypeInv, BridgeLabels
<1>2. misses' = 0 /\ req[c].attempt = 1 /\ req[c].attempt <= 0 + 1
  BY <1>1 DEF Answered, Counted
<1>3. CASE agentTask'.status = "completed" /\ agentTask'.run
           /\ On(c, "getRun", req[c])
  <2>1. Counted("getRun", req[c], misses', agentTask')
    BY <1>2, <1>3 DEF Counted
  <2> QED  BY <1>1, <1>3, <2>1, VerdictGoesOn DEF On, ComesTo
<1>4. CASE agentTask'.status = "failed" /\ Ends(c, "agent_task_failed")
  BY <1>1, <1>4, VerdictIsGiven
<1>5. CASE Ends(c, "agent_task_invalid_payload")
  BY <1>1, <1>5, VerdictIsGiven
<1>6. CASE pc[c] = "create" /\ On(c, "poll", req[c])
  <2>1. req[c].errors <= misses' /\ req[c].errors = 0
    BY <1>1, <1>2, <1>6 DEF Counted
  <2>2. Counted("poll", req[c], misses', agentTask')
    BY <1>2, <1>6, <2>1 DEF Counted
  <2> QED  BY <1>1, <1>6, <2>2, VerdictGoesOn DEF On, ComesTo
<1> QED  BY <1>3, <1>4, <1>5, <1>6 DEF Follow

LEMMA VerdictStep ==
  ASSUME TypeInv, TypeInv', VerdictInv, UNCHANGED part, BridgePart
  PROVE  VerdictInv'
<1>1. part = "bridge"
  BY DEF BridgePart, InPart
<1>2. misses \in Nat /\ missed \in Nat /\ MaxRetries \in Nat
  BY BridgeConstants DEF TypeInv, BridgeTypes, BridgeTypeOK
<1>3. CASE AgentWorks
  <2>1. agentTask.status = "processing" /\ UNCHANGED <<apiVars, overdue, misses,
                                                        missed, verdict>>
    BY <1>3 DEF AgentWorks
  <2>2. VerdictsTrue'
    BY <2>1 DEF VerdictInv, VerdictsTrue
  <2>3. UNCHANGED <<pc, req, misses, verdict>>
    BY <2>1 DEF apiVars
  <2>4. \A c \in Clients : pc[c] # "idle" =>
           Counted(pc[c], req[c], misses, agentTask')
    BY <1>1, <2>1 DEF VerdictInv, Counted
  <2> QED  BY <1>1, <2>2, <2>3, <2>4 DEF VerdictInv
<1>4. CASE PollTimePasses
  <2>1. overdue' = TRUE /\ UNCHANGED <<pc, req, agentTask, misses, verdict>>
    BY <1>4 DEF PollTimePasses, apiVars
  <2> QED  BY <2>1 DEF VerdictInv, VerdictsTrue
<1>5. ASSUME NEW c \in Clients, BridgeRequest(c) PROVE VerdictInv'
  <2> DEFINE x == [kind |-> "bridge", errors |-> 0, attempt |-> 1]
  <2>1. /\ \A d \in Clients : pc[d] = "idle"
        /\ Arrive(c, "create", x) /\ misses' = 0 /\ verdict' = None
    BY <1>5 DEF BridgeRequest
  <2>2. Counted("create", x, misses', agentTask')
    BY DEF Counted
  <2> HIDE DEF x
  <2> QED  BY <1>1, <2>1, <2>2, VerdictGoesOn DEF ComesTo
<1>6. ASSUME NEW c \in Clients, BridgeStep(c) PROVE VerdictInv'
  <2> DEFINE r == req[c]
  <2>1. pc[c] # "idle" /\ pc[c] \in BridgeLabels
    BY <1>6 DEF BridgeStep, CreateRunAsync, CheckTime, Poll, PollFails, GetRun,
                GetRunFails, BridgeLabels
  <2>2. /\ \A d \in Clients \ {c} : pc[d] = "idle"
        /\ verdict = None /\ Counted(pc[c], r, misses, agentTask)
        /\ r \in BridgeCall
    BY <1>1, <2>1, FitsOf DEF VerdictInv, TypeInv
  <2>3. r.errors \in Nat /\ r.attempt \in Nat
    BY <2>2 DEF BridgeCall
  <2>4. CASE CreateRunAsync(c)
    <3>1. pc[c] = "create"
      BY <2>4 DEF CreateRunAsync
    <3>2. \/ Follow(c, agentTask') /\ Answered
          \/ Ends(c, "agent_task_invalid_payload")
          \/ Ends(c, "agent_task_submit_failed")
      BY <2>4 DEF CreateRunAsync
    <3>3. CASE Follow(c, agentTask') /\ Answered
      BY <1>1, <3>1, <3>3, VerdictFollows
    <3>4. CASE Ends(c, "agent_task_invalid_payload")
      BY <1>1, <2>2, <3>4, VerdictIsGiven
    <3>5. CASE Ends(c, "agent_task_submit_failed")
      BY <1>1, <2>2, <3>5, VerdictIsGiven
    <3> QED  BY <3>2, <3>3, <3>4, <3>5
  <2>5. CASE CheckTime(c)
    <3>1. pc[c] = "check" /\ UNCHANGED <<agentTask, overdue, misses, missed>>
      BY <2>5 DEF CheckTime
    <3>2. CASE overdue /\ Ends(c, "agent_poll_timeout")
      BY <1>1, <2>2, <3>1, <3>2, VerdictIsGiven
    <3>3. CASE On(c, "poll", r)
      <4>1. Counted("poll", r, misses', agentTask')
        BY <2>2, <3>1 DEF Counted
      <4> QED  BY <1>1, <2>2, <3>3, <4>1, VerdictGoesOn DEF On, ComesTo
    <3> QED  BY <2>5, <3>2, <3>3 DEF CheckTime
  <2>6. CASE Poll(c)
    <3>1. pc[c] = "poll" /\ Answered /\ UNCHANGED <<agentTask, overdue>>
      BY <2>6 DEF Poll
    <3>2. CASE agentTask.status = "processing"
      <4> DEFINE x == AfterAnswer(r)
      <4>1. On(c, "check", x)
        BY <2>6, <3>2 DEF Poll
      <4>2. x.errors = 0 /\ x.attempt = r.attempt
        BY <2>2 DEF AfterAnswer, BridgeCall
      <4>3. misses' = 0 /\ r.attempt = 1
        BY <2>2, <3>1 DEF Answered, Counted
      <4> HIDE DEF x
      <4>4. Counted("check", x, misses', agentTask')
        BY <4>2, <4>3 DEF Counted
      <4> QED  BY <1>1, <2>2, <4>1, <4>4, VerdictGoesOn DEF On, ComesTo
    <3>3. CASE agentTask.status # "processing"
      <4>1. Follow(c, agentTask)
        BY <2>6, <3>3 DEF Poll
      <4>2. Follow(c, agentTask')
        BY <3>1, <4>1 DEF Follow
      <4> QED  BY <1>1, <3>1, <3>3, <4>2, VerdictFollows
    <3> QED  BY <3>2, <3>3
  <2>7. CASE PollFails(c)
    <3>1. /\ pc[c] = "poll" /\ misses' = misses + 1
          /\ UNCHANGED <<agentTask, overdue>>
      BY <2>7 DEF PollFails, Misses
    <3>2. r.errors <= misses /\ r.attempt = 1
      BY <2>2, <3>1 DEF Counted
    <3>3. CASE Ends(c, "agent_upstream_error")
      BY <1>1, <2>2, <3>3, VerdictIsGiven
    <3>4. CASE r.errors + 1 > MaxRetries /\ Ends(c, "agent_poll_network_error")
      <4>1. misses' > MaxRetries
        BY <1>2, <2>3, <3>1, <3>2, <3>4
      <4> QED  BY <1>1, <2>2, <3>4, <4>1, VerdictIsGiven
    <3>5. CASE On(c, "check", [r EXCEPT !.errors = @ + 1])
      <4> DEFINE x == [r EXCEPT !.errors = @ + 1]
      <4>1. x.errors = r.errors + 1 /\ x.attempt = 1
        BY <2>2, <3>2 DEF BridgeCall
      <4> HIDE DEF x
      <4>2. Counted("check", x, misses', agentTask')
        BY <1>2, <2>3, <3>1, <3>2, <4>1 DEF Counted
      <4>3. On(c, "check", x)
        BY <3>5 DEF x
      <4> QED  BY <1>1, <2>2, <4>2, <4>3, VerdictGoesOn DEF On, ComesTo
    <3> QED  BY <2>7, <3>3, <3>4, <3>5 DEF PollFails
  <2>8. CASE GetRun(c)
    <3>1. /\ pc[c] = "getRun" /\ UNCHANGED <<agentTask, overdue>>
          /\ Ends(c, "run")
      BY <2>8 DEF GetRun
    <3>2. agentTask'.status = "completed" /\ agentTask'.run
      BY <2>2, <3>1 DEF Counted
    <3> QED  BY <1>1, <2>2, <3>1, <3>2, VerdictIsGiven
  <2>9. CASE GetRunFails(c)
    <3>1. /\ pc[c] = "getRun" /\ misses' = misses + 1
          /\ UNCHANGED <<agentTask, overdue>>
      BY <2>9 DEF GetRunFails, Misses
    <3>2. /\ agentTask'.status = "completed" /\ agentTask'.run
          /\ r.attempt <= misses + 1
      BY <2>2, <3>1 DEF Counted
    <3>3. CASE Ends(c, "agent_run_fetch_failed")
      BY <1>1, <2>2, <3>2, <3>3, VerdictIsGiven
    <3>4. CASE r.attempt > MaxRetries /\ Ends(c, "agent_poll_network_error")
      <4>1. misses' > MaxRetries
        BY <1>2, <2>3, <3>1, <3>2, <3>4
      <4> QED  BY <1>1, <2>2, <3>4, <4>1, VerdictIsGiven
    <3>5. CASE On(c, "getRun", [r EXCEPT !.attempt = @ + 1])
      <4> DEFINE x == [r EXCEPT !.attempt = @ + 1]
      <4>1. x.attempt = r.attempt + 1
        BY <2>2 DEF BridgeCall
      <4> HIDE DEF x
      <4>2. Counted("getRun", x, misses', agentTask')
        BY <1>2, <2>3, <3>1, <3>2, <4>1 DEF Counted
      <4>3. On(c, "getRun", x)
        BY <3>5 DEF x
      <4> QED  BY <1>1, <2>2, <4>2, <4>3, VerdictGoesOn DEF On, ComesTo
    <3> QED  BY <2>9, <3>3, <3>4, <3>5 DEF GetRunFails
  <2> QED
    BY <1>6, <2>4, <2>5, <2>6, <2>7, <2>8, <2>9 DEF BridgeStep
<1> QED  BY <1>3, <1>4, <1>5, <1>6 DEF BridgePart

\* The verdict of the bridge is the truth about the Agent's task: it gives up
\* on the network only after more failures in a row than it tries again after,
\* because any answer sets the count of errors back.
THEOREM VerdictSafe == Spec => []VerdictsTrue
<1>1. Init => VerdictInv
  BY NullIsNoVerdict
     DEF Init, ApiInit, BridgeInit, VerdictInv, VerdictsTrue, Verdicts
<1>2. TypeInv /\ VerdictInv /\ [Next]_vars => VerdictInv'
  <2> SUFFICES ASSUME TypeInv, VerdictInv, [Next]_vars
               PROVE  VerdictInv'
    OBVIOUS
  <2>1. TypeInv' /\ UNCHANGED part
    BY StepOf
  <2>2. ASSUME NEW C \in SUBSET Clients, Stops(C), part = "bridge" => C = Clients
        PROVE  VerdictInv'
    <3>1. UNCHANGED bridgeVars
      BY <2>2 DEF Stops
    <3>2. VerdictsTrue'
      BY <3>1 DEF VerdictInv, VerdictsTrue, bridgeVars
    <3>3. part = "bridge" => \A c \in Clients : pc'[c] = "idle"
      BY <2>2, StopsOthers
    <3> QED  BY <2>1, <3>2, <3>3 DEF VerdictInv
  <2>3. CASE Elsewhere("bridge") /\ UNCHANGED bridgeVars
    <3>1. VerdictsTrue'
      BY <2>3 DEF VerdictInv, VerdictsTrue, bridgeVars
    <3>2. part = "bridge" => UNCHANGED <<pc, req, verdict, misses, agentTask>>
      BY <2>3 DEF Elsewhere, apiVars, bridgeVars
    <3> QED  BY <2>1, <3>1, <3>2 DEF VerdictInv
  <2> QED  BY <2>1, <2>2, <2>3, VerdictStep, StepOf DEF Stopping
<1>3. VerdictInv => VerdictsTrue
  BY DEF VerdictInv
<1> QED  BY <1>1, <1>2, <1>3, AlwaysTyped, PTL DEF Spec

-----------------------------------------------------------------------------
(***************************************************************************)
(* Orders: what a worker has looked at holds until the account moves.      *)
(***************************************************************************)
OrderInv ==
    \A c \in Clients : pc[c] = "place" /\ c \notin drained
        => Affords(holding, req[c].signal, req[c].quantity)

LEMMA OrderStep ==
  ASSUME TypeInv, OrderInv, OrderPart
  PROVE  OrderInv'
<1>1. CASE AccountMoves
  <2>1. /\ \A d \in Clients : pc'[d] = "place" => d \in drained'
    BY <1>1 DEF AccountMoves, apiVars
  <2> QED  BY <2>1 DEF OrderInv
<1>2. ASSUME NEW c \in Clients, NEW l, NEW x, ComesTo(c, l, x),
             UNCHANGED holding, drained \ {c} \subseteq drained',
             l = "place" => Affords(holding, x.signal, x.quantity)
      PROVE  OrderInv'
  <2>1. \A d \in Clients : /\ d = c => pc'[d] = l /\ req'[d] = x
                           /\ d # c => pc'[d] = pc[d] /\ req'[d] = req[d]
    BY <1>2, ComesThere DEF TypeInv
  <2> SUFFICES ASSUME NEW d \in Clients, pc'[d] = "place", d \notin drained'
               PROVE  Affords(holding', req'[d].signal, req'[d].quantity)
    BY DEF OrderInv
  <2>2. CASE d = c
    BY <1>2, <2>1, <2>2
  <2>3. CASE d # c
    <3>1. Affords(holding, req[d].signal, req[d].quantity)
      BY <1>2, <2>1, <2>3 DEF OrderInv
    <3> QED  BY <1>2, <2>1, <2>3, <3>1
  <2> QED  BY <2>2, <2>3
<1>3. ASSUME NEW c \in Clients, AutoRequest(c) PROVE OrderInv'
  <2>1. \E x : ComesTo(c, "precheck", x) /\ UNCHANGED autoVars
    BY <1>3 DEF AutoRequest, ComesTo
  <2> QED  BY <1>2, <2>1 DEF autoVars
<1>4. ASSUME NEW c \in Clients, Precheck(c) PROVE OrderInv'
  <2>1. UNCHANGED holding /\ drained' = drained \ {c}
    BY <1>4 DEF Precheck
  <2>2. CASE Finish(c)
    BY <1>2, <2>1, <2>2, FinishTyped
  <2>3. CASE /\ Goto(c, "place", req[c])
             /\ Affords(holding, req[c].signal, req[c].quantity)
    BY <1>2, <2>1, <2>3 DEF ComesTo
  <2> QED  BY <1>4, <2>2, <2>3 DEF Precheck
<1>5. ASSUME NEW c \in Clients, Place(c) PROVE OrderInv'
  <2>1. /\ ComesTo(c, "idle", None)
        /\ drained' = (drained \ {c})
                      \cup {d \in Clients \ {c} : /\ pc[d] = "place"
                                                  /\ holding' # holding}
    BY <1>5, FinishTyped DEF Place
  <2>2. CASE UNCHANGED holding
    BY <1>2, <2>1, <2>2
  <2>3. CASE holding' # holding
    <3>1. \A d \in Clients : pc'[d] = "place" => d \in drained'
      BY <2>1, <2>3, ComesThere DEF TypeInv
    <3> QED  BY <3>1 DEF OrderInv
  <2> QED  BY <2>2, <2>3
<1> QED  BY <1>1, <1>3, <1>4, <1>5 DEF OrderPart, AutoStep

\* What a worker places is the largest order within both limits that the signal
\* asks for, and the account can carry it out, unless it moved after the look of
\* runAutoOrderPrecheck.
THEOREM OrderSafe == Spec => OrderWithinMeans
<1>1. Init => OrderInv
  BY DEF Init, ApiInit, OrderInv
<1>2. TypeInv /\ OrderInv /\ [Next]_vars => OrderInv'
  <2> SUFFICES ASSUME TypeInv, OrderInv, [Next]_vars
               PROVE  OrderInv'
    OBVIOUS
  <2>1. TypeInv' /\ UNCHANGED part
    BY StepOf
  <2>2. ASSUME NEW C \in SUBSET Clients, Stops(C)
        PROVE  OrderInv'
    <3>1. UNCHANGED holding /\ drained' = drained \ C
      BY <2>2 DEF Stops, Leave, Undrained
    <3> HIDE DEF Affords
    <3> QED  BY <2>2, <3>1, StopsOthers DEF OrderInv
  <2>3. CASE Elsewhere("orders") /\ UNCHANGED autoVars
    <3>1. CASE UNCHANGED apiVars
      BY <2>3, <3>1 DEF OrderInv, apiVars, autoVars
    <3>2. CASE part # "orders"
      <4>1. \A c \in Clients : pc'[c] # "place"
        BY <2>1, <3>2 DEF TypeInv, CallTypes, CallFits, AccountLabels, BindLabels,
                          SettingsLabels, BridgeLabels, HistoryLabels, NewsLabels
      <4> QED  BY <4>1 DEF OrderInv
    <3> QED  BY <2>3, <3>1, <3>2 DEF Elsewhere
  <2> QED  BY <2>1, <2>2, <2>3, OrderStep, StepOf DEF Stopping
<1>3. TypeInv /\ OrderInv /\ [Next]_vars =>
         [\A c \in Clients :
            pc[c] = "place" /\ pc'[c] = "idle" /\ faults' = faults =>
               LET s == req[c].signal
                   n == req[c].quantity
                   Within(k) == /\ k <= s.wanted /\ k <= MaxQty
                                /\ k * s.price <= MaxNotional
               IN  /\ n > 0 /\ Within(n) /\ ~Within(n + 1)
                   /\ Affords(holding, s, n) \/ c \in drained]_vars
  <2> SUFFICES ASSUME TypeInv, OrderInv, NEW c \in Clients, pc[c] = "place"
               PROVE  LET s == req[c].signal
                          n == req[c].quantity
                          Within(k) == /\ k <= s.wanted /\ k <= MaxQty
                                       /\ k * s.price <= MaxNotional
                      IN  /\ n > 0 /\ Within(n) /\ ~Within(n + 1)
                          /\ Affords(holding, s, n) \/ c \in drained
    OBVIOUS
  <2>1. OrderFits("place", req[c])
    BY FitsOf DEF TypeInv, OrderLabels
  <2>2. /\ req[c].signal \in Signal /\ req[c].signal.price > 0
        /\ req[c].quantity = Limited(req[c].signal) /\ req[c].quantity > 0
    BY <2>1 DEF OrderFits, AutoCall, Executable
  <2>3. Affords(holding, req[c].signal, req[c].quantity) \/ c \in drained
    BY DEF OrderInv
  <2> HIDE DEF Limited
  <2> QED  BY <2>2, <2>3, LimitedIsLargest
<1> QED  BY <1>1, <1>2, <1>3, AlwaysTyped, PTL DEF Spec, OrderWithinMeans

-----------------------------------------------------------------------------
(***************************************************************************)
(* History: who is about to create a row has found none, and who stores    *)
(* news of a message has its row; what was read of a row of news is what   *)
(* is in it, for those that nobody overtook.                               *)
(***************************************************************************)
Recalls(l, r, rows, doubles) ==
    /\ l = "createRow" /\ <<r.owner, r.message, Head(r.stocks)>> \notin doubles
       => rows[r.owner][r.message][Head(r.stocks)] = 0
    /\ l \in NewsLabels /\ r.message # None
       => rows[r.owner][r.message][Head(r.stocks)] > 0

RowsInv ==
    /\ \A o \in Owners, m \in Messages, s \in Stocks :
          history[o][m][s] > 1 => <<o, m, s>> \in doubled
    /\ \A c \in Clients : Recalls(pc[c], req[c], history, doubled)

NewsInv ==
    \A c \in Clients : pc[c] = "fillNews" /\ c \notin raced
                       => req[c].found = news[req[c].url]

\* Steps that create no row of history.
LEMMA RowsKept ==
  ASSUME TypeInv, RowsInv, UNCHANGED <<history, doubled>>,
         NEW c \in Clients, NEW l, NEW x, ComesTo(c, l, x),
         Recalls(l, x, history, doubled)
  PROVE  RowsInv'
<1>1. \A d \in Clients : Recalls(pc'[d], req'[d], history, doubled)
  BY ComesThere DEF RowsInv, TypeInv
<1> HIDE DEF Recalls
<1> QED  BY <1>1 DEF RowsInv

\* Steps after which nobody who was not overtaken holds a row of news that
\* differs.
LEMMA NewsHeld ==
  ASSUME TypeInv, NewsInv, NEW c \in Clients, NEW l, NEW x, ComesTo(c, l, x),
         l = "fillNews" /\ c \notin raced' => x.found = news'[x.url],
         \A d \in Clients \ {c} : pc[d] = "fillNews" /\ d \notin raced'
            => d \notin raced /\ news'[req[d].url] = news[req[d].url]
  PROVE  NewsInv'
<1>1. \A d \in Clients : /\ d = c => pc'[d] = l /\ req'[d] = x
                         /\ d # c => pc'[d] = pc[d] /\ req'[d] = req[d]
  BY ComesThere DEF TypeInv
<1> SUFFICES ASSUME NEW d \in Clients, pc'[d] = "fillNews", d \notin raced'
             PROVE  req'[d].found = news'[req'[d].url]
  BY DEF NewsInv
<1>2. CASE d = c
  BY <1>1, <1>2
<1>3. CASE d # c
  <2>1. req[d].found = news[req[d].url]
    BY <1>1, <1>3 DEF NewsInv
  <2> QED  BY <1>1, <1>3, <2>1
<1> QED  BY <1>2, <1>3

\* The row that is created is counted, and who was about to create it as well
\* is noted.
LEMMA RowCreated ==
  ASSUME TypeInv, RowsInv, part = "history", NEW c \in Clients, CreateRow(c)
  PROVE  RowsInv'
<1> DEFINE r == req[c]
           o == r.owner
           m == r.message
           s == Head(r.stocks)
<1>1. pc[c] = "createRow" /\ ComesTo(c, "findNews", r)
  <2> HIDE DEF Goto
  <2> QED  BY Zenon DEF CreateRow, ComesTo
<1>2. r \in HistoryCall /\ HistoryFits("createRow", r)
  BY <1>1, FitsOf DEF TypeInv, HistoryLabels, HistoryFits
<1>3. o \in Owners /\ m \in Messages /\ s \in Stocks
  BY <1>2 DEF HistoryFits, HistoryCall
<1>4. /\ history' = [history EXCEPT ![o][m][s] = @ + 1]
      /\ doubled' = doubled \cup
            {<<o, m, s>> : d \in {e \in Clients \ {c} :
                /\ pc[e] = "createRow" /\ req[e].owner = o
                /\ QueryId(req[e].message, Head(req[e].stocks)) = <<m, s>>}}
  BY DEF CreateRow, QueryId
<1>5. <<o, m, s>> \in doubled \/ history[o][m][s] = 0
  BY <1>1 DEF RowsInv, Recalls
<1>6. \A d \in Clients \ {c} :
         /\ pc[d] = "createRow"
         /\ req[d].owner = o /\ req[d].message = m /\ Head(req[d].stocks) = s
         => <<o, m, s>> \in doubled'
  BY <1>4 DEF QueryId
<1>7. doubled \subseteq doubled'
  BY <1>4
<1>8. \A d \in Clients : pc[d] \in HistoryLabels =>
         /\ req[d].owner \in Owners /\ Head(req[d].stocks) \in Stocks
         /\ req[d].message \in Messages \cup {None}
         /\ pc[d] = "createRow" => req[d].message \in Messages
  BY FitsOf DEF TypeInv, HistoryFits, HistoryCall
<1>9. history \in [Owners -> [Messages -> [Stocks -> Nat]]]
  BY DEF TypeInv, HistoryTypes
<1> HIDE DEF r, o, m, s
<1>10. \A p \in Owners, n \in Messages, t \in Stocks :
          /\ history'[p][n][t] = IF p = o /\ n = m /\ t = s
                                 THEN history[o][m][s] + 1 ELSE history[p][n][t]
          /\ history[p][n][t] \in Nat
  BY <1>3, <1>4, <1>9
<1>11. \A p \in Owners, n \in Messages, t \in Stocks :
          history'[p][n][t] > 1 => <<p, n, t>> \in doubled'
  <2> SUFFICES ASSUME NEW p \in Owners, NEW n \in Messages, NEW t \in Stocks,
                      history'[p][n][t] > 1
               PROVE  <<p, n, t>> \in doubled'
    OBVIOUS
  <2>1. CASE p = o /\ n = m /\ t = s
    BY <1>5, <1>7, <1>10, <2>1
  <2>2. CASE ~(p = o /\ n = m /\ t = s)
    BY <1>7, <1>10, <2>2 DEF RowsInv
  <2> QED  BY <2>1, <2>2
<1>12. \A d \in Clients \ {c} : Recalls(pc[d], req[d], history', doubled')
  <2> SUFFICES ASSUME NEW d \in Clients \ {c}
               PROVE  Recalls(pc[d], req[d], history', doubled')
    OBVIOUS
  <2> DEFINE p == req[d].owner
             n == req[d].message
             t == Head(req[d].stocks)
  <2>1. Recalls(pc[d], req[d], history, doubled)
    BY DEF RowsInv
  <2>2. CASE pc[d] = "createRow" /\ <<p, n, t>> \notin doubled'
    <3>1. p \in Owners /\ n \in Messages /\ t \in Stocks
      BY <1>8, <2>2 DEF HistoryLabels
    <3>2. history[p][n][t] = 0
      BY <1>7, <2>1, <2>2 DEF Recalls
    <3>3. ~(p = o /\ n = m /\ t = s)
      BY <1>6, <2>2
    <3>4. history'[p][n][t] = 0
      BY <1>10, <3>1, <3>2, <3>3
    <3> QED  BY <2>2, <3>4 DEF Recalls, NewsLabels
  <2>3. CASE pc[d] \in NewsLabels /\ n # None
    <3>1. p \in Owners /\ n \in Messages /\ t \in Stocks
      BY <1>8, <2>3 DEF HistoryLabels
    <3>2. history[p][n][t] > 0
      BY <2>1, <2>3 DEF Recalls
    <3>3. history'[p][n][t] > 0
      <4>1. history[p][n][t] \in Nat /\ history[o][m][s] \in Nat
        BY <1>3, <1>10, <3>1
      <4>2. CASE p = o /\ n = m /\ t = s
        BY <1>3, <1>10, <4>1, <4>2
      <4>3. CASE ~(p = o /\ n = m /\ t = s)
        <5>1. history'[p][n][t] = history[p][n][t]
          BY <1>10, <3>1, <4>3
        <5> QED  BY <3>2, <5>1
      <4> QED  BY <4>2, <4>3
    <3> QED  BY <2>3, <3>3 DEF Recalls, NewsLabels
  <2> QED  BY <2>2, <2>3 DEF Recalls
<1>13. Recalls("findNews", r, history', doubled')
  <2>1. history'[o][m][s] > 0
    BY <1>3, <1>10
  <2> QED  BY <2>1 DEF Recalls, o, m, s
<1>14. \A d \in Clients : Recalls(pc'[d], req'[d], history', doubled')
  BY <1>1, <1>12, <1>13, ComesThere DEF TypeInv
<1> HIDE DEF Recalls
<1> QED  BY <1>11, <1>14 DEF RowsInv

LEMMA HistoryStepKeeps ==
  ASSUME TypeInv, RowsInv, NewsInv, HistoryPart
  PROVE  RowsInv' /\ NewsInv'
<1>1. part = "history" /\ UNCHANGED part
  BY DEF HistoryPart, InPart
<1>2. PICK c \in Clients : SaveRequest(c) \/ SyncRequest(c) \/ HistoryStep(c)
  BY DEF HistoryPart
<1> DEFINE r == req[c]
<1>3. pc[c] \in HistoryLabels => HistoryFits(pc[c], r) /\ r \in HistoryCall
  BY FitsOf DEF TypeInv, HistoryFits
<1>4. ASSUME NEW l \in {"idle", "findRow"}, NEW x, ComesTo(c, l, x),
             UNCHANGED <<history, doubled>>
      PROVE  RowsInv'
  <2>1. Recalls(l, x, history, doubled)
    BY DEF Recalls, NewsLabels
  <2> QED  BY <1>4, <2>1, RowsKept
<1>5. ASSUME NEW l, NEW x, ComesTo(c, l, x), l # "fillNews",
             raced \ {c} \subseteq raced', UNCHANGED news
      PROVE  NewsInv'
  BY <1>5, NewsHeld
<1>6. CASE SaveRequest(c)
  <2>1. \E x : ComesTo(c, "findRow", x) /\ UNCHANGED historyVars
    BY <1>6 DEF SaveRequest, ComesTo
  <2> QED  BY <1>4, <1>5, <2>1 DEF historyVars
<1>7. CASE SyncRequest(c)
  <2>1. PICK x : ComesTo(c, "findNews", x) /\ x.message = None
                 /\ UNCHANGED historyVars
    <3>1. PICK o \in Owners, s \in Stocks, u \in Urls :
             Arrive(c, "findNews", NoteCall(o, None, <<s>>, u))
      BY <1>7 DEF SyncRequest
    <3>2. NoteCall(o, None, <<s>>, u).message = None
      BY DEF NoteCall
    <3>3. UNCHANGED historyVars
      BY <1>7 DEF SyncRequest
    <3> QED  BY <3>1, <3>2, <3>3 DEF ComesTo
  <2>2. Recalls("findNews", x, history, doubled)
    BY <2>1 DEF Recalls
  <2> QED  BY <1>5, <2>1, <2>2, RowsKept DEF historyVars
<1>8. CASE FindRow(c)
  <2> DEFINE n == history[r.owner][r.message][Head(r.stocks)]
             l == IF n = 0 THEN "createRow" ELSE "findNews"
  <2>1. ComesTo(c, l, r) /\ UNCHANGED historyVars /\ pc[c] = "findRow"
    <3>1. QueryId(r.message, Head(r.stocks)) = <<r.message, Head(r.stocks)>>
      BY DEF QueryId
    <3>2. Saved(r.owner, QueryId(r.message, Head(r.stocks))) = n
      <4>1. \A o, m, s : Saved(o, <<m, s>>) = history[o][m][s]
        BY DEF Saved
      <4> QED  BY <3>1, <4>1
    <3>3. Goto(c, l, r) /\ UNCHANGED historyVars /\ pc[c] = "findRow"
      <4>1. Goto(c, IF Saved(r.owner, QueryId(r.message, Head(r.stocks))) = 0
                    THEN "createRow" ELSE "findNews", r)
            /\ UNCHANGED historyVars /\ pc[c] = "findRow"
        <5> HIDE DEF Goto, Saved, QueryId, historyVars
        <5> QED  BY <1>8, Zenon DEF FindRow
      <4> HIDE DEF n
      <4> QED  BY <3>2, <4>1
    <3> QED  BY <3>3 DEF ComesTo
  <2>2. n \in Nat
    <3>1. /\ r.owner \in Owners /\ r.message \in Messages
          /\ Head(r.stocks) \in Stocks
      BY <1>3, <2>1 DEF HistoryFits, HistoryCall, HistoryLabels
    <3> QED  BY <3>1 DEF TypeInv, HistoryTypes
  <2> HIDE DEF n
  <2>3. Recalls(l, r, history, doubled)
    <3>1. CASE n = 0
      <4>1. l = "createRow"
        BY <3>1
      <4> QED  BY <3>1, <4>1 DEF Recalls, NewsLabels, n
    <3>2. CASE n # 0
      <4>1. l = "findNews" /\ n > 0
        BY <2>2, <3>2
      <4> QED  BY <4>1 DEF Recalls, n
    <3> QED  BY <3>1, <3>2
  <2> QED  BY <1>5, <2>1, <2>3, RowsKept DEF historyVars
<1>9. CASE CreateRow(c)
  <2>1. UNCHANGED <<news, raced>> /\ ComesTo(c, "findNews", r)
    <3> HIDE DEF Goto
    <3> QED  BY <1>9, Zenon DEF CreateRow, ComesTo
  <2> QED  BY <1>1, <1>5, <1>9, <2>1, RowCreated
<1>10. CASE FindNews(c)
  <2> DEFINE n == news[r.url]
             x == [r EXCEPT !.found = n]
             l == IF n = None THEN "createNews" ELSE "fillNews"
  <2>1. /\ pc[c] = "findNews" /\ ComesTo(c, l, x) /\ raced' = raced \ {c}
        /\ UNCHANGED <<history, news, doubled>>
    BY <1>10 DEF FindNews, ComesTo
  <2>2. r \in HistoryCall
    BY <1>3, <2>1 DEF HistoryLabels, NewsLabels
  <2>3. /\ x.found = n /\ x.url = r.url /\ x.owner = r.owner
        /\ x.message = r.message /\ x.stocks = r.stocks
    BY <2>2 DEF HistoryCall
  <2>4. Recalls("findNews", r, history, doubled)
    BY <2>1 DEF RowsInv
  <2> HIDE DEF x
  <2>5. Recalls(l, x, history, doubled)
    BY <2>3, <2>4 DEF Recalls, NewsLabels
  <2>6. NewsInv'
    BY <2>1, <2>3, NewsHeld
  <2> QED  BY <2>1, <2>5, <2>6, RowsKept
<1>11. ASSUME pc[c] \in {"fillNews", "createNews"},
              NextStock(c), Races(c), UNCHANGED <<history, doubled>>,
              \A u \in Urls \ {r.url} : news'[u] = news[u]
       PROVE  RowsInv' /\ NewsInv'
  <2>1. \E k \in {"idle", "findRow"}, x \in AllCalls \cup {None} :
           ComesTo(c, k, x)
    BY <1>1, <1>3, <1>11, NextStockTyped DEF TypeInv, NewsLabels, HistoryLabels
  <2>2. \A d \in Clients \ {c} : pc[d] = "fillNews" /\ d \notin raced'
           => d \notin raced /\ news'[req[d].url] = news[req[d].url]
    <3> SUFFICES ASSUME NEW d \in Clients \ {c}, pc[d] = "fillNews",
                        d \notin raced'
                 PROVE  d \notin raced /\ news'[req[d].url] = news[req[d].url]
      OBVIOUS
    <3>1. req[d].url \in Urls
      BY FitsOf DEF TypeInv, HistoryLabels, NewsLabels, HistoryFits, HistoryCall
    <3>2. d \notin raced /\ req[d].url # r.url
      BY <1>11 DEF Races
    <3> QED  BY <1>11, <3>1, <3>2
  <2> QED  BY <1>4, <1>11, <2>1, <2>2, NewsHeld
<1>12. CASE FillNews(c)
  <2>1. pc[c] = "fillNews" /\ NextStock(c) /\ Races(c) /\ UNCHANGED <<history, doubled>>
    BY <1>12 DEF FillNews
  <2>2. \A u \in Urls \ {r.url} : news'[u] = news[u]
    BY <1>12 DEF FillNews, TypeInv, HistoryTypes
  <2> QED  BY <1>11, <2>1, <2>2
<1>13. CASE CreateNews(c)
  <2>1. CASE news[r.url] = None
    <3>1. /\ pc[c] = "createNews" /\ NextStock(c) /\ Races(c)
          /\ UNCHANGED <<history, doubled>>
      BY <1>13, <2>1 DEF CreateNews
    <3>2. \A u \in Urls \ {r.url} : news'[u] = news[u]
      BY <1>13, <2>1 DEF CreateNews, TypeInv, HistoryTypes
    <3> QED  BY <1>11, <3>1, <3>2
  <2>2. CASE news[r.url] # None
    <3>1. /\ ComesTo(c, "idle", None) /\ raced' = raced \ {c}
          /\ UNCHANGED <<history, doubled, news>>
      BY <1>13, <2>2, FinishTyped DEF CreateNews
    <3> QED  BY <1>4, <1>5, <3>1
  <2> QED  BY <2>1, <2>2
<1> QED
  BY <1>2, <1>6, <1>7, <1>8, <1>9, <1>10, <1>12, <1>13 DEF HistoryStep

LEMMA HistoryInvariant == Spec => [](RowsInv /\ NewsInv)
<1>1. Init => RowsInv /\ NewsInv
  BY DEF Init, ApiInit, HistoryInit, RowsInv, NewsInv, Recalls, NewsLabels
<1>2. TypeInv /\ RowsInv /\ NewsInv /\ [Next]_vars => RowsInv' /\ NewsInv'
  <2> SUFFICES ASSUME TypeInv, RowsInv, NewsInv, [Next]_vars
               PROVE  RowsInv' /\ NewsInv'
    OBVIOUS
  <2>1. TypeInv' /\ UNCHANGED part
    BY StepOf
  <2>2. ASSUME NEW C \in SUBSET Clients, Stops(C)
        PROVE  RowsInv' /\ NewsInv'
    <3>1. UNCHANGED <<history, news, doubled>> /\ raced' = raced \ C
      BY <2>2 DEF Stops, Leave, Unraced
    <3>2. \A c \in Clients : Recalls("idle", None, history, doubled)
      BY DEF Recalls, NewsLabels
    <3>3. \A c \in Clients : Recalls(pc'[c], req'[c], history, doubled)
      BY <2>2, <3>2, StopsOthers DEF RowsInv
    <3>4. RowsInv'
      <4> HIDE DEF Recalls
      <4> QED  BY <3>1, <3>3 DEF RowsInv
    <3>5. NewsInv'
      BY <2>2, <3>1, StopsOthers DEF NewsInv
    <3> QED  BY <3>4, <3>5
  <2>3. CASE Elsewhere("history") /\ UNCHANGED historyVars
    <3>1. CASE UNCHANGED apiVars
      BY <2>3, <3>1 DEF RowsInv, NewsInv, apiVars, historyVars
    <3>2. CASE part # "history"
      <4>1. \A c \in Clients : pc'[c] \notin HistoryLabels
        BY <2>1, <3>2 DEF TypeInv, CallTypes, CallFits, AccountLabels, BindLabels,
                SettingsLabels, BridgeLabels, OrderLabels, HistoryLabels, NewsLabels
      <4>2. \A c \in Clients : Recalls(pc'[c], req'[c], history, doubled)
        BY <4>1 DEF Recalls, HistoryLabels, NewsLabels
      <4>3. NewsInv'
        BY <4>1 DEF NewsInv, HistoryLabels, NewsLabels
      <4> HIDE DEF Recalls
      <4> QED  BY <2>3, <4>2, <4>3 DEF RowsInv, historyVars
    <3> QED  BY <2>3, <3>1, <3>2 DEF Elsewhere
  <2> QED  BY <2>1, <2>2, <2>3, HistoryStepKeeps, StepOf DEF Stopping
<1> QED  BY <1>1, <1>2, AlwaysTyped, PTL DEF Spec

\* News stay with who found them first: a step that changes what a row of news
\* says is of a request that others overtook.
LEMMA NewsStayStep ==
  ASSUME TypeInv, NewsInv, [Next]_vars, NEW u \in Urls, news[u] # None,
         NEW x \in {"owner", "query"}, news[u][x] # None, news'[u][x] # news[u][x]
  PROVE  \E c \in raced : pc[c] = "fillNews" /\ req[c].url = u
<1>1. news'[u] # news[u]
  OBVIOUS
<1>2. HistoryPart
  <2>1. Stopping => UNCHANGED news
    BY DEF Stopping, Stops, Leave, Unraced
  <2> QED  BY <1>1, <2>1, StepOf DEF historyVars
<1>3. PICK c \in Clients : FillNews(c) \/ CreateNews(c)
  <2>1. PICK c \in Clients : SaveRequest(c) \/ SyncRequest(c) \/ HistoryStep(c)
    BY <1>2 DEF HistoryPart
  <2>2. SaveRequest(c) \/ SyncRequest(c) \/ FindRow(c) \/ CreateRow(c) \/ FindNews(c)
        => UNCHANGED news
    <3>1. SaveRequest(c) \/ SyncRequest(c) \/ FindRow(c) \/ FindNews(c)
          => UNCHANGED news
      BY DEF SaveRequest, SyncRequest, FindRow, FindNews, historyVars
    <3>2. CreateRow(c) => UNCHANGED news
      BY Zenon DEF CreateRow
    <3> QED  BY <3>1, <3>2
  <2> QED  BY <1>1, <2>1, <2>2 DEF HistoryStep
<1> DEFINE r == req[c]
<1>4. news \in [Urls -> NewsRow \cup {None}]
  BY DEF TypeInv, HistoryTypes
<1>5. CASE CreateNews(c)
  <2>1. news[r.url] = None
    BY <1>1, <1>5 DEF CreateNews
  <2>2. news' = [news EXCEPT ![r.url] = [owner |-> r.owner, query |-> Query(r)]]
    BY <1>5, <2>1 DEF CreateNews
  <2> QED  BY <1>1, <1>4, <2>1, <2>2
<1>6. CASE FillNews(c)
  <2>1. pc[c] = "fillNews" /\ news' = [news EXCEPT ![r.url] = Filled(news[r.url], r)]
    BY <1>6 DEF FillNews
  <2>2. r.url = u
    BY <1>1, <1>4, <2>1
  <2>3. news'[u] = Filled(news[u], r)
    BY <1>4, <2>1, <2>2
  <2>4. r.found # news[u]
    <3>1. CASE x = "owner"
      <4>1. Filled(news[u], r).owner # news[u].owner /\ news[u].owner # None
        BY <2>3, <3>1
      <4>2. r.found.owner = None
        BY <4>1 DEF Filled
      <4> QED  BY <4>1, <4>2
    <3>2. CASE x = "query"
      <4>1. Filled(news[u], r).query # news[u].query /\ news[u].query # None
        BY <2>3, <3>2
      <4>2. r.found.query = None
        BY <4>1 DEF Filled
      <4> QED  BY <4>1, <4>2
    <3> QED  BY <3>1, <3>2
  <2>5. c \in raced
    BY <2>1, <2>2, <2>4 DEF NewsInv
  <2> QED  BY <2>1, <2>2, <2>5
<1> QED  BY <1>3, <1>5, <1>6

\* A message that is saved again leaves the history and the news as they were:
\* each save looks for its row first, and two that look before either creates
\* it are told apart.
THEOREM HistorySafe == Spec => SavedOnce
<1>1. TypeInv /\ RowsInv => HistoryOfOneMessage
  <2> SUFFICES ASSUME TypeInv, RowsInv
               PROVE  HistoryOfOneMessage
    OBVIOUS
  <2> USE DEF NewsLabels
  <2> QED  BY DEF RowsInv, Recalls, HistoryOfOneMessage
<1>2. TypeInv /\ NewsInv /\ [Next]_vars =>
         [\A u \in Urls :
            news[u] # None =>
               \A x \in {"owner", "query"} :
                  news[u][x] # None /\ news'[u][x] # news[u][x]
                  => \E c \in raced : pc[c] = "fillNews" /\ req[c].url = u]_vars
  BY NewsStayStep
<1> QED
  BY <1>1, <1>2, AlwaysTyped, HistoryInvariant, PTL DEF Spec, SavedOnce, NewsStay

-----------------------------------------------------------------------------
(***************************************************************************)
(* Accounts: the row of the last bind is the only live one.  A request     *)
(* that marks a row verified has the Agent's answer for the account it     *)
(* bound, and the row still holds that account unless it was bound again.  *)
(***************************************************************************)
Verifying == {"verify", "markVerified"}

LastInv == bound # None => /\ Live = {bound[1]}
                           /\ account[bound[1]].uid = bound[2]

MarksInv ==
    /\ \A r \in Rows : account[r].verified =>
          <<r, account[r].uid>> \in provisioned \/ r \in mixed
    /\ \A c \in Clients :
          /\ pc[c] \in Verifying /\ c \notin rebound
             => account[req[c].row].uid = req[c].uid
          /\ pc[c] = "markVerified"
             => <<req[c].row, req[c].uid>> \in provisioned

\* Most requests read these tables, if that.
LEMMA MarksKept ==
  ASSUME TypeInv, LastInv, MarksInv, NEW c \in Clients, NEW l, NEW x,
         ComesTo(c, l, x), l \notin Verifying,
         UNCHANGED <<account, provisioned, bound, rebound, mixed>>
  PROVE  LastInv' /\ MarksInv'
<1>1. CallTypes
  BY DEF TypeInv
<1>2. \A d \in Clients : pc'[d] \in Verifying =>
         pc'[d] = pc[d] /\ req'[d] = req[d]
  BY <1>1, ComesThere
<1> QED  BY <1>2 DEF LastInv, MarksInv, Live, Verifying

LEMMA BindKeepsMarks ==
  ASSUME TypeInv, LastInv, MarksInv, NEW c \in Clients, Bind(c)
  PROVE  LastInv' /\ MarksInv'
<1>1. PICK r \in Rows :
         /\ account' = Bound(r, req[c].uid)
         /\ bound' = <<r, req[c].uid>>
         /\ rebound' = rebound
                \cup {d \in Clients : pc[d] \in {"verify", "markVerified"}
                                      /\ req[d].row = r}
         /\ mixed' = mixed \ {r}
         /\ Goto(c, "verify", [req[c] EXCEPT !.row = r])
  <2> HIDE DEF Bound, Goto
  <2> QED  BY DEF Bind
<1> DEFINE x == [req[c] EXCEPT !.row = r]
           u == req[c].uid
<1>2. UNCHANGED provisioned /\ pc[c] = "bind"
  BY DEF Bind
<1>3. u \in Uids /\ req[c] \in AccountCall
  BY <1>2, FitsOf DEF TypeInv, AccountFits, AccountLabels, BindLabels
<1>4. x.row = r /\ x.uid = u
  BY <1>3 DEF AccountCall
<1>5. /\ Live' = {r} /\ account'[r].uid = u
      /\ \A s \in Rows : ~account'[s].verified
      /\ \A s \in Rows \ {r} : account'[s].uid = account[s].uid
  BY <1>1, <1>3, BoundTyped DEF TypeInv
<1>6. /\ pc'[c] = "verify" /\ req'[c] = x
      /\ \A d \in Clients \ {c} : pc'[d] = pc[d] /\ req'[d] = req[d]
  BY <1>1, ComesThere DEF TypeInv, ComesTo
<1>7. ASSUME NEW d \in Clients \ {c}, pc[d] \in Verifying
      PROVE  /\ req[d].row \in Rows
             /\ d \notin rebound' => d \notin rebound /\ req[d].row # r
  BY <1>1, <1>7, FitsOf
     DEF TypeInv, Verifying, AccountLabels, BindLabels, AccountFits
<1>8. LastInv'
  BY <1>1, <1>5 DEF LastInv
<1> HIDE DEF x, u
<1>9. \A d \in Clients : pc'[d] \in Verifying /\ d \notin rebound'
         => account'[req'[d].row].uid = req'[d].uid
  <2> SUFFICES ASSUME NEW d \in Clients, pc'[d] \in Verifying, d \notin rebound'
               PROVE  account'[req'[d].row].uid = req'[d].uid
    OBVIOUS
  <2>1. CASE d = c
    BY <1>4, <1>5, <1>6, <2>1
  <2>2. CASE d # c
    <3>1. pc[d] \in Verifying /\ req'[d] = req[d]
      BY <1>6, <2>2
    <3>2. /\ req[d].row \in Rows \ {r}
          /\ account[req[d].row].uid = req[d].uid
      BY <1>7, <2>2, <3>1 DEF MarksInv
    <3> QED  BY <1>5, <3>1, <3>2
  <2> QED  BY <2>1, <2>2
<1>10. \A d \in Clients : pc'[d] = "markVerified"
          => <<req'[d].row, req'[d].uid>> \in provisioned'
  BY <1>2, <1>6 DEF MarksInv
<1> QED  BY <1>5, <1>8, <1>9, <1>10 DEF MarksInv

LEMMA MarksStep ==
  ASSUME TypeInv, LastInv, MarksInv, AccountPart
  PROVE  LastInv' /\ MarksInv'
<1>1. CASE \E r \in Rows : Expires(r)
  BY <1>1 DEF Expires, apiVars, LastInv, MarksInv, Live
<1>2. ASSUME NEW c \in Clients,
             \/ BindRequest(c) \/ LookRequest(c) \/ DepositRequest(c)
             \/ BindRefused(c) \/ Resolve(c) \/ AccountRequired(c) \/ Peek(c)
             \/ Deposit(c) \/ Fetch(c) \/ Store(c)
      PROVE  LastInv' /\ MarksInv'
  <2>1. UNCHANGED <<account, provisioned, bound, rebound, mixed>>
    <3>1. CASE BindRequest(c) \/ LookRequest(c) \/ DepositRequest(c)
               \/ BindRefused(c) \/ Resolve(c) \/ AccountRequired(c) \/ Peek(c)
      <4>1. UNCHANGED accountVars
        BY <3>1, Zenon
           DEF BindRequest, LookRequest, DepositRequest, AskAccount, BindRefused,
               Resolve, AccountRequired, Peek
      <4> QED  BY <4>1 DEF accountVars
    <3>2. CASE Deposit(c) \/ Fetch(c) \/ Store(c)
      BY <3>2 DEF Deposit, Fetch, Store
    <3> QED  BY <1>2, <3>1, <3>2
  <2>2. \E l, x :
           l \notin Verifying /\ ComesTo(c, l, x)
    <3> USE DEF ComesTo, Verifying
    <3> HIDE DEF Goto, Arrive
    <3>1. CASE BindRequest(c) \/ LookRequest(c) \/ DepositRequest(c)
      <4>1. \E x : Arrive(c, "bind", x) \/ Arrive(c, "resolve", x)
        BY <3>1, Zenon DEF BindRequest, LookRequest, DepositRequest, AskAccount
      <4> QED  BY <4>1
    <3>2. CASE BindRefused(c) \/ AccountRequired(c) \/ Peek(c) \/ Store(c)
      BY <3>2 DEF BindRefused, AccountRequired, Peek, Store, Finish
    <3>3. CASE Resolve(c)
      BY <3>3 DEF Resolve
    <3>4. CASE Deposit(c) \/ Fetch(c)
      BY <3>4 DEF Deposit, Fetch
    <3> QED  BY <1>2, <3>1, <3>2, <3>3, <3>4
  <2> QED  BY <2>1, <2>2, MarksKept
<1>3. ASSUME NEW c \in Clients, Verify(c)
      PROVE  LastInv' /\ MarksInv'
  <2>1. /\ pc[c] = "verify"
        /\ provisioned' = provisioned \cup {<<req[c].row, req[c].uid>>}
        /\ ComesTo(c, "markVerified", req[c])
        /\ UNCHANGED <<account, bound, rebound, mixed>>
    BY <1>3 DEF Verify, ComesTo
  <2>2. /\ pc'[c] = "markVerified" /\ req'[c] = req[c]
        /\ \A d \in Clients \ {c} : pc'[d] = pc[d] /\ req'[d] = req[d]
    BY <2>1, ComesThere DEF TypeInv
  <2> QED  BY <2>1, <2>2 DEF LastInv, MarksInv, Live, Verifying
<1>4. ASSUME NEW c \in Clients, MarkVerified(c)
      PROVE  LastInv' /\ MarksInv'
  <2> DEFINE r == req[c].row
  <2>1. /\ pc[c] = "markVerified"
        /\ mixed' = IF c \in rebound THEN mixed \cup {r} ELSE mixed \ {r}
        /\ rebound' = rebound \ {c}
        /\ UNCHANGED <<provisioned, bound>>
        /\ ComesTo(c, "idle", None)
    <3> HIDE DEF Now
    <3> QED  BY <1>4, FinishTyped DEF MarkVerified
  <2>2. /\ pc'[c] = "idle"
        /\ \A d \in Clients \ {c} : pc'[d] = pc[d] /\ req'[d] = req[d]
    BY <2>1, ComesThere DEF TypeInv
  <2>3. r \in Rows
    BY <2>1, FitsOf DEF TypeInv, AccountFits, AccountLabels, BindLabels
  <2>4. /\ \A s \in Rows : account'[s].uid = account[s].uid
        /\ \A s \in Rows \ {r} : account'[s] = account[s]
        /\ Live' = Live
    <3>1. account' = [account EXCEPT ![r].verified = TRUE, ![r].at = Now]
      <4> HIDE DEF Now
      <4> QED  BY <1>4 DEF MarkVerified
    <3> QED  BY <2>3, <3>1, MarkedTyped DEF TypeInv
  <2>5. c \in rebound \/ <<r, account[r].uid>> \in provisioned
    BY <2>1 DEF MarksInv, Verifying
  <2>6. \A d \in Clients \ {c} : pc[d] \in Verifying => req[d].row \in Rows
    BY FitsOf DEF TypeInv, Verifying, AccountLabels, BindLabels, AccountFits
  <2>7. LastInv'
    <3>1. bound # None => bound[1] \in Rows
      BY DEF TypeInv, AccountTypes, Accounts
    <3> QED  BY <2>1, <2>4, <3>1 DEF LastInv
  <2>8. \A s \in Rows : account'[s].verified =>
           <<s, account'[s].uid>> \in provisioned' \/ s \in mixed'
    <3> TAKE s \in Rows
    <3>1. CASE s = r
      BY <2>1, <2>4, <2>5, <3>1
    <3>2. CASE s # r
      BY <2>1, <2>4, <3>2 DEF MarksInv
    <3> QED  BY <3>1, <3>2
  <2>9. \A d \in Clients : pc'[d] \in Verifying /\ d \notin rebound'
           => account'[req'[d].row].uid = req'[d].uid
    <3> SUFFICES ASSUME NEW d \in Clients, pc'[d] \in Verifying,
                        d \notin rebound'
                 PROVE  account'[req'[d].row].uid = req'[d].uid
      OBVIOUS
    <3>1. /\ d # c /\ pc[d] \in Verifying /\ req'[d] = req[d]
          /\ d \notin rebound
      BY <2>1, <2>2 DEF Verifying
    <3>2. req[d].row \in Rows /\ account[req[d].row].uid = req[d].uid
      BY <2>6, <3>1 DEF MarksInv
    <3> QED  BY <2>4, <3>1, <3>2
  <2>10. \A d \in Clients : pc'[d] = "markVerified"
            => <<req'[d].row, req'[d].uid>> \in provisioned'
    BY <2>1, <2>2 DEF MarksInv
  <2> QED  BY <2>7, <2>8, <2>9, <2>10 DEF MarksInv
<1> QED
  BY <1>1, <1>2, <1>3, <1>4, BindKeepsMarks DEF AccountPart, AccountStep

\* Trading goes to the account that was bound last, and only after the Agent
\* has verified it, unless the answer for another account marked its row: a
\* bind leaves one row live, and bindMySimulationAccount marks by id.
THEOREM AccessSafe == Spec => []AccessIsOfLastBind
<1>1. Init => LastInv /\ MarksInv
  BY DEF Init, ApiInit, AccountInit, LastInv, MarksInv, Verifying
<1>2. TypeInv /\ LastInv /\ MarksInv /\ [Next]_vars => LastInv' /\ MarksInv'
  <2> SUFFICES ASSUME TypeInv, LastInv, MarksInv, [Next]_vars
               PROVE  LastInv' /\ MarksInv'
    OBVIOUS
  <2>1. TypeInv' /\ UNCHANGED part
    BY StepOf
  <2>2. ASSUME NEW C \in SUBSET Clients, Stops(C)
        PROVE  LastInv' /\ MarksInv'
    <3>1. /\ UNCHANGED <<account, provisioned, bound, mixed>>
          /\ rebound' = rebound \ C
      BY <2>2 DEF Stops, Leave, Uncross
    <3>2. \A c \in Clients : pc'[c] \in Verifying =>
             c \notin C /\ pc'[c] = pc[c] /\ req'[c] = req[c]
      BY <2>2, StopsOthers DEF Verifying
    <3> QED  BY <3>1, <3>2 DEF LastInv, MarksInv, Live, Verifying
  <2>3. CASE Elsewhere("accounts") /\ UNCHANGED accountVars
    <3>1. CASE UNCHANGED apiVars
      BY <2>3, <3>1 DEF LastInv, MarksInv, Live, apiVars, accountVars
    <3>2. CASE part # "accounts"
      <4>1. \A c \in Clients : pc'[c] \notin Verifying
        BY <2>1, <3>2 DEF TypeInv, CallTypes, CallFits, Verifying, SettingsLabels,
                          BridgeLabels, OrderLabels, HistoryLabels, NewsLabels
      <4> QED
        BY <2>3, <4>1 DEF LastInv, MarksInv, Live, Verifying, accountVars
    <3> QED  BY <2>3, <3>1, <3>2 DEF Elsewhere
  <2> QED  BY <2>1, <2>2, <2>3, MarksStep, StepOf DEF Stopping
<1>3. TypeInv /\ LastInv /\ MarksInv => AccessIsOfLastBind
  <2> SUFFICES ASSUME TypeInv, LastInv, MarksInv
               PROVE  AccessIsOfLastBind
    OBVIOUS
  <2>1. bound # None => bound = <<bound[1], bound[2]>>
    BY DEF TypeInv, AccountTypes, Accounts
  <2> QED  BY <2>1 DEF LastInv, MarksInv, AccessIsOfLastBind, Resolved
<1> QED  BY <1>1, <1>2, <1>3, AlwaysTyped, PTL DEF Spec

-----------------------------------------------------------------------------
(***************************************************************************)
(* Deposits: a request that is past resolveSimulationAccess knows the row  *)
(* that is still the resolved one if it is live.  So the row a deposit was *)
(* made into is the one whose snapshot is stored, or is out of use for     *)
(* ever; and no snapshot is stored over a deposit that was told of, unless *)
(* another request has stored one since it was fetched.                    *)
(***************************************************************************)
CachingLabels == {"access", "fetch", "store"}
PastResolve   == {"peek", "deposit"} \cup CachingLabels

\* What is known of the request r of c at await l, o being the overrun ones.
Sees(c, l, r, o) ==
    /\ l \in Verifying => \E t : Live = {t}
    /\ l \in PastResolve =>
          Live # {} /\ (r.row \in Live => Resolved(r.row))
    /\ l \in CachingLabels /\ r.kind = "deposit" =>
          /\ r.into[1] \in Live => Resolved(r.into[1])
          /\ r.level <= funds[r.into]
          /\ l = "access" \/ r.into[1] = r.row \/ r.into[1] \notin Live
    /\ l = "store" =>
          /\ r.kind = "deposit" /\ r.into = <<r.row, r.uid>> => r.level <= r.funds
          /\ r.row \in Live /\ c \notin o => shown[<<r.row, r.uid>>] <= r.funds

ShownInv ==
    /\ \A a \in Accounts : shown[a] <= funds[a]
    /\ Live = {} => \A r \in Rows : snapshot[r] = None
    /\ DepositShown

SeesInv == \A c \in Clients : Sees(c, pc[c], req[c], overrun)

\* Of several live rows one is resolved.
LEMMA ResolvedOnce ==
  ASSUME TypeInv, NEW r, NEW s, Resolved(r), Resolved(s)
  PROVE  r = s
<1>1. SUFFICES ASSUME r # s PROVE FALSE
  OBVIOUS
<1>2. r \in Live /\ s \in Live /\ Before(r, s) /\ Before(s, r)
  BY <1>1 DEF Resolved
<1>3. account[r].at \in Nat /\ account[s].at \in Nat
  BY <1>2 DEF TypeInv, AccountTypes, Broker, Live
<1> QED  BY <1>2, <1>3 DEF Before

\* What the requests at these awaits have.
LEMMA PastResolveTyped ==
  ASSUME TypeInv, NEW c \in Clients, pc[c] \in PastResolve
  PROVE  /\ req[c] \in AccountCall /\ req[c].row \in Rows /\ req[c].uid \in Uids
         /\ req[c].kind = "deposit" /\ pc[c] \in CachingLabels
            => req[c].into \in Accounts
  BY FitsOf DEF TypeInv, PastResolve, CachingLabels, AccountLabels, BindLabels,
                AccountFits

\* A step that leaves the tables as they are, to an await whose request is as
\* it should be.
LEMMA SeesKept ==
  ASSUME TypeInv, ShownInv, SeesInv, NEW c \in Clients, NEW l, NEW x,
         ComesTo(c, l, x), Sees(c, l, x, overrun'), overrun \ {c} \subseteq overrun',
         UNCHANGED <<account, snapshot, funds, shown, late>>
  PROVE  ShownInv' /\ SeesInv'
<1>1. ShownInv'
  BY DEF ShownInv, DepositShown, Live
<1>2. \A d \in Clients : Sees(d, pc'[d], req'[d], overrun')
  <2>1. pc'[c] = l /\ req'[c] = x
    BY ComesThere DEF TypeInv
  <2>2. ASSUME NEW d \in Clients \ {c}
        PROVE  Sees(d, pc'[d], req'[d], overrun')
    <3>1. Sees(d, pc[d], req[d], overrun)
      BY DEF SeesInv
    <3>2. pc'[d] = pc[d] /\ req'[d] = req[d] /\ (d \notin overrun' => d \notin overrun)
      BY ComesThere DEF TypeInv
    <3>3. Sees(d, pc[d], req[d], overrun')
      BY <3>1, <3>2 DEF Sees
    <3> HIDE DEF Sees
    <3> QED  BY <3>2, <3>3
  <2> HIDE DEF Sees
  <2> QED  BY <2>1, <2>2
<1>3. SeesInv'
  <2> SUFFICES ASSUME NEW d \in Clients
               PROVE  Sees(d, pc[d], req[d], overrun)'
    BY DEF SeesInv
  <2> QED  BY <1>2 DEF Sees, Live, Resolved, Before
<1> QED  BY <1>1, <1>3

LEMMA BindKeepsSight ==
  ASSUME TypeInv, ShownInv, SeesInv, NEW c \in Clients, Bind(c)
  PROVE  ShownInv' /\ SeesInv'
<1>1. PICK t \in Rows :
         /\ Target(t) /\ account' = Bound(t, req[c].uid)
         /\ snapshot' = [s \in Rows |-> IF s \in Live \ {t} THEN None
                                        ELSE snapshot[s]]
         /\ Goto(c, "verify", [req[c] EXCEPT !.row = t])
  <2> HIDE DEF Bound, Goto, Target, Live
  <2> QED  BY DEF Bind
<1>2. UNCHANGED <<funds, provisioned, shown, overrun, late>> /\ pc[c] = "bind"
  BY DEF Bind
<1>3. req[c].uid \in Uids
  BY <1>2, FitsOf DEF TypeInv, AccountFits, AccountLabels, BindLabels
<1>4. Live' = {t} /\ (Live # {} => t \in Live)
  BY <1>1, <1>3, BoundTyped DEF TypeInv, Target
<1>5. Resolved(t)'
  BY <1>4 DEF Resolved
<1>6. /\ pc'[c] = "verify"
      /\ \A d \in Clients \ {c} : pc'[d] = pc[d] /\ req'[d] = req[d]
  BY <1>1, ComesThere DEF TypeInv, ComesTo
<1>7. ShownInv'
  <2>1. snapshot'[t] = snapshot[t]
    BY <1>1
  <2>2. CASE Live = {}
    BY <1>2, <1>4, <2>1, <2>2 DEF ShownInv, DepositShown
  <2>3. CASE Live # {}
    BY <1>2, <1>4, <2>1, <2>3 DEF ShownInv, DepositShown
  <2> QED  BY <2>2, <2>3
<1>8. \A d \in Clients : Sees(d, pc[d], req[d], overrun)'
  <2> TAKE d \in Clients
  <2>1. CASE d = c
    BY <1>4, <1>6, <2>1 DEF Sees, Verifying, PastResolve, CachingLabels
  <2>2. CASE d # c
    <3>1. Sees(d, pc[d], req[d], overrun)
      BY DEF SeesInv
    <3>2. pc'[d] = pc[d] /\ req'[d] = req[d]
      BY <1>6, <2>2
    <3>3. pc[d] \in PastResolve => \A r : r \in Live' => r \in Live /\ Resolved(r)'
      BY <1>4, <1>5, <3>1 DEF Sees
    <3> QED
      BY <1>2, <1>4, <1>5, <3>1, <3>2, <3>3 DEF Sees, PastResolve, CachingLabels
  <2> QED  BY <2>1, <2>2
<1> QED  BY <1>7, <1>8 DEF SeesInv

LEMMA MarkKeepsSight ==
  ASSUME TypeInv, ShownInv, SeesInv, NEW c \in Clients, MarkVerified(c)
  PROVE  ShownInv' /\ SeesInv'
<1> DEFINE r == req[c].row
<1>1. /\ pc[c] = "markVerified" /\ ComesTo(c, "idle", None)
      /\ UNCHANGED <<snapshot, funds, shown, overrun, late>>
  BY FinishTyped DEF MarkVerified
<1>2. Live' = Live
  <2>1. r \in Rows
    BY <1>1, FitsOf DEF TypeInv, AccountFits, AccountLabels, BindLabels
  <2>2. account' = [account EXCEPT ![r].verified = TRUE, ![r].at = Now]
    <3> HIDE DEF Now
    <3> QED  BY DEF MarkVerified
  <2> QED  BY <2>1, <2>2, MarkedTyped DEF TypeInv
<1>3. \A s : s \in Live' => Resolved(s)'
  <2>1. \E t : Live = {t}
    BY <1>1 DEF SeesInv, Sees, Verifying
  <2> QED  BY <1>2, <2>1 DEF Resolved
<1>4. /\ pc'[c] = "idle"
      /\ \A d \in Clients \ {c} : pc'[d] = pc[d] /\ req'[d] = req[d]
  BY <1>1, ComesThere DEF TypeInv
<1>5. ShownInv'
  BY <1>1, <1>2 DEF ShownInv, DepositShown
<1>6. \A d \in Clients : Sees(d, pc[d], req[d], overrun)'
  <2> TAKE d \in Clients
  <2>1. CASE d = c
    BY <1>4, <2>1 DEF Sees, Verifying, PastResolve, CachingLabels
  <2>2. CASE d # c
    <3>1. Sees(d, pc[d], req[d], overrun)
      BY DEF SeesInv
    <3>2. pc'[d] = pc[d] /\ req'[d] = req[d]
      BY <1>4, <2>2
    <3> QED  BY <1>1, <1>2, <1>3, <3>1, <3>2 DEF Sees
  <2> QED  BY <2>1, <2>2
<1> QED  BY <1>5, <1>6 DEF SeesInv

\* The Agent's funds grow, and the request knows by how much.
LEMMA DepositKeepsSight ==
  ASSUME TypeInv, ShownInv, SeesInv, NEW c \in Clients, Deposit(c)
  PROVE  ShownInv' /\ SeesInv'
<1> DEFINE r == req[c]
           a == <<r.row, r.uid>>
           x == [r EXCEPT !.into = a, !.level = funds[a] + 1]
<1>1. /\ pc[c] = "deposit" /\ funds' = [funds EXCEPT ![a] = funds[a] + 1]
      /\ ComesTo(c, "access", x)
      /\ UNCHANGED <<account, snapshot, shown, overrun, late>>
  BY DEF Deposit, ComesTo
<1>2. r \in AccountCall /\ r.row \in Rows /\ a \in Accounts
  BY <1>1, PastResolveTyped DEF PastResolve, Accounts
<1>3. /\ x.into = a /\ x.into[1] = r.row /\ x.row = r.row
      /\ x.level = funds[a] + 1
  BY <1>2 DEF AccountCall
<1>4. /\ pc'[c] = "access" /\ req'[c] = x
      /\ \A d \in Clients \ {c} : pc'[d] = pc[d] /\ req'[d] = req[d]
  BY <1>1, ComesThere DEF TypeInv
<1>5. /\ \A b \in Accounts : funds[b] \in Nat /\ funds'[b] \in Nat
                             /\ funds[b] <= funds'[b]
      /\ funds'[a] = funds[a] + 1
  BY <1>1, <1>2 DEF TypeInv, AccountTypes
<1>6. Sees(c, pc[c], r, overrun)
  BY DEF SeesInv
<1> HIDE DEF x, a
<1>7. ShownInv'
  <2>1. \A b \in Accounts : shown[b] \in Nat
    BY DEF TypeInv, AccountTypes
  <2>2. \A b \in Accounts : shown[b] <= funds'[b]
    BY <1>5, <2>1 DEF ShownInv
  <2> QED  BY <1>1, <2>2 DEF ShownInv, DepositShown, Live
<1>8. \A s : Resolved(s)' <=> Resolved(s)
  BY <1>1 DEF Resolved, Live, Before
<1>9. Live' = Live
  BY <1>1 DEF Live
<1>10. \A d \in Clients : Sees(d, pc[d], req[d], overrun)'
  <2> TAKE d \in Clients
  <2>1. CASE d = c
    <3>1. Live # {} /\ (r.row \in Live => Resolved(r.row))
      BY <1>1, <1>6 DEF Sees, PastResolve
    <3>2. x.level <= funds'[x.into]
      BY <1>2, <1>3, <1>5
    <3> QED  BY <1>4, <2>1, <3>1, <3>2, <1>3, <1>8, <1>9 DEF Sees, Verifying
  <2>2. CASE d # c
    <3>1. Sees(d, pc[d], req[d], overrun)
      BY DEF SeesInv
    <3>2. pc'[d] = pc[d] /\ req'[d] = req[d]
      BY <1>4, <2>2
    <3>3. pc[d] \in CachingLabels /\ req[d].kind = "deposit" =>
             req[d].level <= funds'[req[d].into]
      <4> SUFFICES ASSUME pc[d] \in CachingLabels, req[d].kind = "deposit"
                   PROVE  req[d].level <= funds'[req[d].into]
        OBVIOUS
      <4>1. req[d].into \in Accounts /\ req[d].level \in Nat
        BY PastResolveTyped DEF PastResolve, AccountCall
      <4>2. req[d].level <= funds[req[d].into]
        BY <3>1 DEF Sees
      <4> QED  BY <1>5, <4>1, <4>2
    <3> QED  BY <1>1, <1>8, <1>9, <3>1, <3>2, <3>3 DEF Sees
  <2> QED  BY <2>1, <2>2
<1> QED  BY <1>7, <1>10 DEF SeesInv

\* A snapshot is stored, and the deposit before it is told of.
LEMMA StoreKeepsSight ==
  ASSUME TypeInv, ShownInv, SeesInv, NEW c \in Clients, Store(c)
  PROVE  ShownInv' /\ SeesInv'
<1> DEFINE r == req[c]
           b == <<r.row, r.uid>>
           more == r.kind = "deposit" /\ r.level > shown[r.into]
<1>1. /\ pc[c] = "store" /\ snapshot' = [snapshot EXCEPT ![r.row] = Cached(c)]
      /\ shown' = Told(c)
      /\ late' = IF c \in overrun THEN late \cup {r.row} ELSE late \ {r.row}
      /\ overrun' = (overrun \ {c})
                    \cup {d \in Clients \ {c} : /\ pc[d] = "store"
                                                /\ req[d].row = r.row}
      /\ ComesTo(c, "idle", None)
      /\ UNCHANGED <<account, funds>>
  <2> HIDE DEF Cached, Told
  <2> QED  BY FinishTyped DEF Store
<1>2. /\ r \in AccountCall /\ r.row \in Rows /\ b \in Accounts
      /\ r.kind = "deposit" => r.into \in Accounts
  BY <1>1, PastResolveTyped DEF PastResolve, CachingLabels, Accounts
<1>3. Sees(c, "store", r, overrun)
  BY <1>1 DEF SeesInv
<1>4. /\ pc'[c] = "idle"
      /\ \A d \in Clients \ {c} : pc'[d] = pc[d] /\ req'[d] = req[d]
  BY <1>1, ComesThere DEF TypeInv
<1>5. /\ Live' = Live
      /\ \A s : Resolved(s)' <=> Resolved(s)
  BY <1>1 DEF Live, Resolved, Before
<1>6. /\ snapshot'[r.row] # None => /\ snapshot'[r.row].uid = r.uid
                                    /\ snapshot'[r.row].funds = r.funds
      /\ \A s \in Rows \ {r.row} : snapshot'[s] = snapshot[s]
  BY <1>1, <1>2 DEF Cached, TypeInv, AccountTypes
<1>7. \A e \in Accounts :
         /\ shown[e] \in Nat /\ funds[e] \in Nat
         /\ shown'[e] = IF more /\ e = r.into THEN r.level ELSE shown[e]
  <2>1. shown \in [Accounts -> 0 .. MaxRequests] /\ funds \in [Accounts -> 0 .. MaxRequests]
    BY DEF TypeInv, AccountTypes
  <2>2. CASE r.kind = "deposit"
    <3>1. shown' = [shown EXCEPT ![r.into] = IF r.level > shown[r.into]
                                             THEN r.level ELSE shown[r.into]]
      BY <1>1, <2>2 DEF Told
    <3> QED  BY <2>1, <2>2, <3>1
  <2>3. CASE r.kind # "deposit"
    BY <1>1, <2>1, <2>3 DEF Told
  <2> QED  BY <2>2, <2>3
<1>8. more => /\ r.level <= funds[r.into]
              /\ r.into \in Accounts
              /\ r.into[1] = r.row \/ r.into[1] \notin Live
              /\ r.into = b => r.level <= r.funds
  BY <1>2, <1>3 DEF Sees, CachingLabels
<1>9. r.row \in Live /\ c \notin overrun => shown[b] <= r.funds
  BY <1>3 DEF Sees
<1>10. Live # {} /\ (r.row \in Live => Resolved(r.row))
  BY <1>3 DEF Sees, PastResolve, CachingLabels
<1>11. \A s \in Live : snapshot'[s] # None /\ s \notin late'
          => shown'[<<s, snapshot'[s].uid>>] <= snapshot'[s].funds
  <2> SUFFICES ASSUME NEW s \in Live, snapshot'[s] # None, s \notin late'
               PROVE  shown'[<<s, snapshot'[s].uid>>] <= snapshot'[s].funds
    OBVIOUS
  <2>1. s \in Rows
    BY DEF Live
  <2>2. CASE s = r.row
    <3>1. c \notin overrun
      BY <1>1, <2>2
    <3>2. shown[b] <= r.funds
      BY <1>9, <2>2, <3>1
    <3>3. shown'[b] <= r.funds
      BY <1>2, <1>7, <1>8, <3>2
    <3> QED  BY <1>6, <2>2, <3>3
  <2>3. CASE s # r.row
    <3> DEFINE e == <<s, snapshot[s].uid>>
    <3>1. snapshot'[s] = snapshot[s] /\ s \notin late
      BY <1>1, <1>6, <2>1, <2>3
    <3>2. e \in Accounts
      BY <2>1, <3>1 DEF TypeInv, AccountTypes, Snapshot, Accounts
    <3>3. ~(more /\ e = r.into)
      BY <1>8, <2>3
    <3>4. shown'[e] = shown[e]
      BY <1>7, <3>2, <3>3
    <3>5. shown[e] <= snapshot[s].funds
      <4>1. snapshot[s].funds >= shown[e]
        BY <3>1 DEF ShownInv, DepositShown
      <4>2. snapshot[s].funds \in Nat
        BY <2>1, <3>1, ApiConstants DEF TypeInv, AccountTypes, Snapshot
      <4> QED  BY <1>7, <3>2, <4>1, <4>2
    <3> QED  BY <3>1, <3>4, <3>5
  <2> QED  BY <2>2, <2>3
<1>12. ShownInv'
  <2>1. \A e \in Accounts : shown'[e] <= funds'[e]
    BY <1>1, <1>7, <1>8 DEF ShownInv
  <2> QED  BY <1>5, <1>10, <1>11, <2>1 DEF ShownInv, DepositShown
<1>13. \A d \in Clients : Sees(d, pc[d], req[d], overrun)'
  <2> TAKE d \in Clients
  <2>1. CASE d = c
    BY <1>4, <2>1 DEF Sees, Verifying, PastResolve, CachingLabels
  <2>2. CASE d # c
    <3> DEFINE q == req[d]
               e == <<q.row, q.uid>>
    <3>1. Sees(d, pc[d], q, overrun)
      BY DEF SeesInv
    <3>2. pc'[d] = pc[d] /\ req'[d] = q
      BY <1>4, <2>2
    <3>3. pc[d] = "store" /\ q.row \in Live /\ d \notin overrun' => shown'[e] <= q.funds
      <4> SUFFICES ASSUME pc[d] = "store", q.row \in Live, d \notin overrun'
                   PROVE  shown'[e] <= q.funds
        OBVIOUS
      <4>1. q.row # r.row /\ d \notin overrun
        BY <1>1, <2>2
      <4>2. e \in Accounts
        BY PastResolveTyped DEF PastResolve, CachingLabels, Accounts
      <4>3. ~(more /\ e = r.into)
        BY <1>8, <4>1
      <4> QED  BY <1>7, <3>1, <4>1, <4>2, <4>3 DEF Sees
    <3> QED  BY <1>1, <1>5, <3>1, <3>2, <3>3 DEF Sees
  <2> QED  BY <2>1, <2>2
<1> QED  BY <1>12, <1>13 DEF SeesInv

LEMMA SightStep ==
  ASSUME TypeInv, ShownInv, SeesInv, AccountPart
  PROVE  ShownInv' /\ SeesInv'
<1>1. ASSUME NEW l, NEW x, NEW c, NEW o, l \notin Verifying, l \notin PastResolve
      PROVE  Sees(c, l, x, o)
  BY <1>1 DEF Sees, PastResolve, CachingLabels
<1>2. CASE \E r \in Rows : Expires(r)
  <2>1. PICK r \in Rows : /\ snapshot[r] # None
                          /\ snapshot' = [snapshot EXCEPT ![r].fresh = FALSE]
    BY <1>2 DEF Expires
  <2>2. UNCHANGED <<apiVars, account, funds, shown, overrun, late>>
    BY <1>2 DEF Expires
  <2>3. snapshot[r] \in Snapshot
    BY <2>1 DEF TypeInv, AccountTypes
  <2>4. /\ snapshot'[r].uid = snapshot[r].uid
        /\ snapshot'[r].funds = snapshot[r].funds
        /\ \A s \in Rows \ {r} : snapshot'[s] = snapshot[s]
    BY <2>1, <2>3 DEF TypeInv, AccountTypes, Snapshot
  <2>5. Live' = Live /\ \A s \in Live : s \in Rows
    BY <2>2 DEF Live
  <2>6. Live # {}
    BY <2>1 DEF ShownInv
  <2>7. \A s \in Live : \/ snapshot'[s] = None
                        \/ snapshot'[s].funds >= shown[<<s, snapshot'[s].uid>>]
                        \/ s \in late
    <3> SUFFICES ASSUME NEW s \in Rows, s \in Live
                 PROVE  \/ snapshot'[s] = None
                        \/ snapshot'[s].funds >= shown[<<s, snapshot'[s].uid>>]
                        \/ s \in late
      BY <2>5, Zenon
    <3>1. CASE s = r
      BY <2>1, <2>4, <3>1 DEF ShownInv, DepositShown
    <3>2. CASE s # r
      BY <2>4, <2>5, <3>2 DEF ShownInv, DepositShown
    <3> QED  BY <3>1, <3>2
  <2>8. ShownInv'
    BY <2>2, <2>5, <2>6, <2>7 DEF ShownInv, DepositShown
  <2>9. SeesInv'
    <3>1. \A s : Resolved(s)' <=> Resolved(s)
      BY <2>2, <2>5 DEF Resolved, Before
    <3> SUFFICES ASSUME NEW d \in Clients PROVE Sees(d, pc[d], req[d], overrun)'
      BY DEF SeesInv
    <3>2. Sees(d, pc[d], req[d], overrun)
      BY DEF SeesInv
    <3> QED  BY <2>2, <2>5, <3>1, <3>2 DEF Sees, apiVars
  <2> QED  BY <2>8, <2>9
<1>3. ASSUME NEW c \in Clients, UNCHANGED accountVars,
             NEW l, NEW x, ComesTo(c, l, x), Sees(c, l, x, overrun)
      PROVE  ShownInv' /\ SeesInv'
  BY <1>3, SeesKept DEF accountVars
<1>4. ASSUME NEW c \in Clients,
             \/ BindRequest(c) \/ LookRequest(c) \/ DepositRequest(c)
             \/ BindRefused(c) \/ AccountRequired(c)
      PROVE  ShownInv' /\ SeesInv'
  <2>1. UNCHANGED accountVars
    BY <1>4, Zenon
       DEF BindRequest, LookRequest, DepositRequest, AskAccount, BindRefused,
           AccountRequired
  <2>2. PICK l \in {"bind", "resolve", "idle"}, x \in AllCalls \cup {None} :
           ComesTo(c, l, x)
    <3> SUFFICES \E l \in {"bind", "resolve", "idle"} : \E x : ComesTo(c, l, x)
      <4>1. \A l, x : ComesTo(c, l, x) => req'[c] = x
        BY ComesThere DEF TypeInv
      <4>2. TypeInv'
        BY NextTyped DEF Next
      <4>3. req'[c] \in AllCalls \cup {None}
        BY <4>2 DEF TypeInv, CallTypes
      <4> QED  BY <4>1, <4>3
    <3>1. CASE BindRequest(c) \/ LookRequest(c) \/ DepositRequest(c)
      <4>1. \E x : Arrive(c, "bind", x) \/ Arrive(c, "resolve", x)
        BY <3>1, Zenon DEF BindRequest, LookRequest, DepositRequest, AskAccount
      <4> QED  BY <4>1 DEF ComesTo
    <3>2. CASE BindRefused(c) \/ AccountRequired(c)
      BY <3>2, FinishTyped DEF BindRefused, AccountRequired
    <3> QED  BY <1>4, <3>1, <3>2
  <2>3. Sees(c, l, x, overrun)
    BY <1>1, <2>2 DEF Verifying, PastResolve, CachingLabels
  <2> QED  BY <1>3, <2>1, <2>2, <2>3
<1>5. ASSUME NEW c \in Clients, Verify(c)
      PROVE  ShownInv' /\ SeesInv'
  <2>1. /\ pc[c] = "verify" /\ ComesTo(c, "markVerified", req[c])
        /\ UNCHANGED <<account, snapshot, funds, shown, overrun, late>>
    BY <1>5 DEF Verify, ComesTo
  <2>2. Sees(c, "verify", req[c], overrun)
    BY <2>1 DEF SeesInv
  <2>3. Sees(c, "markVerified", req[c], overrun)
    BY <2>2 DEF Sees, Verifying, PastResolve, CachingLabels
  <2> QED  BY <2>1, <2>3, SeesKept
<1>6. ASSUME NEW c \in Clients, Resolve(c)
      PROVE  ShownInv' /\ SeesInv'
  <2> DEFINE r == req[c]
  <2>1. PICK s \in Rows :
           /\ Resolved(s)
           /\ Goto(c, IF pc[c] = "access" THEN "fetch"
                      ELSE IF r.kind = "deposit" THEN "deposit" ELSE "peek",
                   [r EXCEPT !.row = s, !.uid = account[s].uid])
    <3> HIDE DEF Goto, Resolved
    <3> QED  BY <1>6, Zenon DEF Resolve
  <2> DEFINE x == [r EXCEPT !.row = s, !.uid = account[s].uid]
             l == IF pc[c] = "access" THEN "fetch"
                  ELSE IF r.kind = "deposit" THEN "deposit" ELSE "peek"
  <2>2. pc[c] \in {"resolve", "access"} /\ UNCHANGED accountVars
    BY <1>6 DEF Resolve
  <2>3. r \in AccountCall
    BY <2>2, FitsOf DEF TypeInv, AccountFits, AccountLabels
  <2>4. /\ x.row = s /\ x.kind = r.kind /\ x.into = r.into /\ x.level = r.level
    BY <2>3 DEF AccountCall
  <2>5. ComesTo(c, l, x)
    BY <2>1 DEF ComesTo
  <2>6. Sees(c, pc[c], r, overrun)
    BY DEF SeesInv
  <2> HIDE DEF x
  <2>7. Sees(c, l, x, overrun)
    <3>1. s \in Live
      BY <2>1 DEF Resolved
    <3>2. CASE pc[c] = "access"
      <4>1. x.kind = "deposit" =>
               /\ x.into[1] \in Live => Resolved(x.into[1])
               /\ x.level <= funds[x.into]
        BY <2>4, <2>6, <3>2 DEF Sees, CachingLabels
      <4>2. x.kind = "deposit" => x.into[1] = x.row \/ x.into[1] \notin Live
        BY <2>1, <2>4, <4>1, ResolvedOnce
      <4> HIDE DEF Resolved, Live
      <4> QED
        BY <2>1, <2>4, <3>1, <3>2, <4>1, <4>2
           DEF Sees, Verifying, PastResolve, CachingLabels
    <3>3. CASE pc[c] = "resolve"
      <4> HIDE DEF Resolved, Live
      <4> QED
        BY <2>1, <2>4, <3>1, <3>3 DEF Sees, Verifying, PastResolve, CachingLabels
    <3> QED  BY <2>2, <3>2, <3>3
  <2> HIDE DEF l
  <2> QED  BY <1>3, <2>2, <2>5, <2>7
<1>7. ASSUME NEW c \in Clients, Peek(c)
      PROVE  ShownInv' /\ SeesInv'
  <2>1. /\ pc[c] = "peek" /\ UNCHANGED accountVars
        /\ ComesTo(c, "idle", None) \/ ComesTo(c, "access", req[c])
    BY <1>7, FinishTyped DEF Peek, ComesTo
  <2>2. Sees(c, "peek", req[c], overrun) /\ req[c].kind = "look"
    BY <2>1, FitsOf DEF SeesInv, TypeInv, AccountFits, AccountLabels
  <2>3. Sees(c, "idle", None, overrun) /\ Sees(c, "access", req[c], overrun)
    BY <1>1, <2>2 DEF Sees, Verifying, PastResolve, CachingLabels
  <2> QED  BY <1>3, <2>1, <2>3
<1>8. ASSUME NEW c \in Clients, Fetch(c)
      PROVE  ShownInv' /\ SeesInv'
  <2> DEFINE r == req[c]
             a == <<r.row, r.uid>>
             x == [r EXCEPT !.funds = funds[a]]
  <2>1. /\ pc[c] = "fetch" /\ ComesTo(c, "store", x) /\ overrun' = overrun \ {c}
        /\ UNCHANGED <<account, snapshot, funds, shown, late>>
    BY <1>8 DEF Fetch, ComesTo
  <2>2. r \in AccountCall /\ a \in Accounts
    BY <2>1, PastResolveTyped DEF PastResolve, CachingLabels, Accounts
  <2>3. /\ x.row = r.row /\ x.uid = r.uid /\ x.kind = r.kind /\ x.into = r.into
        /\ x.level = r.level /\ x.funds = funds[a]
    BY <2>2 DEF AccountCall
  <2>4. Sees(c, "fetch", r, overrun)
    BY <2>1 DEF SeesInv
  <2>5. shown[a] <= funds[a]
    BY <2>2 DEF ShownInv
  <2> HIDE DEF x
  <2>6. Sees(c, "store", x, overrun')
    BY <2>3, <2>4, <2>5 DEF Sees, Verifying, PastResolve, CachingLabels
  <2>7. overrun \ {c} \subseteq overrun'
    BY <2>1
  <2> QED  BY <2>1, <2>6, <2>7, SeesKept
<1> QED
  BY <1>2, <1>4, <1>5, <1>6, <1>7, <1>8, BindKeepsSight, MarkKeepsSight,
     DepositKeepsSight, StoreKeepsSight DEF AccountPart, AccountStep

\* Who was told of a deposit does not see a snapshot from before it, unless one
\* that was fetched earlier has been stored later: addFunds fetches again after
\* the Agent has the money, from the row it was paid into or from no row that
\* is still in use.
THEOREM DepositSafe == Spec => []DepositShown
<1>1. Init => ShownInv /\ SeesInv
  <2> SUFFICES ASSUME Init PROVE ShownInv /\ SeesInv
    OBVIOUS
  <2>1. \A r \in Rows : snapshot[r] = None
    BY DEF Init, AccountInit
  <2>2. ShownInv
    BY <2>1 DEF Init, AccountInit, ShownInv, DepositShown, Live
  <2>3. SeesInv
    BY DEF Init, ApiInit, SeesInv, Sees, Verifying, PastResolve, CachingLabels
  <2> QED  BY <2>2, <2>3
<1>2. TypeInv /\ ShownInv /\ SeesInv /\ [Next]_vars => ShownInv' /\ SeesInv'
  <2> SUFFICES ASSUME TypeInv, ShownInv, SeesInv, [Next]_vars
               PROVE  ShownInv' /\ SeesInv'
    OBVIOUS
  <2>1. TypeInv' /\ UNCHANGED part
    BY StepOf
  <2>2. ASSUME NEW C \in SUBSET Clients, Stops(C)
        PROVE  ShownInv' /\ SeesInv'
    <3>1. /\ UNCHANGED <<account, snapshot, funds, shown, late>>
          /\ overrun' = overrun \ C
      BY <2>2 DEF Stops, Leave, Uncross
    <3>2. ShownInv'
      BY <3>1 DEF ShownInv, DepositShown, Live
    <3>3. \A c \in Clients : Sees(c, pc[c], req[c], overrun)'
      <4> TAKE c \in Clients
      <4>1. CASE c \in C
        BY <2>2, <4>1, StopsOthers DEF Sees, Verifying, PastResolve, CachingLabels
      <4>2. CASE c \notin C
        <5>1. pc'[c] = pc[c] /\ req'[c] = req[c]
          BY <2>2, <4>2, StopsOthers
        <5>2. Sees(c, pc[c], req[c], overrun) /\ (c \in overrun' <=> c \in overrun)
          BY <3>1, <4>2 DEF SeesInv
        <5> QED  BY <3>1, <5>1, <5>2 DEF Sees, Live, Resolved, Before
      <4> QED  BY <4>1, <4>2
    <3> QED  BY <3>2, <3>3 DEF SeesInv
  <2>3. CASE Elsewhere("accounts") /\ UNCHANGED accountVars
    <3>1. ShownInv'
      BY <2>3 DEF ShownInv, DepositShown, Live, accountVars
    <3>2. CASE UNCHANGED apiVars
      <4>1. SeesInv'
        <5> SUFFICES ASSUME NEW c \in Clients
                     PROVE  Sees(c, pc[c], req[c], overrun)'
          BY DEF SeesInv
        <5>1. Sees(c, pc[c], req[c], overrun)
          BY DEF SeesInv
        <5>2. UNCHANGED <<pc, req, account, funds, shown, overrun>>
          BY <2>3, <3>2 DEF apiVars, accountVars
        <5> QED  BY <5>1, <5>2 DEF Sees, Live, Resolved, Before
      <4> QED  BY <3>1, <4>1
    <3>3. CASE part # "accounts"
      <4>1. \A c \in Clients : pc'[c] \notin Verifying /\ pc'[c] \notin PastResolve
        BY <2>1, <3>3 DEF TypeInv, CallTypes, CallFits, Verifying, PastResolve,
               CachingLabels, SettingsLabels, BridgeLabels, OrderLabels,
               HistoryLabels, NewsLabels
      <4>2. SeesInv'
        BY <4>1 DEF SeesInv, Sees, PastResolve, CachingLabels
      <4> QED  BY <3>1, <4>2
    <3> QED  BY <2>3, <3>2, <3>3 DEF Elsewhere
  <2> QED  BY <2>1, <2>2, <2>3, SightStep, StepOf DEF Stopping
<1>3. ShownInv => DepositShown
  BY DEF ShownInv
<1> QED  BY <1>1, <1>2, <1>3, AlwaysTyped, PTL DEF Spec

-----------------------------------------------------------------------------
(***************************************************************************)
(* The stream: of a task that never changed between the two reads of a     *)
(* poll, and that no overtaken poll took note of, a list has one entry,    *)
(* which is not older than what is known of the task.                      *)
(***************************************************************************)
\* How far a task is in its life.
Age(s) == CASE s = "pending"    -> 1
            [] s = "processing" -> 2
            [] s = "failed"     -> 3
            [] s = "completed"  -> 4
            [] OTHER            -> 0

\* What the page was told of one task, and what is known of it.
Story(q) == q # <<>> =>
    /\ Head(q) = "created"
    /\ \A i \in 2 .. Len(q) : Follows(q[i - 1], q[i])

Matches(k, q) ==
    /\ q = <<>> <=> k = None
    /\ q # <<>> => CASE k = "pending"    -> Last(q) = "created"
                     [] k = "processing" -> Last(q) \in {"created", "started"}
                     [] OTHER            -> Last(q) = k

LEMMA StoryGoesOn ==
  ASSUME NEW q \in Seq(Events), Story(q), NEW f \in Events,
         \/ q = <<>> /\ f = "created"
         \/ q # <<>> /\ Follows(Last(q), f)
  PROVE  LET p == q \o <<f>>
         IN  p \in Seq(Events) /\ p # <<>> /\ Story(p) /\ Last(p) = f
<1> DEFINE p == Append(q, f)
<1>1. p = q \o <<f>>
  BY AppendIsConcat
<1>2. /\ p \in Seq(Events) /\ p # <<>> /\ Len(p) = Len(q) + 1
      /\ \A i \in 1 .. Len(q) : p[i] = q[i]
      /\ p[Len(q) + 1] = f
  BY AppendProperties
<1>3. Head(p) = IF q = <<>> THEN f ELSE Head(q)
  BY HeadTailAppend
<1>4. Len(q) \in Nat /\ (q = <<>> <=> Len(q) = 0)
  BY LenProperties, EmptySeq
<1> HIDE DEF p
<1>5. Last(p) = f
  BY <1>2, <1>4 DEF Last
<1>6. ASSUME NEW i \in 2 .. Len(p)
      PROVE  Follows(p[i - 1], p[i])
  <2>1. CASE i <= Len(q)
    <3>1. i \in 2 .. Len(q) /\ q # <<>> /\ p[i] = q[i] /\ p[i - 1] = q[i - 1]
      BY <1>2, <1>4, <2>1
    <3> QED  BY <3>1 DEF Story
  <2>2. CASE i = Len(q) + 1
    <3>1. q # <<>> /\ p[i - 1] = q[Len(q)] /\ p[i] = f
      BY <1>2, <1>4, <2>2
    <3> QED  BY <3>1 DEF Last
  <2> QED  BY <1>2, <1>4, <2>1, <2>2
<1>7. Story(p)
  BY <1>3, <1>6 DEF Story
<1> QED  BY <1>1, <1>2, <1>5, <1>7

\* What is noted of a later status continues the story.
LEMMA NoteContinues ==
  ASSUME NEW q \in Seq(Events), NEW k \in Status \cup {None}, NEW e \in Entry,
         Story(q), Matches(k, q), Age(k) <= Age(e.status)
  PROVE  LET n == Note([events |-> <<>>, known |-> k], e)
         IN  n.known = e.status /\ Story(q \o n.events) /\ Matches(e.status, q \o n.events)
<1> SUFFICES ASSUME NEW n, n = Note([events |-> <<>>, known |-> k], e)
             PROVE  /\ n.known = e.status /\ Story(q \o n.events)
                    /\ Matches(e.status, q \o n.events)
  OBVIOUS
<1> DEFINE s == e.status
           new == IF k = None THEN <<"created">> \o EventOf(s)
                  ELSE IF k # s THEN EventOf(s) ELSE <<>>
<1>1. s \in Status /\ s # None
  BY NullIsNoStatus DEF Entry, Status
<1>2. /\ EventOf("pending") = <<>> /\ EventOf("processing") = <<"started">>
      /\ EventOf("failed") = <<"failed">> /\ EventOf("completed") = <<"completed">>
  BY DEF EventOf
<1>3. /\ Age("pending") = 1 /\ Age("processing") = 2 /\ Age("failed") = 3
      /\ Age("completed") = 4
  BY DEF Age
<1>4. n.known = s /\ n.events = <<>> \o new
  BY DEF Note
<1>5. <<"created">> \in Seq(Events) /\ <<>> \in Seq(Events)
      /\ <<"created">> # <<>>
  BY DEF Events
<1>6. CASE k = None
  <2>1. q = <<>>
    BY <1>6 DEF Matches
  <2> DEFINE b == <<"created">>
  <2>2. <<>> \o b = b
    BY <1>5, ConcatEmptySeq
  <2>3. b \in Seq(Events) /\ b # <<>> /\ Story(b) /\ Last(b) = "created"
    <3>1. <<>> \in Seq(Events) /\ Story(<<>>) /\ "created" \in Events
      BY DEF Events, Story
    <3> HIDE DEF b
    <3>2. <<>> \o <<"created">> = b
      BY <2>2 DEF b
    <3> QED  BY <3>1, <3>2, StoryGoesOn
  <2> HIDE DEF b
  <2>4. CASE s = "pending"
    <3>1. new = b
      BY <1>2, <1>6, <2>3, <2>4, ConcatEmptySeq DEF b
    <3>2. n.events = b /\ q \o n.events = b
      BY <1>4, <2>1, <2>3, <3>1, ConcatEmptySeq
    <3> QED  BY <1>1, <1>4, <2>3, <2>4, <3>2 DEF Matches
  <2>5. ASSUME NEW f \in {"started", "failed", "completed"}, EventOf(s) = <<f>>,
               s = f \/ (s = "processing" /\ f = "started")
        PROVE  Story(q \o n.events) /\ Matches(s, q \o n.events)
    <3> DEFINE p == b \o <<f>>
    <3>1. p \in Seq(Events) /\ p # <<>> /\ Story(p) /\ Last(p) = f
      BY <2>3, StoryGoesOn DEF Events, Follows
    <3>2. new = p
      BY <1>6, <2>5 DEF b
    <3> HIDE DEF p
    <3>3. n.events = p /\ q \o n.events = p
      BY <1>4, <2>1, <3>1, <3>2, ConcatEmptySeq
    <3> QED  BY <1>1, <2>5, <3>1, <3>3 DEF Matches
  <2>6. s = "processing" => Story(q \o n.events) /\ Matches(s, q \o n.events)
    BY <1>2, <2>5
  <2>7. s \in {"failed", "completed"}
        => Story(q \o n.events) /\ Matches(s, q \o n.events)
    BY <1>2, <2>5
  <2> QED
    <3>1. s \in {"pending", "processing", "failed", "completed"}
      BY <1>1 DEF Status, RunningStatus, EndStatus
    <3> QED  BY <1>4, <2>4, <2>6, <2>7, <3>1
<1>7. CASE k = s
  <2>1. new = <<>>
    BY <1>1, <1>7
  <2>2. n.events = <<>> /\ q \o n.events = q
    BY <1>4, <1>5, <2>1, ConcatEmptySeq
  <2> QED  BY <1>4, <1>7, <2>2
<1>8. CASE k # None /\ k # s
  <2>1. q # <<>> /\ k \in Status
    BY <1>8 DEF Matches
  <2>2. ASSUME NEW f \in {"started", "failed", "completed"}, EventOf(s) = <<f>>,
               s = f \/ (s = "processing" /\ f = "started"), Follows(Last(q), f)
        PROVE  Story(q \o n.events) /\ Matches(s, q \o n.events)
    <3> DEFINE p == q \o <<f>>
    <3>1. p \in Seq(Events) /\ p # <<>> /\ Story(p) /\ Last(p) = f
      BY <2>1, <2>2, StoryGoesOn DEF Events
    <3>2. new = <<f>> /\ <<f>> \in Seq(Events)
      BY <1>8, <2>2 DEF Events
    <3>3. n.events = <<f>>
      BY <1>4, <3>2, ConcatEmptySeq
    <3>4. q \o n.events = p
      BY <3>3
    <3> HIDE DEF p
    <3> QED  BY <1>1, <2>2, <3>1, <3>4 DEF Matches
  <2>3. CASE s = "processing"
    <3>1. k = "pending"
      BY <1>3, <1>8, <2>1, <2>3 DEF Status, RunningStatus, EndStatus
    <3>2. Last(q) = "created"
      BY <2>1, <3>1 DEF Matches
    <3> QED  BY <1>2, <1>4, <2>2, <2>3, <3>2 DEF Follows
  <2>4. CASE s = "failed"
    <3>1. k \in {"pending", "processing"}
      BY <1>3, <1>8, <2>1, <2>4 DEF Status, RunningStatus, EndStatus
    <3>2. Last(q) \in {"created", "started"}
      BY <2>1, <3>1 DEF Matches
    <3>3. Follows(Last(q), "failed") /\ EventOf(s) = <<"failed">> /\ s = "failed"
      BY <1>2, <2>4, <3>2 DEF Follows
    <3>4. Story(q \o n.events) /\ Matches(s, q \o n.events)
      BY <2>2, <3>3
    <3> QED  BY <1>4, <3>4
  <2>5. CASE s = "completed"
    <3>1. k \in {"pending", "processing", "failed"}
      BY <1>8, <2>1, <2>5 DEF Status, RunningStatus, EndStatus
    <3>2. Last(q) \in {"created", "started", "failed"}
      BY <2>1, <3>1 DEF Matches
    <3>3. Follows(Last(q), "completed") /\ EventOf(s) = <<"completed">> /\ s = "completed"
      BY <1>2, <2>5, <3>2 DEF Follows
    <3>4. Story(q \o n.events) /\ Matches(s, q \o n.events)
      BY <2>2, <3>3
    <3> QED  BY <1>4, <3>4
  <2>6. s # "pending"
    BY <1>3, <1>8, <2>1 DEF Status, RunningStatus, EndStatus
  <2> QED
    BY <1>1, <2>3, <2>4, <2>5, <2>6 DEF Status, RunningStatus, EndStatus
<1> QED  BY <1>6, <1>7, <1>8

\* The first poll, to which nothing is known, tells of running tasks only.
LEMMA FirstNoteContinues ==
  ASSUME NEW q \in Seq(Events), NEW e \in Entry, q = <<>>
  PROVE  LET n == FirstNote([events |-> <<>>, known |-> None], e)
         IN  /\ n.known \in {None, e.status}
             /\ Story(q \o n.events) /\ Matches(n.known, q \o n.events)
<1> SUFFICES ASSUME NEW n, n = FirstNote([events |-> <<>>, known |-> None], e)
             PROVE  /\ n.known \in {None, e.status}
                    /\ Story(q \o n.events) /\ Matches(n.known, q \o n.events)
  OBVIOUS
<1> DEFINE b == <<"created">>
<1>1. e.status \in Status /\ e.status # None
  BY NullIsNoStatus DEF Entry, Status
<1>2. Append(<<>>, "created") = b
  OBVIOUS
<1>3. /\ b \in Seq(Events) /\ b # <<>> /\ <<>> \o b = b
      /\ Story(<<>>) /\ <<>> \o <<>> = <<>>
  <2>1. b \in Seq(Events) /\ <<>> \in Seq(Events)
    BY DEF Events
  <2> QED  BY <2>1, ConcatEmptySeq DEF Story
<1>4. Story(b) /\ Last(b) = "created"
  <2>1. <<>> \in Seq(Events) /\ "created" \in Events
    BY DEF Events
  <2> HIDE DEF b
  <2>2. <<>> \o <<"created">> = b
    BY <1>3 DEF b
  <2> QED  BY <1>3, <2>1, <2>2, StoryGoesOn
<1>5. CASE e.status \in RunningStatus
  <2>1. n.known = e.status /\ n.events = b
    BY <1>2, <1>5 DEF FirstNote
  <2> HIDE DEF b
  <2>2. q \o n.events = b
    BY <1>3, <2>1
  <2>3. Matches(e.status, b)
    BY <1>1, <1>3, <1>4, <1>5 DEF Matches, RunningStatus
  <2> QED  BY <1>4, <2>1, <2>2, <2>3
<1>6. CASE e.status \notin RunningStatus
  <2>1. n.known = None /\ n.events = <<>>
    BY <1>6 DEF FirstNote
  <2>2. q \o n.events = <<>>
    BY <1>3, <2>1
  <2>3. Matches(None, <<>>)
    BY DEF Matches
  <2> QED  BY <1>3, <2>1, <2>2, <2>3
<1> QED  BY <1>5, <1>6

\* Tasks of which the property speaks.
Good == Tasks \ (shifted \cup lost)

\* An entry that a poll of c, with variables r, has read of a good task.
Timely(c, r, e) ==
    /\ task[e.task] # None /\ Age(e.status) <= Age(task[e.task].status)
    /\ newest = c => Age(known[e.task]) <= Age(e.status)
    /\ r.unread # {} => e = Row(e.task)
    /\ \A f \in r.running \cup r.ended : f.task = e.task => f = e

Polls(c, r) ==
    /\ ticks # 0
    /\ ticks = 1 => newest = c /\ \A t \in Tasks : known[t] = None
    /\ "running" \in r.unread => r.running = {}
    /\ "ended" \in r.unread => r.ended = {}
    /\ \A e \in r.running \cup r.ended : e.task \in Good => Timely(c, r, e)

PollsInv == \A c \in Clients : pc[c] = "list" => Polls(c, req[c])

LivesInv ==
    /\ ticks = 0 => \A t \in Tasks : known[t] = None
    /\ \A t \in Good :
          /\ Story(told[t]) /\ Matches(known[t], told[t])
          /\ known[t] # None =>
                task[t] # None /\ Age(known[t]) <= Age(task[t].status)

LEMMA AgeOf ==
  /\ Age(None) = 0
  /\ \A s \in Status : Age(s) \in Nat \ {0}
  /\ Age("pending") = 1 /\ Age("processing") = 2
  /\ Age("failed") = 3 /\ Age("completed") = 4
BY NullIsNoStatus DEF Age, Status, RunningStatus, EndStatus

LEMMA LivesImply ==
  ASSUME LivesInv
  PROVE  StreamTellsLives
<1>1. \A t \in Good : Story(told[t]) /\ Matches(known[t], told[t])
  BY DEF LivesInv
<1> QED  BY <1>1 DEF Story, Matches, Good, StreamTellsLives

\* What is read of a poll.
LEMMA PollTyped ==
  ASSUME TypeInv, NEW c \in Clients, pc[c] = "list"
  PROVE  /\ StreamFits(req[c]) /\ req[c] \in StreamCall
         /\ req[c].running \subseteq Entry /\ req[c].ended \subseteq Entry
         /\ req[c].unread \subseteq {"running", "ended"}
  BY FitsOf DEF TypeInv, StreamFits, StreamCall

\* A poll that has read one of two lists is half read.
LEMMA HalfReadIs ==
  ASSUME TypeInv, NEW c \in Clients, pc[c] = "list", Polls(c, req[c]),
         req[c].unread # {}, req[c].running \cup req[c].ended # {}
  PROVE  HalfRead(c)
<1>1. req[c].unread \subseteq {"running", "ended"}
  BY PollTyped
<1>2. ~("running" \in req[c].unread /\ "ended" \in req[c].unread)
  BY DEF Polls
<1>3. req[c].unread = {"running"} \/ req[c].unread = {"ended"}
  BY <1>1, <1>2
<1>4. Cardinality(req[c].unread) = 1
  BY <1>3, FS_Singleton
<1> QED  BY <1>4 DEF HalfRead

\* A task changes: no poll of which an entry of it would be kept is half read.
LEMMA MoveKeepsLives ==
  ASSUME TypeInv, LivesInv, PollsInv, NEW m \in Tasks, TaskMoves(m)
  PROVE  LivesInv' /\ PollsInv'
<1>1. /\ UNCHANGED <<apiVars, ticks, newest, known, told, lost>>
      /\ shifted' = IF \E c \in Clients : HalfRead(c) THEN shifted \cup {m}
                    ELSE shifted
  BY DEF TaskMoves
<1>2. PICK s \in Status : /\ task' = [task EXCEPT ![m] =
                               [status |-> s, at |-> moves + 1,
                                created |-> IF s = "pending" THEN moves + 1
                                            ELSE task[m].created]]
                          /\ task[m] # None => Age(task[m].status) <= Age(s)
                          /\ task[m] = None => s = "pending"
  <2>1. CASE task[m] = None
    BY <2>1 DEF TaskMoves, Becomes, Status, RunningStatus
  <2>2. CASE task[m] # None
    <3>1. PICK s \in {"processing", "completed", "failed"} :
             /\ Becomes(m, s) /\ Age(task[m].status) <= Age(s)
      BY <2>2, AgeOf DEF TaskMoves, EndStatus
    <3>2. s \in Status
      BY DEF Status, RunningStatus, EndStatus
    <3>3. task' = [task EXCEPT ![m] =
                      [status |-> s, at |-> moves + 1,
                       created |-> IF s = "pending" THEN moves + 1
                                   ELSE task[m].created]]
      BY <3>1 DEF Becomes
    <3> QED  BY <2>2, <3>1, <3>2, <3>3
  <2> QED  BY <2>1, <2>2
<1>3. /\ task'[m].status = s /\ task'[m] # None
      /\ \A t \in Tasks \ {m} : task'[t] = task[t]
  <2> DEFINE row == [status |-> s, at |-> moves + 1,
                     created |-> IF s = "pending" THEN moves + 1
                                 ELSE task[m].created]
  <2>1. row.status = s
    OBVIOUS
  <2>2. task' = [task EXCEPT ![m] = row]
    BY <1>2
  <2> HIDE DEF row
  <2>3. task'[m] = row /\ \A t \in Tasks \ {m} : task'[t] = task[t]
    BY <2>2 DEF TypeInv, StreamTypes
  <2>4. task'[m] # None
    <3>1. row \in TaskRow
      <4>1. moves + 1 \in Nat
        BY DEF TypeInv, StreamTypes, StreamTypeOK
      <4> QED  BY <1>2, <4>1 DEF row, TaskRow, Status, TypeInv, StreamTypes
    <3> QED  BY <2>3, <3>1, NullIsNoStatus
  <2> QED  BY <2>1, <2>3, <2>4
<1>4. \A t \in Tasks : task[t] # None =>
         task'[t] # None /\ Age(task[t].status) <= Age(task'[t].status)
  <2> TAKE t \in Tasks
  <2>1. task[t] # None => Age(task[t].status) \in Nat
    BY AgeOf DEF TypeInv, StreamTypes, TaskRow, Status
  <2> QED  BY <1>2, <1>3, <2>1
<1>5. Good' \subseteq Good
  BY <1>1 DEF Good
<1>6. \A t \in Tasks : /\ Age(known[t]) \in Nat
                       /\ task[t] # None => Age(task[t].status) \in Nat
                       /\ task'[t] # None => Age(task'[t].status) \in Nat
  <2>1. \A t \in Tasks : known[t] \in Status \cup {None}
    BY DEF TypeInv, StreamTypes, StreamTypeOK, Status
  <2>2. \A t \in Tasks : task[t] # None => task[t].status \in Status
    BY DEF TypeInv, StreamTypes, TaskRow, Status
  <2> QED  BY <1>2, <1>3, <2>1, <2>2, AgeOf
<1>7. LivesInv'
  BY <1>1, <1>4, <1>5, <1>6 DEF LivesInv, Good
<1>8. ASSUME NEW c \in Clients, pc[c] = "list",
             NEW e \in req[c].running \cup req[c].ended, e.task \in Good'
      PROVE  Timely(c, req[c], e)'
  <2>1. Polls(c, req[c]) /\ Timely(c, req[c], e) /\ e \in Entry
    BY <1>5, <1>8, PollTyped DEF PollsInv, Polls
  <2>2. e.task \in Tasks /\ Age(e.status) \in Nat
    BY <2>1, AgeOf DEF Entry, Status
  <2>3. /\ task'[e.task] # None
        /\ Age(e.status) <= Age(task'[e.task].status)
    BY <1>4, <1>6, <2>1, <2>2 DEF Timely
  <2>4. req[c].unread # {} => e.task # m
    BY <1>1, <1>8, <2>1, HalfReadIs DEF Good
  <2>5. req[c].unread # {} => e = Row(e.task)'
    BY <1>3, <2>1, <2>2, <2>4 DEF Timely, Row
  <2> QED  BY <1>1, <2>1, <2>3, <2>5 DEF Timely, apiVars
<1>9. PollsInv'
  <2> SUFFICES ASSUME NEW c \in Clients, pc[c] = "list"
               PROVE  Polls(c, req[c])'
    BY <1>1 DEF PollsInv, apiVars
  <2>1. Polls(c, req[c])
    BY DEF PollsInv
  <2> QED  BY <1>1, <1>8, <2>1 DEF Polls, apiVars
<1> QED  BY <1>7, <1>9

LEMMA PollBeginKeepsLives ==
  ASSUME TypeInv, LivesInv, PollsInv, NEW c \in Clients, PollBegins(c)
  PROVE  LivesInv' /\ PollsInv'
<1> DEFINE x == [kind |-> "stream", running |-> {}, ended |-> {},
                 unread |-> {"running", "ended"}]
<1>1. /\ ComesTo(c, "list", x) /\ ticks' = ticks + 1 /\ newest' = c
      /\ UNCHANGED <<task, known, told, shifted, lost>>
  BY DEF PollBegins, ComesTo
<1>2. ticks \in Nat
  BY DEF TypeInv, StreamTypes, StreamTypeOK
<1>3. /\ req'[c] = x
      /\ \A d \in Clients \ {c} : pc'[d] = pc[d] /\ req'[d] = req[d]
  BY <1>1, ComesThere DEF TypeInv
<1>4. x.running = {} /\ x.ended = {}
  OBVIOUS
<1> HIDE DEF x
<1>5. LivesInv'
  BY <1>1, <1>2 DEF LivesInv, Good
<1>6. ASSUME NEW d \in Clients, pc'[d] = "list"
      PROVE  Polls(d, req[d])'
  <2>1. CASE d = c
    <3>1. ticks' = 1 => \A t \in Tasks : known'[t] = None
      BY <1>1, <1>2 DEF LivesInv
    <3> QED  BY <1>1, <1>2, <1>3, <1>4, <2>1, <3>1 DEF Polls
  <2>2. CASE d # c
    <3>1. Polls(d, req[d]) /\ req'[d] = req[d]
      BY <1>3, <1>6, <2>2 DEF PollsInv
    <3>2. ticks' # 1 /\ ticks' # 0
      BY <1>1, <1>2, <3>1 DEF Polls
    <3>3. \A e \in req[d].running \cup req[d].ended :
             e.task \in Good' => Timely(d, req[d], e)'
      BY <1>1, <2>2, <3>1 DEF Polls, Timely, Row, Good
    <3> QED  BY <3>1, <3>2, <3>3 DEF Polls
  <2> QED  BY <2>1, <2>2
<1> QED  BY <1>5, <1>6 DEF PollsInv

\* One of the two reads: what it returns is as the tables are now.
LEMMA ReadKeepsLives ==
  ASSUME TypeInv, LivesInv, PollsInv, NEW c \in Clients, pc[c] = "list",
         NEW x, ComesTo(c, "list", x), UNCHANGED streamVars,
         req[c].unread # {},
         \/ /\ "running" \in req[c].unread /\ x.running = RunningRows
            /\ x.ended = req[c].ended /\ x.unread = req[c].unread \ {"running"}
         \/ /\ "ended" \in req[c].unread /\ x.ended = EndedRows
            /\ x.running = req[c].running /\ x.unread = req[c].unread \ {"ended"}
  PROVE  LivesInv' /\ PollsInv'
<1> DEFINE r == req[c]
<1>1. /\ req'[c] = x
      /\ \A d \in Clients \ {c} : pc'[d] = pc[d] /\ req'[d] = req[d]
  BY ComesThere DEF TypeInv
<1>2. LivesInv'
  BY DEF streamVars, LivesInv, Good
<1>3. Polls(c, r) /\ StreamTypes
  BY DEF PollsInv, TypeInv
<1>4. r.running \subseteq Entry /\ r.ended \subseteq Entry
  BY PollTyped
<1>5. ASSUME NEW e \in RunningRows \cup EndedRows
      PROVE  e.task \in Tasks /\ task[e.task] # None /\ e = Row(e.task)
  <2>1. PICK t \in Tasks : task[t] # None /\ e = Row(t)
    BY DEF RunningRows, EndedRows, WithStatus
  <2>2. e.task = t
    BY <2>1 DEF Row
  <2> QED  BY <2>1, <2>2
<1>6. ASSUME NEW e \in x.running \cup x.ended, e.task \in Good
      PROVE  /\ task[e.task] # None /\ e = Row(e.task)
             /\ Age(e.status) <= Age(task[e.task].status)
             /\ newest = c => Age(known[e.task]) <= Age(e.status)
  <2>1. CASE e \in RunningRows \cup EndedRows
    <3>1. task[e.task] # None /\ e = Row(e.task) /\ e.task \in Tasks
      BY <1>5, <2>1
    <3>2. e.status = task[e.task].status
      BY <3>1 DEF Row
    <3>3. Age(e.status) \in Nat
      BY <3>1, <3>2, AgeOf DEF TypeInv, StreamTypes, TaskRow, Status
    <3>4. Age(known[e.task]) <= Age(e.status)
      <4>1. CASE known[e.task] = None
        BY <3>3, <4>1, AgeOf
      <4>2. CASE known[e.task] # None
        BY <1>6, <3>2, <4>2 DEF LivesInv
      <4> QED  BY <4>1, <4>2
    <3> QED  BY <3>1, <3>2, <3>3, <3>4
  <2>2. CASE e \in r.running \cup r.ended
    BY <1>3, <1>6, <2>2 DEF Polls, Timely
  <2> QED  BY <2>1, <2>2
<1>7. \A e \in x.running \cup x.ended : e.task \in Good => Timely(c, x, e)
  <2> SUFFICES ASSUME NEW e \in x.running \cup x.ended, e.task \in Good,
                      NEW f \in x.running \cup x.ended, f.task = e.task
               PROVE  f = e
    <3> HIDE DEF Row, Good
    <3> QED  BY <1>6 DEF Timely
  <2>1. e = Row(e.task) /\ f = Row(f.task)
    BY <1>6
  <2> QED  BY <2>1
<1>8. /\ "running" \in x.unread => x.running = {}
      /\ "ended" \in x.unread => x.ended = {}
  BY <1>3 DEF Polls
<1>9. Polls(c, x)
  BY <1>3, <1>7, <1>8 DEF Polls
<1>10. ASSUME NEW d \in Clients, pc'[d] = "list"
       PROVE  Polls(d, req[d])'
  <2>1. Polls(d, req'[d])
    <3>1. CASE d = c
      BY <1>1, <1>9, <3>1
    <3>2. CASE d # c
      BY <1>1, <1>10, <3>2 DEF PollsInv
    <3> QED  BY <3>1, <3>2
  <2> QED  BY <2>1 DEF Polls, Timely, Row, Good, streamVars
<1> QED  BY <1>2, <1>10 DEF PollsInv

\* What is noted of a good task: nothing, or its one entry.
LEMMA NotedOfOne ==
  ASSUME TypeInv, NEW c \in Clients, pc[c] = "list", Polls(c, req[c]),
         NEW t \in Good
  PROVE  LET acc == [events |-> <<>>, known |-> known[t]]
         IN  \/ Noted(req[c], t) = acc
             \/ \E e \in Entry : /\ e.task = t /\ Timely(c, req[c], e)
                                 /\ Noted(req[c], t) = Compared(acc, e)
<1> DEFINE r == req[c]
           S == Entries(r, t)
           acc == [events |-> <<>>, known |-> known[t]]
<1>1. StreamFits(r) /\ r \in StreamCall /\ t \in Tasks
  BY PollTyped DEF Good
<1>2. \A e \in S : /\ e \in r.running \cup r.ended /\ e.task = t /\ e \in Entry
                   /\ Timely(c, r, e)
  <2>1. \A e \in S : e \in r.running \cup r.ended /\ e.task = t
    BY DEF Entries, Listed
  <2>2. S \in SUBSET Entry
    BY <1>1, ListedTyped
  <2> HIDE DEF S
  <2> QED  BY <2>1, <2>2 DEF Polls
<1>3. Noted(r, t) = IF S = {} THEN acc
                    ELSE IF S = {Latest(S)} THEN Compared(acc, Latest(S))
                    ELSE Compared(Compared(acc, Latest(S)),
                                  CHOOSE e \in S \ {Latest(S)} : TRUE)
  BY <1>1, NotedIs
<1>4. S # {} => Latest(S) \in S
  BY <1>1, LatestIsLast
<1> HIDE DEF S, acc
<1>5. CASE S = {}
  BY <1>3, <1>5 DEF acc
<1>6. CASE S # {}
  <2>1. \A e \in S : e = Latest(S)
    BY <1>2, <1>4, <1>6 DEF Timely
  <2>2. S = {Latest(S)}
    BY <1>4, <1>6, <2>1
  <2>3. Noted(r, t) = Compared(acc, Latest(S))
    BY <1>3, <1>6, <2>2
  <2> QED  BY <1>2, <1>4, <1>6, <2>3 DEF acc
<1> QED  BY <1>5, <1>6

LEMMA PollEndKeepsLives ==
  ASSUME TypeInv, LivesInv, PollsInv, NEW c \in Clients, PollEnds(c)
  PROVE  LivesInv' /\ PollsInv'
<1> DEFINE r == req[c]
<1>1. /\ pc[c] = "list"
      /\ known' = [t \in Tasks |-> Noted(r, t).known]
      /\ newest = c => /\ told' = [t \in Tasks |-> told[t] \o Noted(r, t).events]
                       /\ UNCHANGED lost
      /\ newest # c => /\ lost' = lost \cup {t \in Tasks : known'[t] # known[t]}
                       /\ UNCHANGED told
      /\ ComesTo(c, "idle", None)
      /\ UNCHANGED <<task, moves, ticks, newest, open, shifted>>
  <2> HIDE DEF Noted
  <2> QED  BY FinishTyped DEF PollEnds
<1>2. Polls(c, r)
  BY <1>1 DEF PollsInv
<1>3. /\ pc'[c] = "idle"
      /\ \A d \in Clients \ {c} : pc'[d] = pc[d] /\ req'[d] = req[d]
  BY <1>1, ComesThere DEF TypeInv
<1>4. Good' \subseteq Good /\ Good \subseteq Tasks
  BY <1>1 DEF Good
<1>5. ASSUME NEW t \in Good, newest = c
      PROVE  /\ Story(told'[t]) /\ Matches(known'[t], told'[t])
             /\ known'[t] # None =>
                   task[t] # None /\ Age(known'[t]) <= Age(task[t].status)
  <2> DEFINE acc == [events |-> <<>>, known |-> known[t]]
             n == Noted(r, t)
  <2>1. /\ told[t] \in Seq(Events) /\ known[t] \in Status \cup {None}
        /\ Story(told[t]) /\ Matches(known[t], told[t])
    BY <1>4 DEF LivesInv, TypeInv, StreamTypes, StreamTypeOK, Status
  <2>2. told'[t] = told[t] \o n.events /\ known'[t] = n.known
    BY <1>1, <1>4, <1>5
  <2>3. CASE n = acc
    <3>1. n.events = <<>> /\ n.known = known[t]
      BY <2>3
    <3> HIDE DEF n
    <3>2. told'[t] = told[t] /\ known'[t] = known[t]
      BY <2>1, <2>2, <3>1, ConcatEmptySeq
    <3> QED  BY <2>1, <3>2 DEF LivesInv
  <2>4. ASSUME NEW e \in Entry, e.task = t, Timely(c, r, e),
               n = Compared(acc, e)
        PROVE  /\ Story(told'[t]) /\ Matches(known'[t], told'[t])
               /\ known'[t] # None =>
                     task[t] # None /\ Age(known'[t]) <= Age(task[t].status)
    <3>1. /\ task[t] # None /\ Age(e.status) <= Age(task[t].status)
          /\ Age(known[t]) <= Age(e.status)
      BY <1>5, <2>4 DEF Timely
    <3>2. CASE ticks = 1
      <4>1. known[t] = None /\ told[t] = <<>>
        BY <1>2, <1>4, <2>1, <3>2 DEF Polls, Matches
      <4>2. n = FirstNote([events |-> <<>>, known |-> None], e)
        BY <2>4, <3>2, <4>1 DEF Compared
      <4> HIDE DEF n
      <4>3. /\ n.known \in {None, e.status}
            /\ Story(told[t] \o n.events) /\ Matches(n.known, told[t] \o n.events)
        BY <2>1, <4>1, <4>2, FirstNoteContinues
      <4> QED  BY <2>2, <3>1, <4>3
    <3>3. CASE ticks # 1
      <4>1. n = Note([events |-> <<>>, known |-> known[t]], e)
        BY <2>4, <3>3 DEF Compared
      <4> HIDE DEF n
      <4>2. /\ n.known = e.status /\ Story(told[t] \o n.events)
            /\ Matches(e.status, told[t] \o n.events)
        BY <2>1, <3>1, <4>1, NoteContinues
      <4> QED  BY <2>2, <3>1, <4>2
    <3> QED  BY <3>2, <3>3
  <2> HIDE DEF n, acc
  <2>5. n = acc \/ \E e \in Entry : /\ e.task = t /\ Timely(c, r, e)
                                    /\ n = Compared(acc, e)
    BY <1>1, <1>2, NotedOfOne DEF n, acc
  <2> QED  BY <2>3, <2>4, <2>5
<1>6. ASSUME newest # c, NEW t \in Good'
      PROVE  known'[t] = known[t] /\ told'[t] = told[t]
  BY <1>1, <1>6 DEF Good
<1>7. LivesInv'
  <2>1. ticks' # 0
    BY <1>1, <1>2 DEF Polls
  <2>2. \A t \in Good' :
           /\ Story(told'[t]) /\ Matches(known'[t], told'[t])
           /\ known'[t] # None =>
                 task[t] # None /\ Age(known'[t]) <= Age(task[t].status)
    <3> TAKE t \in Good'
    <3>1. t \in Good
      BY <1>4
    <3>2. CASE newest = c
      BY <1>5, <3>1, <3>2
    <3>3. CASE newest # c
      BY <1>6, <3>1, <3>3 DEF LivesInv
    <3> QED  BY <3>2, <3>3
  <2> QED  BY <1>1, <2>1, <2>2 DEF LivesInv
<1>8. ASSUME NEW d \in Clients, pc'[d] = "list"
      PROVE  Polls(d, req[d])'
  <2>1. d # c /\ req'[d] = req[d] /\ Polls(d, req[d])
    BY <1>3, <1>8 DEF PollsInv
  <2>2. ticks # 1
    BY <1>2, <2>1 DEF Polls
  <2>3. \A e \in req[d].running \cup req[d].ended :
           e.task \in Good' => Timely(d, req[d], e)'
    <3> SUFFICES ASSUME NEW e \in req[d].running \cup req[d].ended,
                        e.task \in Good'
                 PROVE  Timely(d, req[d], e)'
      OBVIOUS
    <3>1. Timely(d, req[d], e)
      BY <1>4, <2>1 DEF Polls
    <3>2. newest = d => known'[e.task] = known[e.task]
      BY <1>6, <2>1
    <3> QED  BY <1>1, <2>1, <3>1, <3>2 DEF Timely, Row
  <2> QED  BY <1>1, <2>1, <2>2, <2>3 DEF Polls
<1> QED  BY <1>7, <1>8 DEF PollsInv

LEMMA LivesStep ==
  ASSUME TypeInv, LivesInv, PollsInv, StreamPart
  PROVE  LivesInv' /\ PollsInv'
<1>1. CASE \E t \in Tasks : TaskMoves(t)
  BY <1>1, MoveKeepsLives
<1>2. ASSUME NEW c \in Clients, PollBegins(c) \/ PollEnds(c)
      PROVE  LivesInv' /\ PollsInv'
  BY <1>2, PollBeginKeepsLives, PollEndKeepsLives
<1>3. ASSUME NEW c \in Clients, ReadRunning(c)
      PROVE  LivesInv' /\ PollsInv'
  <2> DEFINE x == [req[c] EXCEPT !.running = RunningRows,
                                 !.unread = @ \ {"running"}]
  <2>1. /\ pc[c] = "list" /\ "running" \in req[c].unread
        /\ ComesTo(c, "list", x) /\ UNCHANGED streamVars
    BY <1>3 DEF ReadRunning, ComesTo
  <2>2. req[c] \in StreamCall
    BY <2>1, PollTyped
  <2>3. /\ x.running = RunningRows /\ x.ended = req[c].ended
        /\ x.unread = req[c].unread \ {"running"}
    BY <2>2 DEF StreamCall
  <2> HIDE DEF x
  <2> QED  BY <2>1, <2>3, ReadKeepsLives
<1>4. ASSUME NEW c \in Clients, ReadEnded(c)
      PROVE  LivesInv' /\ PollsInv'
  <2> DEFINE x == [req[c] EXCEPT !.ended = EndedRows,
                                 !.unread = @ \ {"ended"}]
  <2>1. /\ pc[c] = "list" /\ "ended" \in req[c].unread
        /\ ComesTo(c, "list", x) /\ UNCHANGED streamVars
    BY <1>4 DEF ReadEnded, ComesTo
  <2>2. req[c] \in StreamCall
    BY <2>1, PollTyped
  <2>3. /\ x.ended = EndedRows /\ x.running = req[c].running
        /\ x.unread = req[c].unread \ {"ended"}
    BY <2>2 DEF StreamCall
  <2> HIDE DEF x
  <2> QED  BY <2>1, <2>3, ReadKeepsLives
<1> QED  BY <1>1, <1>2, <1>3, <1>4 DEF StreamPart, StreamStep

\* A page is told of each task in the order of its life, nothing twice, and what
\* was noted last, however many tasks and polls there are: except of tasks that
\* changed between the two reads of getTaskList, and of tasks that an overtaken
\* poll took note of without telling.
THEOREM StreamSafe == Spec => []StreamTellsLives
<1>1. Init => LivesInv /\ PollsInv
  <2> SUFFICES ASSUME Init PROVE LivesInv /\ PollsInv
    OBVIOUS
  <2>1. /\ \A t \in Tasks : known[t] = None /\ told[t] = <<>>
        /\ \A c \in Clients : pc[c] = "idle"
    BY DEF Init, StreamInit, ApiInit
  <2> QED  BY <2>1 DEF LivesInv, PollsInv, Good, Story, Matches
<1>2. TypeInv /\ LivesInv /\ PollsInv /\ [Next]_vars => LivesInv' /\ PollsInv'
  <2> SUFFICES ASSUME TypeInv, LivesInv, PollsInv, [Next]_vars
               PROVE  LivesInv' /\ PollsInv'
    OBVIOUS
  <2>1. TypeInv' /\ UNCHANGED part
    BY StepOf
  <2>2. ASSUME UNCHANGED <<task, ticks, newest, known, told, shifted, lost>>,
               \A c \in Clients : pc'[c] = "list" =>
                  pc[c] = "list" /\ req'[c] = req[c]
        PROVE  LivesInv' /\ PollsInv'
    <3>1. LivesInv'
      BY <2>2 DEF LivesInv, Good
    <3>2. ASSUME NEW c \in Clients, pc'[c] = "list"
          PROVE  Polls(c, req[c])'
      <4>1. Polls(c, req[c]) /\ req'[c] = req[c]
        BY <2>2, <3>2 DEF PollsInv
      <4> QED  BY <2>2, <4>1 DEF Polls, Timely, Row, Good
    <3> QED  BY <3>1, <3>2 DEF PollsInv
  <2>3. ASSUME NEW C \in SUBSET Clients, Stops(C)
        PROVE  LivesInv' /\ PollsInv'
    <3>1. UNCHANGED <<task, ticks, newest, known, told, shifted, lost>>
      BY <2>3 DEF Stops, Leave, Closes
    <3> QED  BY <2>2, <2>3, <3>1, StopsOthers
  <2>4. CASE Elsewhere("stream") /\ UNCHANGED streamVars
    <3>1. UNCHANGED <<task, ticks, newest, known, told, shifted, lost>>
      BY <2>4 DEF streamVars
    <3>2. CASE UNCHANGED apiVars
      BY <2>2, <3>1, <3>2 DEF apiVars
    <3>3. CASE part # "stream"
      <4>1. \A c \in Clients : pc'[c] # "list"
        BY <2>1, <3>3 DEF TypeInv, CallTypes, CallFits, AccountLabels, BindLabels,
                SettingsLabels, BridgeLabels, OrderLabels, HistoryLabels, NewsLabels
      <4> QED  BY <2>2, <3>1, <4>1
    <3> QED  BY <2>4, <3>2, <3>3 DEF Elsewhere
  <2> QED  BY <2>1, <2>3, <2>4, LivesStep, StepOf DEF Stopping
<1>3. LivesInv => StreamTellsLives
  BY LivesImply
<1> QED  BY <1>1, <1>2, <1>3, AlwaysTyped, PTL DEF Spec

=============================================================================
