--------------------------- MODULE SimulationAccounts ---------------------------
(***************************************************************************)
(* The simulation account of one user: binding it, having the Agent verify *)
(* it, the cached snapshot of it, and deposits into it.  (Users share no   *)
(* row of these tables.)  The transaction of a bind begins by writing the  *)
(* profile of its user, whose row lock keeps two binds apart: it is one    *)
(* step.  Verification, deposits and snapshots are calls of the Agent, and *)
(* what they return is written by later statements.                        *)
(***************************************************************************)
EXTENDS ApiRequests

CONSTANTS
    Rows,   \* bound: ids of broker account rows, 1 .. n
    Uids    \* account_uid

ASSUME AccountConstants ==
    /\ Rows \subseteq Nat \ {0} /\ IsFiniteSet(Rows)
    /\ \A r \in Rows : 1 .. r \subseteq Rows

VARIABLES
    account,    \* account[r]: row r of user_broker_accounts
    snapshot,   \* snapshot[r]: its row of user_broker_snapshot_cache
    funds,      \* external: deposits the Agent has made into <<r, uid>>
    provisioned,    \* external: the accounts the Agent has verified
    bound,      \* history: row and account of the bind that committed last
    shown,      \* history: the deposits a user was told of
    rebound,    \* history: binds whose row was bound again before they were
                \* through
    mixed,      \* history: rows verified by the answer for another account
    overrun,    \* history: requests whose row was cached by another since
    late        \* history: rows whose snapshot is such an older one

accountVars == <<account, snapshot, funds, provisioned, bound, shown,
                 rebound, mixed, overrun, late>>

Accounts == Rows \X Uids
NoRow    == [uid |-> None, live |-> FALSE, verified |-> FALSE, at |-> 0]

\* Rows of former versions may be there, several of them live.
AccountInit ==
    /\ account \in [Rows -> {NoRow}
                       \cup [uid : Uids, live : {TRUE}, verified : BOOLEAN,
                             at : Rows]]
    /\ \A r, s \in Rows : account[r] # NoRow /\ s < r =>
          /\ account[s] # NoRow
          /\ account[s].uid # account[r].uid
          /\ account[s].at # account[r].at
    /\ snapshot = [r \in Rows |-> None]
    /\ funds = [a \in Accounts |-> 0]
    /\ provisioned = {<<r, account[r].uid>> :
                          r \in {r \in Rows : account[r].verified}}
    /\ bound = None
    /\ shown = [a \in Accounts |-> 0]
    /\ rebound = {} /\ mixed = {} /\ overrun = {} /\ late = {}

Live == {r \in Rows : account[r].live}
Now  == 1 + CHOOSE t \in {0} \cup {account[r].at : r \in Rows} :
                \A r \in Rows : account[r].at <= t

\* loadSimulationAccount: verified rows first, then the last updated.
Before(r, s) ==
    \/ account[r].verified /\ ~account[s].verified
    \/ /\ account[r].verified = account[s].verified
       /\ account[r].at > account[s].at
Resolved(r) == r \in Live /\ \A s \in Live \ {r} : Before(r, s)

AccountCall ==
    [kind : {"bind", "look", "deposit"}, uid : Uids \cup {None},
     refresh : BOOLEAN, row : Rows \cup {None}, funds : 0 .. MaxRequests,
     into : Accounts \cup {None}, level : 0 .. MaxRequests]

AskAccount(c, label, kind, uid, refresh) ==
    /\ Arrive(c, label,
              [kind |-> kind, uid |-> uid, refresh |-> refresh, row |-> None,
               funds |-> 0, into |-> None, level |-> 0])
    /\ UNCHANGED accountVars

BindRequest(c)    == \E u \in Uids : AskAccount(c, "bind", "bind", u, FALSE)
LookRequest(c)    == \E f \in BOOLEAN :
                        AskAccount(c, "resolve", "look", None, f)
DepositRequest(c) == AskAccount(c, "resolve", "deposit", None, FALSE)

(***************************************************************************)
(* bindMySimulationAccount.                                                *)
(***************************************************************************)
\* The live row updated last is given the account; the first one is created.
Target(r) ==
    IF Live = {} THEN account[r] = NoRow /\ \A s \in Rows : s < r =>
                                                account[s] # NoRow
    ELSE r \in Live /\ \A s \in Live : account[s].at <= account[r].at

\* The uid is unique among the rows of the user, the deleted ones included.
Taken(uid, r) == \E s \in Rows \ {r} : account[s].uid = uid

Bound_Trusted(r, uid) ==
    [s \in Rows |->
        IF s = r THEN [uid |-> uid, live |-> TRUE,
                       verified |-> account[r].verified, at |-> Now]
        ELSE [account[s] EXCEPT !.live = FALSE, !.verified = FALSE]]
Bound_Beside(r, uid) ==
    [account EXCEPT ![r] = [uid |-> uid, live |-> TRUE, verified |-> FALSE,
                            at |-> Now]]
Bound(r, uid) ==
    [s \in Rows |->
        IF s = r THEN [uid |-> uid, live |-> TRUE, verified |-> FALSE,
                       at |-> Now]
        ELSE [account[s] EXCEPT !.live = FALSE, !.verified = FALSE]]

Bind(c) ==
    /\ pc[c] = "bind"
    /\ \E r \in Rows :
          /\ Target(r) /\ ~Taken(req[c].uid, r)
          /\ account' = Bound(r, req[c].uid)
          /\ snapshot' = [s \in Rows |-> IF s \in Live \ {r} THEN None
                                         ELSE snapshot[s]]
          /\ bound' = <<r, req[c].uid>>
          /\ rebound' = rebound
                 \cup {d \in Clients : pc[d] \in {"verify", "markVerified"}
                                      /\ req[d].row = r}
          /\ mixed' = mixed \ {r}
          /\ Goto(c, "verify", [req[c] EXCEPT !.row = r])
    /\ UNCHANGED <<funds, provisioned, shown, overrun, late>>

BindRefused(c) ==
    /\ pc[c] = "bind"
    /\ \E r \in Rows : Target(r) /\ Taken(req[c].uid, r)
    /\ Finish(c)
    /\ UNCHANGED accountVars

\* The Agent answers for the account of this request, and the row is marked by
\* its id whatever account it holds by then.
Verify(c) ==
    /\ pc[c] = "verify"
    /\ provisioned' = provisioned \cup {<<req[c].row, req[c].uid>>}
    /\ Goto(c, "markVerified", req[c])
    /\ UNCHANGED <<account, snapshot, funds, bound, shown, rebound, mixed,
                   overrun, late>>

MarkVerified(c) ==
    /\ pc[c] = "markVerified"
    /\ account' = [account EXCEPT ![req[c].row].verified = TRUE,
                                  ![req[c].row].at = Now]
    /\ mixed' = IF c \in rebound THEN mixed \cup {req[c].row}
                ELSE mixed \ {req[c].row}
    /\ rebound' = rebound \ {c}
    /\ Finish(c)
    /\ UNCHANGED <<snapshot, funds, provisioned, bound, shown, overrun, late>>

(***************************************************************************)
(* resolveSnapshot, addFunds, fetchAndCache.                               *)
(***************************************************************************)
\* resolveSimulationAccess: "resolve" at the start of the request, "access"
\* again at the start of fetchAndCache.
Resolve(c) ==
    /\ pc[c] \in {"resolve", "access"}
    /\ \E r \in Rows :
          /\ Resolved(r) /\ account[r].verified
          /\ Goto(c, IF pc[c] = "access" THEN "fetch"
                     ELSE IF req[c].kind = "deposit" THEN "deposit"
                     ELSE "peek",
                  [req[c] EXCEPT !.row = r, !.uid = account[r].uid])
    /\ UNCHANGED accountVars

AccountRequired(c) ==
    /\ pc[c] \in {"resolve", "access"}
    /\ ~\E r \in Rows : Resolved(r) /\ account[r].verified
    /\ Finish(c)
    /\ UNCHANGED accountVars

Peek(c) ==
    /\ pc[c] = "peek"
    /\ LET s == snapshot[req[c].row]
       IN  IF ~req[c].refresh /\ s # None /\ s.fresh THEN Finish(c)
           ELSE Goto(c, "access", req[c])
    /\ UNCHANGED accountVars

\* external: every call deposits, there is no key to tell a repeated one.
Deposit(c) ==
    /\ pc[c] = "deposit"
    /\ LET a == <<req[c].row, req[c].uid>>
       IN  /\ funds' = [funds EXCEPT ![a] = @ + 1]
           /\ Goto(c, "access", [req[c] EXCEPT !.into = a,
                                               !.level = funds[a] + 1])
    /\ UNCHANGED <<account, snapshot, provisioned, bound, shown, rebound,
                   mixed, overrun, late>>

Fetch(c) ==
    /\ pc[c] = "fetch"
    /\ Goto(c, "store",
            [req[c] EXCEPT !.funds = funds[<<req[c].row, req[c].uid>>]])
    /\ overrun' = overrun \ {c}
    /\ UNCHANGED <<account, snapshot, funds, provisioned, bound, shown,
                   rebound, mixed, late>>

Cached_Extends(c) ==
    IF snapshot[req[c].row] # None
    THEN [snapshot[req[c].row] EXCEPT !.fresh = TRUE]
    ELSE [uid |-> req[c].uid, funds |-> req[c].funds, fresh |-> TRUE]
Cached(c) == [uid |-> req[c].uid, funds |-> req[c].funds, fresh |-> TRUE]

\* A deposit is told of once the snapshot that follows it is stored.
Told(c) ==
    IF req[c].kind = "deposit"
    THEN [shown EXCEPT ![req[c].into] =
              IF req[c].level > @ THEN req[c].level ELSE @]
    ELSE shown

Store(c) ==
    /\ pc[c] = "store"
    /\ snapshot' = [snapshot EXCEPT ![req[c].row] = Cached(c)]
    /\ shown' = Told(c)
    /\ late' = IF c \in overrun THEN late \cup {req[c].row}
               ELSE late \ {req[c].row}
    /\ overrun' = (overrun \ {c})
                  \cup {d \in Clients \ {c} : /\ pc[d] = "store"
                                              /\ req[d].row = req[c].row}
    /\ Finish(c)
    /\ UNCHANGED <<account, funds, provisioned, bound, rebound, mixed>>

\* BROKER_SNAPSHOT_CACHE_TTL_MS passes.
Expires(r) ==
    /\ snapshot[r] # None /\ snapshot[r].fresh
    /\ snapshot' = [snapshot EXCEPT ![r].fresh = FALSE]
    /\ UNCHANGED <<apiVars, account, funds, provisioned, bound, shown,
                   rebound, mixed, overrun, late>>

AccountStep(c) ==
    \/ Bind(c) \/ BindRefused(c) \/ Verify(c) \/ MarkVerified(c)
    \/ Resolve(c) \/ AccountRequired(c) \/ Peek(c) \/ Deposit(c)
    \/ Fetch(c) \/ Store(c)

\* Requests C end without finishing.
Uncross(C) == /\ rebound' = rebound \ C
              /\ overrun' = overrun \ C
              /\ UNCHANGED <<account, snapshot, funds, provisioned, bound,
                             shown, mixed, late>>

AccountTypeOK ==
    /\ \A r \in Rows : account[r] \in [uid : Uids \cup {None}, live : BOOLEAN,
                                       verified : BOOLEAN, at : Nat]
    /\ \A r \in Rows : snapshot[r] \in {None}
          \cup [uid : Uids, funds : 0 .. MaxRequests, fresh : BOOLEAN]
    /\ funds \in [Accounts -> 0 .. MaxRequests]
    /\ provisioned \subseteq Accounts
    /\ bound \in Accounts \cup {None}
    /\ shown \in [Accounts -> 0 .. MaxRequests]
    /\ rebound \cup overrun \subseteq Clients
    /\ mixed \cup late \subseteq Rows

=============================================================================
