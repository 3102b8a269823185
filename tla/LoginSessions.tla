------------------------------ MODULE LoginSessions ------------------------------
(***************************************************************************)
(* Signing in, registering, changing one's password and leaving, with the  *)
(* limit on failed attempts.  The limit is a row per address and name,     *)
(* read by one statement and written by a later one; one address is        *)
(* modelled, so the name alone is the key.                                 *)
(*                                                                         *)
(* A definition with an underscore in its name is the next one with a      *)
(* mistake in it.                                                          *)
(***************************************************************************)
EXTENDS Directory

CONSTANTS MaxFailures       \* RATE_LIMIT_MAX_FAILURES

ASSUME LoginConstants == MaxFailures \in Nat \ {0}

VARIABLES
    limit,      \* limit[u]: the row of admin_login_rate_limits for this name
    guesses,    \* history: wrong passwords for u that were tried and looked at
                \* since the window opened or a login cleared it
    blurred     \* history: names whose row was written from a stale read, or
                \* was not written after a failure

limitVars == <<limit, guesses, blurred>>

\* expired: the window of the row has passed.
LimitRow == [count : Nat, expired : BOOLEAN]

ASSUME NullIsNoLimit == None \notin LimitRow

LoginCall == [op : {"login"}, user : Users, pwd : {None} \cup Nat,
              row : {None} \cup LimitRow]
RegisterCall == [op : {"register"}, user : Users, code : {"admin", "user"},
                 row : {None} \cup RoleRows, pwd : {0}]
PasswordCall == [op : {"changePassword"}, user : Users]

LoginTypeOK ==
    /\ limit \in [Users -> LimitRow \cup {None}]
    /\ guesses \in [Users -> Nat]
    /\ blurred \subseteq Users

LoginInit ==
    /\ limit = [u \in Users |-> None]
    /\ guesses = [u \in Users |-> 0]
    /\ blurred = {}

LoginRequest(c) ==
    /\ authOn
    /\ \E u \in Users :
          Arrive(c, "checkLimit", [op |-> "login", user |-> u, pwd |-> None,
                                   row |-> None])
    /\ UNCHANGED <<dirVars, limitVars>>

(***************************************************************************)
(* checkRateLimit: read the row, and delete it when its window has passed. *)
(***************************************************************************)
Allowed_OneMore(row) == row = None \/ row.count <= MaxFailures
Allowed(row) == row = None \/ row.count < MaxFailures

CheckLimit(c) ==
    LET row == limit[req[c].user]
    IN  /\ pc[c] = "checkLimit"
        /\ IF row # None /\ row.expired
           THEN Goto(c, "dropLimit", [req[c] EXCEPT !.row = row])
           ELSE IF Allowed(row) THEN Goto(c, "authenticate", req[c])
           ELSE Finish(c)
        /\ UNCHANGED <<dirVars, limitVars>>

\* The delete throws when another request has deleted the row already.
DropLimit(c) ==
    LET u == req[c].user
    IN  /\ pc[c] = "dropLimit"
        /\ IF limit[u] = None THEN Finish(c)
           ELSE Goto(c, "authenticate", [req[c] EXCEPT !.row = None])
        /\ limit' = [limit EXCEPT ![u] = None]
        /\ blurred' = IF limit[u] \in {None, req[c].row} THEN blurred
                      ELSE blurred \cup {u}
        /\ UNCHANGED <<dirVars, guesses>>

\* authenticate: an active user with the right password, or a failure.
Authenticate(c) ==
    LET u == req[c].user
    IN  /\ pc[c] = "authenticate"
        /\ \/ /\ user[u].state = "active"
              /\ Goto(c, "clearLimit", [req[c] EXCEPT !.pwd = user[u].pwd])
              /\ UNCHANGED guesses
           \/ /\ Goto(c, "readLimit", req[c])
              /\ guesses' = [guesses EXCEPT ![u] = @ + 1]
        /\ UNCHANGED <<dirVars, limit, blurred>>

(***************************************************************************)
(* recordFailure: read the row, then create it, restart it or write back   *)
(* the count that was read and one.                                        *)
(***************************************************************************)
ReadLimit(c) ==
    /\ pc[c] = "readLimit"
    /\ Goto(c, "writeLimit", [req[c] EXCEPT !.row = limit[req[c].user]])
    /\ UNCHANGED <<dirVars, limitVars>>

WriteLimit(c) ==
    LET u == req[c].user
        row == req[c].row
        one == [count |-> 1, expired |-> FALSE]
    IN  /\ pc[c] = "writeLimit"
        /\ limit' = [limit EXCEPT ![u] =
              IF (row = None) # (@ = None) THEN @   \* create or update throws
              ELSE IF row = None \/ row.expired THEN one
              ELSE [@ EXCEPT !.count = row.count + 1]]
        /\ blurred' = IF limit[u] = row THEN blurred ELSE blurred \cup {u}
        /\ Finish(c)
        /\ UNCHANGED <<dirVars, guesses>>

\* The window passes; nothing happens before somebody looks.
WindowPasses(u) ==
    /\ limit[u] # None /\ ~limit[u].expired
    /\ limit' = [limit EXCEPT ![u].expired = TRUE]
    /\ guesses' = [guesses EXCEPT ![u] = 0]
    /\ UNCHANGED <<apiVars, dirVars, blurred>>

ClearLimit(c) ==
    /\ pc[c] = "clearLimit"
    /\ limit' = [limit EXCEPT ![req[c].user] = None]
    /\ guesses' = [guesses EXCEPT ![req[c].user] = 0]
    /\ Goto(c, "createSession", req[c])
    /\ UNCHANGED <<dirVars, blurred>>

\* createSession looks at the account no more.  (The deletion of expired
\* sessions before it takes rows that can no longer be used.)
CreateSession(c) ==
    LET r == req[c]
    IN  /\ pc[c] = "createSession"
        /\ session' = session \cup
              {[user |-> r.user, pwd |-> r.pwd,
                late |-> user[r.user].pwd # r.pwd
                          \/ user[r.user].state # "active"]}
        /\ Finish(c)
        /\ UNCHANGED <<authOn, user, role, overtaken, limitVars>>

(***************************************************************************)
(* Registering: the role, the name, a transaction, then a session.         *)
(***************************************************************************)
RegisterRequest(c) ==
    /\ authOn
    /\ \E u \in Users, code \in {"admin", "user"} :
          Arrive(c, "findRole", [op |-> "register", user |-> u, code |-> code,
                                 row |-> None, pwd |-> 0])
    /\ UNCHANGED <<dirVars, limitVars>>

FindRole(c) ==
    LET r == req[c]
    IN  /\ pc[c] = "findRole"
        /\ IF HasRow(role, r.code) /\ ~role[RowOf(role, r.code)].deleted
           THEN Goto(c, "findName", [r EXCEPT !.row = RowOf(role, r.code)])
           ELSE Finish(c)
        /\ UNCHANGED <<dirVars, limitVars>>

FindName(c) ==
    /\ pc[c] = "findName"
    /\ IF user[req[c].user].state = "none" THEN Goto(c, "register", req[c])
       ELSE Finish(c)
    /\ UNCHANGED <<dirVars, limitVars>>

Register(c) ==
    LET r == req[c]
    IN  /\ pc[c] = "register"
        /\ IF user[r.user].state = "none"
           THEN /\ user' = [user EXCEPT ![r.user] =
                              [state |-> "active", pwd |-> 0, roles |-> {r.row}]]
                /\ Overtakes(c)
                /\ Goto(c, "createSession", r)
           ELSE UNCHANGED <<user, overtaken>> /\ Finish(c)
        /\ UNCHANGED <<authOn, role, session, limitVars>>

(***************************************************************************)
(* changePassword: a session that is admitted, the current password, and   *)
(* the new one.  The other sessions of the user stay, so they are late     *)
(* from here on.                                                           *)
(***************************************************************************)
PasswordRequest(c) ==
    /\ authOn
    /\ \E s \in session :
          /\ Admitted(s)
          /\ Arrive(c, "verifyPassword",
                    [op |-> "changePassword", user |-> s.user])
    /\ UNCHANGED <<dirVars, limitVars>>

VerifyPassword(c) ==
    /\ pc[c] = "verifyPassword"
    /\ \/ /\ user[req[c].user].state # "deleted"
          /\ Goto(c, "storePassword", req[c])
       \/ Finish(c)
    /\ UNCHANGED <<dirVars, limitVars>>

StorePassword(c) ==
    LET u == req[c].user
    IN  /\ pc[c] = "storePassword"
        /\ user' = [user EXCEPT ![u].pwd = @ + 1]
        /\ session' = {IF s.user = u THEN [s EXCEPT !.late = TRUE]
                       ELSE s : s \in session}
        /\ Finish(c)
        /\ UNCHANGED <<authOn, role, overtaken, limitVars>>

\* A session is left, or it expires: it admits nobody from then on.
SessionEnds(s) ==
    /\ s \in session
    /\ session' = session \ {s}
    /\ UNCHANGED <<apiVars, authOn, user, role, overtaken, limitVars>>

\* Requests C end before they have counted the failure they report.
Uncounted(C) ==
    blurred' = blurred \cup
        {req[c].user : c \in {d \in C : pc[d] \in {"readLimit", "writeLimit"}}}

LoginStep(c) ==
    \/ CheckLimit(c) \/ DropLimit(c) \/ Authenticate(c) \/ ReadLimit(c)
    \/ WriteLimit(c) \/ ClearLimit(c) \/ CreateSession(c)
    \/ FindRole(c) \/ FindName(c) \/ Register(c)
    \/ VerifyPassword(c) \/ StorePassword(c)

=============================================================================
