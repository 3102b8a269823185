------------------------------- MODULE Directory -------------------------------
(***************************************************************************)
(* The tables of users, roles and sessions, what they mean to the guard    *)
(* and to the admin handlers, and their repair at each start of the API    *)
(* process.  With ADMIN_AUTH_ENABLED=false the guard lets everything pass  *)
(* and nothing is repaired.                                                *)
(*                                                                         *)
(* A definition with an underscore in its name is the next one with a      *)
(* mistake in it.                                                          *)
(***************************************************************************)
EXTENDS ApiRequests

CONSTANTS
    Users,          \* user names; a name is never used for a second row
    InitAdmin,      \* ADMIN_INIT_USERNAME
    Promoted        \* the names that the migration makes admin, 'surper1'

ASSUME DirectoryConstants ==
    /\ IsFiniteSet(Users) /\ InitAdmin \in Users /\ None \notin Users
    /\ Promoted \subseteq Users

VARIABLES
    authOn,     \* ADMIN_AUTH_ENABLED of the running process
    user,       \* user[u]: the row of admin_users with this name, its roles
    role,       \* role[r]: the row of admin_roles with id r
    session,    \* rows of admin_sessions
    overtaken   \* history: requests since whose first read another committed

dirVars == <<authOn, user, role, session, overtaken>>

Codes    == {"admin", "user", "super_admin", "other"}
RoleRows == 1 .. 4      \* codes are unique, so there are no more rows

\* normalizeRoleCode: the codes of earlier versions stand for today's two.
Alias == [c \in Codes |-> IF c = "super_admin" THEN "admin" ELSE c]

RoleRow == [code : Codes, deleted : BOOLEAN]

ASSUME NullIsNoRole == None \notin RoleRow

States  == {"none", "active", "disabled", "deleted"}
User    == [state : States, pwd : Nat, roles : SUBSET RoleRows]

\* A session remembers the password it was opened with and whether it was
\* opened for an account that had changed since (history: late).
Session == [user : Users, pwd : Nat, late : BOOLEAN]

NoUser == [state |-> "none", pwd |-> 0, roles |-> {}]

Present(u)   == user[u].state \in {"active", "disabled"}
LiveRole(t, r) == t[r] # None /\ ~t[r].deleted

\* countActiveAdmins and ensureNotLastAdmin look at live roles only.
AdminIn(us, t, u) ==
    \E r \in us[u].roles : LiveRole(t, r) /\ Alias[t[r].code] = "admin"
IsAdmin(u)      == AdminIn(user, role, u)
ActiveAdmins    == {u \in Users : user[u].state = "active" /\ IsAdmin(u)}

\* The guard: a session of an active user, with any role row that means admin.
ActsAsAdmin(u) == \E r \in user[u].roles :
                     role[r] # None /\ Alias[role[r].code] = "admin"
Admitted(s)    == user[s.user].state = "active"
Operators      == {u \in Users : ActsAsAdmin(u)
                                  /\ \E s \in session : s.user = u /\ Admitted(s)}

(***************************************************************************)
(* The start of the process: seedBuiltinRolesAndUsers, one transaction     *)
(* while no request is served.                                             *)
(***************************************************************************)
RowOf(t, code) == CHOOSE r \in RoleRows : t[r] # None /\ t[r].code = code
HasRow(t, code) == \E r \in RoleRows : t[r] # None /\ t[r].code = code
FreeRow(t) == CHOOSE r \in RoleRows :
                 t[r] = None /\ \A q \in RoleRows : t[q] = None => r <= q

Upsert(t, code) ==
    IF HasRow(t, code) THEN [t EXCEPT ![RowOf(t, code)].deleted = FALSE]
    ELSE [t EXCEPT ![FreeRow(t)] = [code |-> code, deleted |-> FALSE]]

BuiltinRoles == Upsert(Upsert(role, "admin"), "user")

RetireLegacy(t) ==
    [r \in RoleRows |-> IF t[r] # None /\ t[r].code = "super_admin"
                        THEN [t[r] EXCEPT !.deleted = TRUE] ELSE t[r]]

LiveCodes(t, u) == {t[r].code : r \in {x \in user[u].roles : LiveRole(t, x)}}
Target(t, u) == IF \/ u \in Promoted
                   \/ \E c \in LiveCodes(t, u) : Alias[c] = "admin"
                THEN "admin" ELSE "user"

\* Users whose live roles are not exactly one of the two are given one.
Misplaced_NoLegacy(t) ==
    {u \in Users : Present(u) /\ LiveCodes(t, u) \cap {"admin", "user"} = {}
                   /\ "super_admin" \notin LiveCodes(t, u)}
Misplaced(t) == {u \in Users : Present(u) /\ LiveCodes(t, u) # {Target(t, u)}}

Migrated(t) ==
    [u \in Users |-> IF u \in Misplaced(t)
                     THEN [user[u] EXCEPT !.roles = {RowOf(t, Target(t, u))}]
                     ELSE user[u]]

Seed ==
    LET t == BuiltinRoles
    IN  /\ role' = RetireLegacy(t)
        /\ IF \E u \in Users : Present(u)
           THEN /\ user' = Migrated(t)
                /\ session' = {s \in session : s.user \notin Misplaced(t)}
           ELSE /\ user[InitAdmin].state = "none"    \* else the name is taken
                /\ user' = [user EXCEPT ![InitAdmin] =
                              [state |-> "active", pwd |-> 0,
                               roles |-> {RowOf(t, "admin")}]]
                /\ UNCHANGED session

Boot ==
    /\ ~up
    /\ up' = TRUE
    /\ authOn' \in BOOLEAN
    /\ IF authOn' THEN Seed ELSE UNCHANGED <<user, role, session>>
    /\ overtaken' = {}
    /\ UNCHANGED <<pc, req, requests, faults>>

(***************************************************************************)
(* Commits by request c to the two tables overtake every other request.    *)
(***************************************************************************)
Overtakes(c) == overtaken' = overtaken \cup (Clients \ {c})
ReadsAfresh(c) == overtaken' = overtaken \ {c}

DirTypeOK ==
    /\ authOn \in BOOLEAN
    /\ user \in [Users -> User]
    /\ role \in [RoleRows -> RoleRow \cup {None}]
    /\ session \subseteq Session
    /\ overtaken \subseteq Clients

\* A database with no user yet, or one of this or of an earlier version,
\* where the roles of one user may be several, none or a former one.
Tables == {[r \in RoleRows |-> None]} \cup
          {[r \in RoleRows |-> IF r = 4 THEN None ELSE
               [code |-> CASE r = 1 -> "admin" [] r = 2 -> "user"
                           [] OTHER -> "super_admin",
                deleted |-> FALSE]]}

DirInit ==
    /\ authOn = FALSE
    /\ role \in Tables
    /\ user \in [Users -> {NoUser} \cup
                   {[state |-> "active", pwd |-> 0, roles |-> R] :
                      R \in {{1}, {2}, {1, 2}, {3}, {}}}]
    /\ \E v \in Users : \A u \in Users \ {v} :
          user[u] = NoUser \/ user[u].roles = {1}
    /\ role[1] = None => \A u \in Users : user[u] = NoUser
    /\ session = {}
    /\ overtaken = {}

=============================================================================
