----------------------------- MODULE AdminDirectory -----------------------------
(***************************************************************************)
(* The admin handlers over users and roles.  A handler reads the row it    *)
(* is about (and thereafter trusts what it read), looks the new role up,   *)
(* and then opens a transaction at the default isolation level, in which   *)
(* the last-admin guard counts and the row is written.  Sessions of a      *)
(* user that was disabled or given a new password are removed afterwards,  *)
(* in a statement of their own.                                            *)
(*                                                                         *)
(* A definition with an underscore in its name is the next one with a      *)
(* mistake in it.                                                          *)
(***************************************************************************)
EXTENDS Directory

CONSTANTS
    UserChanges,    \* bound: the <<status, code>> an update may carry
    MaxOpenRequests \* bound: requests made while authentication is off

\* seen: what the handler read of its user; row: the role it looked up.
UserCall == [op : {"create", "update", "reset", "delete"}, user : Users,
             status : {"active", "disabled", None},
             code : {"admin", "user", None},
             seen : {None} \cup [state : States, admin : BOOLEAN],
             row : {None} \cup RoleRows]

RoleCall == [op : {"addRole", "renameRole", "dropRole"}, row : RoleRows,
             code : Codes]

\* The guard admits the operator; deleting a user needs one, who is not it.
UserCalls(op, u) ==
    {r \in [op : {op}, user : {u}, status : {"active", "disabled", None},
            code : {"admin", "user", None}, seen : {None}, row : {None}] :
        CASE op = "create" -> r.status # None /\ r.code # None
          [] op = "update" -> <<r.status, r.code>> \in UserChanges
          [] OTHER         -> r.status = None /\ r.code = None}

AdminRequest(c) ==
    /\ IF authOn THEN Operators # {} ELSE requests < MaxOpenRequests
    /\ \E u \in Users :
          \/ \E op \in {"create", "update", "reset"} :
                \E r \in UserCalls(op, u) : Arrive(c, "load", r)
          \/ /\ authOn /\ \E o \in Operators : o # u
             /\ \E r \in UserCalls("delete", u) : Arrive(c, "load", r)
    /\ UNCHANGED dirVars

\* loadUserOrThrow, or for a new user the lookup of its name.
LoadUser(c) ==
    LET r == req[c]
        loaded == [r EXCEPT !.seen = [state |-> user[r.user].state,
                                      admin |-> IsAdmin(r.user)]]
    IN  /\ pc[c] = "load"
        /\ ReadsAfresh(c)
        /\ IF r.op = "create" /\ user[r.user].state = "none"
           THEN Goto(c, "resolve", r)
           ELSE IF r.op # "create" /\ Present(r.user)
           THEN Goto(c, CASE r.op = "reset" -> "setPassword"
                          [] r.op = "update" /\ r.code # None -> "resolve"
                          [] OTHER -> "count", loaded)
           ELSE Finish(c)
        /\ UNCHANGED <<authOn, user, role, session>>

\* resolveRoleIds: the live row of the wanted role, outside the transaction.
ResolveRole(c) ==
    LET r == req[c]
        rows == {x \in RoleRows : LiveRole(role, x) /\ role[x].code = r.code}
    IN  /\ pc[c] = "resolve"
        /\ \/ /\ rows = {}
              /\ Finish(c)
           \/ \E x \in rows :
                Goto(c, IF r.op = "create" THEN "insert" ELSE "count",
                     [r EXCEPT !.row = x])
        /\ UNCHANGED dirVars

\* What the handler's write would leave, judged by what it read.
NextState_Asked(r) == IF r.op = "delete" THEN "deleted" ELSE r.status
NextState_Active(r) == IF r.op = "delete" THEN "deleted"
                       ELSE IF r.status # None THEN r.status
                       ELSE "active"
NextState(r) == IF r.op = "delete" THEN "deleted"
                ELSE IF r.status # None THEN r.status
                ELSE r.seen.state
Demotes(r) == /\ r.seen.admin
              /\ NextState(r) # "active" \/ r.code = "user"

\* ensureNotLastAdmin, the first statement of the transaction.
CountAdmins_Off(c) ==
    /\ pc[c] = "count"
    /\ IF Demotes(req[c]) /\ Cardinality(ActiveAdmins) < 1
       THEN Finish(c) ELSE Goto(c, "write", req[c])
    /\ UNCHANGED dirVars
CountAdmins(c) ==
    /\ pc[c] = "count"
    /\ IF Demotes(req[c]) /\ Cardinality(ActiveAdmins) <= 1
       THEN Finish(c) ELSE Goto(c, "write", req[c])
    /\ UNCHANGED dirVars

\* The rest of the transaction.  Updating does not look at isDeleted again.
Written(r) ==
    LET old == user[r.user]
    IN  IF r.op = "delete" THEN [old EXCEPT !.state = "deleted", !.roles = {}]
        ELSE [old EXCEPT
                !.state = IF @ = "deleted" THEN @ ELSE NextState(r),
                !.roles = IF r.code = None THEN @ ELSE {r.row}]

WriteUser(c) ==
    LET r == req[c]
    IN  /\ pc[c] = "write"
        /\ user' = [user EXCEPT ![r.user] = Written(r)]
        /\ session' = IF r.op = "delete"
                      THEN {s \in session : s.user # r.user} ELSE session
        /\ Overtakes(c)
        /\ IF r.op = "update" /\ NextState(r) = "disabled"
           THEN Goto(c, "clear", r) ELSE Finish(c)
        /\ UNCHANGED <<authOn, role>>

\* The transaction of create; the unique name decides a race.
InsertUser(c) ==
    LET r == req[c]
    IN  /\ pc[c] = "insert"
        /\ IF user[r.user].state = "none"
           THEN /\ user' = [user EXCEPT ![r.user] =
                              [state |-> r.status, pwd |-> 0, roles |-> {r.row}]]
                /\ Overtakes(c)
           ELSE UNCHANGED <<user, overtaken>>
        /\ Finish(c)
        /\ UNCHANGED <<authOn, role, session>>

\* setUserPassword after the hash, by id.
SetPassword(c) ==
    /\ pc[c] = "setPassword"
    /\ user' = [user EXCEPT ![req[c].user].pwd = @ + 1]
    /\ Goto(c, "clear", req[c])
    /\ UNCHANGED <<authOn, role, session, overtaken>>

ClearSessions_Skips(c) ==
    /\ pc[c] = "clear"
    /\ session' = {s \in session : s.user # req[c].user \/ s.pwd > 0}
    /\ Finish(c)
    /\ UNCHANGED <<authOn, user, role, overtaken>>
ClearSessions(c) ==
    /\ pc[c] = "clear"
    /\ session' = {s \in session : s.user # req[c].user}
    /\ Finish(c)
    /\ UNCHANGED <<authOn, user, role, overtaken>>

(***************************************************************************)
(* Roles.  No built-in role may touch them (the guard keeps admin out, and *)
(* users hold nothing else), so they change only while authentication is   *)
(* off.  Permissions of custom roles are left out: no user can hold one.   *)
(***************************************************************************)
RoleRequest(c) ==
    /\ ~authOn /\ requests < MaxOpenRequests
    /\ \E op \in {"addRole", "renameRole", "dropRole"}, x \in RoleRows,
          code \in {"user", "other"} :
          /\ op # "renameRole" => code = "other"
          /\ IF op = "addRole" THEN x = 1 ELSE role[x] # None
          /\ Arrive(c, "loadRole", [op |-> op, row |-> x, code |-> code])
    /\ UNCHANGED dirVars

\* create looks its code up; update and softDelete load their row.
LoadRole(c) ==
    LET r == req[c]
        clash == \E x \in RoleRows \ {r.row} :
                    LiveRole(role, x) /\ role[x].code = r.code
        ok == CASE r.op = "addRole"    -> ~HasRow(role, r.code)
                [] r.op = "renameRole" -> /\ LiveRole(role, r.row)
                                          /\ role[r.row].code # "admin"
                                          /\ ~clash
                [] OTHER               -> /\ LiveRole(role, r.row)
                                          /\ role[r.row].code # "admin"
    IN  /\ pc[c] = "loadRole"
        /\ IF ok THEN Goto(c, IF r.op = "dropRole" THEN "countUsers"
                              ELSE "writeRole", r)
           ELSE Finish(c)
        /\ UNCHANGED dirVars

Holders(x) == {u \in Users : Present(u) /\ x \in user[u].roles}

\* countAssignedUsers, outside the transaction.
CountUsers_Admins(c) ==
    /\ pc[c] = "countUsers"
    /\ ReadsAfresh(c)
    /\ IF Holders(req[c].row) \cap ActiveAdmins # {} THEN Finish(c)
       ELSE Goto(c, "dropRole", req[c])
    /\ UNCHANGED <<authOn, user, role, session>>
CountUsers(c) ==
    /\ pc[c] = "countUsers"
    /\ ReadsAfresh(c)
    /\ IF Holders(req[c].row) # {} THEN Finish(c)
       ELSE Goto(c, "dropRole", req[c])
    /\ UNCHANGED <<authOn, user, role, session>>

DropRole(c) ==
    LET x == req[c].row
    IN  /\ pc[c] = "dropRole"
        /\ role' = [role EXCEPT ![x].deleted = TRUE]
        /\ user' = [u \in Users |-> [user[u] EXCEPT !.roles = @ \ {x}]]
        /\ Finish(c)
        /\ UNCHANGED <<authOn, session, overtaken>>

\* The unique code decides a race, and a deleted row still owns its code.
WriteRole(c) ==
    LET r == req[c]
        taken == \E x \in RoleRows : /\ x # r.row \/ r.op = "addRole"
                                     /\ role[x] # None /\ role[x].code = r.code
    IN  /\ pc[c] = "writeRole"
        /\ role' = IF taken THEN role
                   ELSE IF r.op = "addRole"
                   THEN [role EXCEPT ![FreeRow(role)] =
                           [code |-> r.code, deleted |-> FALSE]]
                   ELSE [role EXCEPT ![r.row].code = r.code]
        /\ Finish(c)
        /\ UNCHANGED <<authOn, user, session, overtaken>>

\* Requests C end before they have cleared the sessions they meant to: these
\* stay, late.
Abandon(C) ==
    session' = {IF \E c \in C : pc[c] = "clear" /\ req[c].user = s.user
                THEN [s EXCEPT !.late = TRUE] ELSE s : s \in session}

AdminStep(c) ==
    \/ LoadUser(c) \/ ResolveRole(c) \/ CountAdmins(c) \/ WriteUser(c)
    \/ InsertUser(c) \/ SetPassword(c) \/ ClearSessions(c)
    \/ LoadRole(c) \/ CountUsers(c) \/ DropRole(c) \/ WriteRole(c)

=============================================================================
