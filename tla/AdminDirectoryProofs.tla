-------------------------- MODULE AdminDirectoryProofs --------------------------
(***************************************************************************)
(* Theorems about the administrators of AdminConsole: who is one, that the *)
(* last one is not lost, and what updating a user and deleting a role may  *)
(* do to the rows they did not mean.  With these the whole of what         *)
(* MCAdminConsole checks is proved.                                        *)
(***************************************************************************)
EXTENDS AdminConsoleProofs

-----------------------------------------------------------------------------
(***************************************************************************)
(* The roles of users.  What the start of the process leaves - one live    *)
(* built-in role each - is kept by the handlers because the role a handler *)
(* looked up stays what it was: roles change only without authentication,  *)
(* and no request outlives the process that served it.                     *)
(***************************************************************************)
GoodRole(r) == LiveRole(role, r) /\ role[r].code \in {"admin", "user"}
OneRole(u)  == \E r \in RoleRows : user[u].roles = {r} /\ GoodRole(r)

\* Without authentication a user may hold several roles, but then none of
\* them is deleted: the start of the process would see only the live ones.
Tidy(u) == \/ \E r \in RoleRows : user[u].roles \subseteq {r}
           \/ \A r \in user[u].roles : LiveRole(role, r)

\* A handler that has read its user and not written it.
Waits(c) == \/ pc[c] \in {"count", "write"}
            \/ pc[c] = "resolve" /\ req[c].op = "update"

\* A handler that has looked a role up and not given it.
Chosen(c) == \/ pc[c] \in {"count", "write"} /\ req[c].code # None
             \/ pc[c] \in {"insert", "findName", "register"}

NobodyWaits  == ~up => \A c \in Clients : pc[c] = "idle"
UsersExist   == \A c \in Clients : Waits(c) => user[req[c].user].state # "none"
AllTidy      == \A u \in Users : Present(u) => Tidy(u)
NoRolePage   == authOn => \A c \in Clients : pc[c] \notin RoleLabels
AllOneRole   == authOn => \A u \in Users : Present(u) => OneRole(u)
ChosenIsGood == authOn => \A c \in Clients : Chosen(c) =>
                             /\ GoodRole(req[c].row)
                             /\ role[req[c].row].code = req[c].code

RolesInv == /\ NobodyWaits /\ UsersExist /\ AllTidy
            /\ NoRolePage /\ AllOneRole /\ ChosenIsGood

\* A request of the process that is up.
LEMMA UpStays ==
  ASSUME TypeInv, RolesInv, NEW c \in Clients,
         DirectoryStep(c) \/ SignInStep(c) \/ ConfigPageStep(c)
  PROVE  up /\ up' /\ NobodyWaits'
<1>1. \A l, r : Goto(c, l, r) \/ Arrive(c, l, r) => up' = up
  BY DEF Goto, Arrive
<1>2. Finish(c) => up' = up
  BY <1>1 DEF Finish
<1>3. CASE DirectoryStep(c)
  <2>1. up' = up
    BY <1>1, <1>2, <1>3
       DEF DirectoryStep, AdminStep, AdminRequest, RoleRequest, LoadUser,
           ResolveRole, CountAdmins, WriteUser, InsertUser, SetPassword,
           ClearSessions, LoadRole, CountUsers, DropRole, WriteRole
  <2>2. up \/ pc[c] # "idle"
    BY <1>3
       DEF DirectoryStep, AdminStep, AdminRequest, RoleRequest, LoadUser,
           ResolveRole, CountAdmins, WriteUser, InsertUser, SetPassword,
           ClearSessions, LoadRole, CountUsers, DropRole, WriteRole, Arrive
  <2> QED  BY <2>1, <2>2 DEF RolesInv, NobodyWaits
<1>4. CASE SignInStep(c)
  <2>1. up' = up
    BY <1>1, <1>2, <1>4
       DEF SignInStep, LoginStep, LoginRequest, RegisterRequest, PasswordRequest,
           CheckLimit, DropLimit, Authenticate, ReadLimit, WriteLimit,
           ClearLimit, CreateSession, FindRole, FindName, Register,
           VerifyPassword, StorePassword
  <2>2. up \/ pc[c] # "idle"
    BY <1>4
       DEF SignInStep, LoginStep, LoginRequest, RegisterRequest, PasswordRequest,
           CheckLimit, DropLimit, Authenticate, ReadLimit, WriteLimit,
           ClearLimit, CreateSession, FindRole, FindName, Register,
           VerifyPassword, StorePassword, Arrive
  <2> QED  BY <2>1, <2>2 DEF RolesInv, NobodyWaits
<1>5. CASE ConfigPageStep(c)
  <2>1. up' = up
    BY <1>1, <1>2, <1>5
       DEF ConfigPageStep, ConfigStep, EditRequest, MarketRequest, SeedConfig,
           InsertItems, FindBuiltin, InsertBuiltin, ReviseSeed, ReadVersion,
           FirstVersion, ReadItems,
           CheckVersion, WriteItem, NothingToWrite, WriteMarket, CreateRevision
  <2>2. up \/ pc[c] # "idle"
    BY <1>5
       DEF ConfigPageStep, ConfigStep, EditRequest, MarketRequest, SeedConfig,
           InsertItems, FindBuiltin, InsertBuiltin, ReviseSeed, ReadVersion,
           FirstVersion, ReadItems,
           CheckVersion, WriteItem, NothingToWrite, WriteMarket, CreateRevision,
           Arrive
  <2> QED  BY <2>1, <2>2 DEF RolesInv, NobodyWaits
<1> QED  BY <1>3, <1>4, <1>5

\* A step of one request that changes no row.
LEMMA RolesOfRequest ==
  ASSUME TypeInv, RolesInv, NEW c \in Clients,
         \A d \in Clients \ {c} : pc'[d] = pc[d] /\ req'[d] = req[d],
         NobodyWaits', UNCHANGED <<authOn, user, role>>,
         Waits(c)' => user[req'[c].user].state # "none",
         authOn => pc'[c] \notin RoleLabels,
         authOn /\ Chosen(c)' => /\ GoodRole(req'[c].row)
                                 /\ role[req'[c].row].code = req'[c].code
  PROVE  RolesInv'
<1>1. \A d \in Clients \ {c} : (Waits(d)' <=> Waits(d)) /\ (Chosen(d)' <=> Chosen(d))
  BY DEF Waits, Chosen
<1>2. UsersExist'
  BY <1>1 DEF RolesInv, UsersExist
<1>3. AllTidy'
  BY DEF RolesInv, AllTidy, Tidy, Present, LiveRole
<1>4. NoRolePage'
  BY DEF RolesInv, NoRolePage
<1>5. AllOneRole'
  BY DEF RolesInv, AllOneRole, OneRole, GoodRole, Present, LiveRole
<1>6. ChosenIsGood'
  BY <1>1 DEF RolesInv, ChosenIsGood, GoodRole, LiveRole
<1> QED  BY <1>2, <1>3, <1>4, <1>5, <1>6 DEF RolesInv

\* A step of one request that writes a user and is done with it.
LEMMA RolesOfWrite ==
  ASSUME TypeInv, RolesInv, NEW c \in Clients,
         \A d \in Clients \ {c} : pc'[d] = pc[d] /\ req'[d] = req[d],
         NobodyWaits', UNCHANGED <<authOn, role>>,
         pc'[c] \in {"idle", "clear", "createSession"},
         \A u \in Users : user[u].state # "none" => user'[u].state # "none",
         \A u \in Users : Present(u)' =>
            \/ Present(u) /\ user'[u].roles = user[u].roles
            \/ \E r \in RoleRows : /\ user'[u].roles = {r}
                                   /\ authOn => GoodRole(r)
  PROVE  RolesInv'
<1>1. \A d \in Clients \ {c} : (Waits(d)' <=> Waits(d)) /\ (Chosen(d)' <=> Chosen(d))
  BY DEF Waits, Chosen
<1>2. ~Waits(c)' /\ ~Chosen(c)' /\ pc'[c] \notin RoleLabels
  BY DEF Waits, Chosen, RoleLabels
<1>3. UsersExist'
  <2> SUFFICES ASSUME NEW d \in Clients, Waits(d)'
               PROVE  user'[req'[d].user].state # "none"
    BY DEF UsersExist
  <2>1. d # c /\ Waits(d) /\ pc[d] \in UserLabels
    BY <1>1, <1>2 DEF Waits, UserLabels
  <2>2. req[d].user \in Users
    BY <2>1, FitsOf DEF TypeInv, DirInv, UserFits, UserCall
  <2> QED  BY <2>1, <2>2 DEF RolesInv, UsersExist
<1>4. AllTidy'
  <2> SUFFICES ASSUME NEW u \in Users, Present(u)'
               PROVE  Tidy(u)'
    BY DEF AllTidy
  <2>1. CASE Present(u) /\ user'[u].roles = user[u].roles
    BY <2>1 DEF RolesInv, AllTidy, Tidy, LiveRole
  <2>2. CASE \E r \in RoleRows : user'[u].roles = {r}
    BY <2>2 DEF Tidy
  <2> QED  BY <2>1, <2>2
<1>5. NoRolePage'
  BY <1>2 DEF RolesInv, NoRolePage
<1>6. AllOneRole'
  <2> SUFFICES ASSUME authOn, NEW u \in Users, Present(u)'
               PROVE  OneRole(u)'
    BY DEF AllOneRole
  <2>1. CASE Present(u) /\ user'[u].roles = user[u].roles
    BY <2>1 DEF RolesInv, AllOneRole, OneRole, GoodRole, LiveRole
  <2>2. CASE \E r \in RoleRows : user'[u].roles = {r} /\ GoodRole(r)
    BY <2>2 DEF OneRole, GoodRole, LiveRole
  <2> QED  BY <2>1, <2>2
<1>7. ChosenIsGood'
  BY <1>1, <1>2 DEF RolesInv, ChosenIsGood, GoodRole, LiveRole
<1> QED  BY <1>3, <1>4, <1>5, <1>6, <1>7 DEF RolesInv

\* The handlers of one user keep the roles: each writes at most one role, and
\* one that it found live.
LEMMA RolesUserHandlers ==
  ASSUME TypeInv, RolesInv, NEW c \in Clients, DirectoryStep(c),
         \/ AdminRequest(c) \/ LoadUser(c) \/ ResolveRole(c) \/ CountAdmins(c)
         \/ WriteUser(c) \/ InsertUser(c) \/ SetPassword(c) \/ ClearSessions(c)
  PROVE  RolesInv'
<1> DEFINE r == req[c]
<1>1. /\ \A d \in Clients \ {c} : pc'[d] = pc[d] /\ req'[d] = req[d]
      /\ NobodyWaits'
  BY OthersStay, UpStays DEF TypeInv, DirInv
<1>2. /\ user \in [Users -> User] /\ role \in [RoleRows -> RoleRow \cup {None}]
  BY DEF TypeInv, DirInv, DirTypeOK
<1>3. pc[c] \in UserLabels => /\ UserFits(pc[c], r) /\ r \in UserCall
                              /\ r.user \in Users
  BY FitsOf DEF TypeInv, DirInv, UserFits, UserCall
<1>4. ASSUME AdminRequest(c) PROVE RolesInv'
  <2>1. pc'[c] = "load" /\ UNCHANGED <<authOn, user, role>>
    BY <1>4, OwnStep DEF AdminRequest, dirVars
  <2> QED  BY <1>1, <2>1, RolesOfRequest DEF Waits, Chosen, RoleLabels
<1>5. ASSUME LoadUser(c) PROVE RolesInv'
  <2> DEFINE loaded == [r EXCEPT !.seen = [state |-> user[r.user].state,
                                           admin |-> IsAdmin(r.user)]]
  <2>1. pc[c] = "load" /\ UNCHANGED <<authOn, user, role>>
    BY <1>5 DEF LoadUser
  <2>2. UserFits("load", r) /\ r \in UserCall /\ r.user \in Users
    BY <1>3, <2>1 DEF UserLabels
  <2>3. loaded.user = r.user /\ loaded.op = r.op /\ loaded.code = r.code
    BY <2>2 DEF UserCall
  <2>4. CASE r.op = "create" /\ user[r.user].state = "none"
    <3>1. pc'[c] = "resolve" /\ req'[c] = r
      BY <1>5, <2>4, OwnStep DEF LoadUser
    <3> QED
      BY <1>1, <2>1, <2>4, <3>1, RolesOfRequest DEF Waits, Chosen, RoleLabels
  <2>5. CASE r.op # "create" /\ Present(r.user)
    <3>1. /\ pc'[c] \in {"setPassword", "resolve", "count"} /\ req'[c] = loaded
          /\ pc'[c] = "count" => r.code = None
      <4>1. r.op \in {"update", "reset", "delete"}
        BY <2>2, <2>5 DEF UserCall
      <4>2. r.op = "delete" => r.code = None
        BY <2>2 DEF UserFits
      <4>3. /\ r.op = "reset" => Goto(c, "setPassword", loaded)
            /\ r.op = "update" /\ r.code # None => Goto(c, "resolve", loaded)
            /\ r.op = "update" /\ r.code = None => Goto(c, "count", loaded)
            /\ r.op = "delete" => Goto(c, "count", loaded)
        BY <1>5, <2>5, <4>2 DEF LoadUser
      <4> QED  BY <4>1, <4>2, <4>3, OwnStep
    <3>2. user[loaded.user].state # "none"
      BY <2>3, <2>5 DEF Present
    <3> QED
      BY <1>1, <2>1, <2>3, <3>1, <3>2, RolesOfRequest
         DEF Waits, Chosen, RoleLabels
  <2>6. CASE ~(r.op = "create" /\ user[r.user].state = "none")
             /\ ~(r.op # "create" /\ Present(r.user))
    <3>1. pc'[c] = "idle"
      BY <1>5, <2>6, OwnStep DEF LoadUser
    <3> QED
      BY <1>1, <2>1, <3>1, RolesOfRequest DEF Waits, Chosen, RoleLabels
  <2> QED  BY <2>4, <2>5, <2>6
<1>6. ASSUME ResolveRole(c) PROVE RolesInv'
  <2>1. pc[c] = "resolve" /\ UNCHANGED <<authOn, user, role>>
    BY <1>6 DEF ResolveRole, dirVars
  <2>2. /\ r \in UserCall /\ r.op \in {"create", "update"} /\ r.code # None
    BY <1>3, <2>1 DEF UserLabels, UserFits
  <2>3. CASE Finish(c)
    BY <1>1, <2>1, <2>3, OwnStep, RolesOfRequest DEF Waits, Chosen, RoleLabels
  <2>4. ASSUME NEW x \in RoleRows, LiveRole(role, x), role[x].code = r.code,
               Goto(c, IF r.op = "create" THEN "insert" ELSE "count",
                    [r EXCEPT !.row = x])
        PROVE  RolesInv'
    <3>1. /\ req'[c].row = x /\ req'[c].code = r.code /\ req'[c].user = r.user
          /\ pc'[c] = IF r.op = "create" THEN "insert" ELSE "count"
      BY <2>2, <2>4, OwnStep DEF UserCall
    <3>2. GoodRole(x)
      BY <2>2, <2>4 DEF GoodRole, UserCall
    <3>3. r.op = "update" => user[r.user].state # "none"
      BY <2>1 DEF RolesInv, UsersExist, Waits
    <3> QED
      BY <1>1, <2>1, <2>2, <2>4, <3>1, <3>2, <3>3, RolesOfRequest
         DEF Waits, RoleLabels
  <2> QED  BY <1>6, <2>3, <2>4 DEF ResolveRole
<1>7. ASSUME CountAdmins(c) PROVE RolesInv'
  <2>1. pc[c] = "count" /\ UNCHANGED <<authOn, user, role>>
    BY <1>7 DEF CountAdmins, dirVars
  <2>2. \/ pc'[c] = "idle"
        \/ pc'[c] = "write" /\ req'[c] = r
    BY <1>7, OwnStep DEF CountAdmins
  <2>3. user[r.user].state # "none"
    BY <2>1 DEF RolesInv, UsersExist, Waits
  <2>4. authOn /\ r.code # None => GoodRole(r.row) /\ role[r.row].code = r.code
    BY <2>1 DEF RolesInv, ChosenIsGood, Chosen
  <2> QED
    BY <1>1, <2>1, <2>2, <2>3, <2>4, RolesOfRequest DEF Waits, Chosen, RoleLabels
<1>8. ASSUME WriteUser(c) PROVE RolesInv'
  <2>1. /\ pc[c] = "write" /\ UNCHANGED <<authOn, role>>
        /\ user' = [user EXCEPT ![r.user] = Written(r)]
        /\ pc'[c] \in {"idle", "clear"}
    BY <1>8, OwnStep DEF WriteUser
  <2>2. /\ r \in UserCall /\ r.user \in Users /\ r.op \in {"update", "delete"}
        /\ r.seen \in Seen
        /\ r.code # None => r.row \in RoleRows
    BY <1>3, <2>1 DEF UserLabels, UserFits
  <2>3. NextState(r) \in {"active", "disabled", "deleted"}
    <3>1. r.status \in {"active", "disabled", None}
      BY <2>2 DEF UserCall
    <3>2. r.seen.state \in {"active", "disabled"}
      BY <2>2 DEF Seen
    <3> HIDE DEF r
    <3> QED  BY <3>1, <3>2 DEF NextState
  <2>4. user[r.user].state # "none" /\ user[r.user] \in User
    BY <1>2, <2>1, <2>2 DEF RolesInv, UsersExist, Waits
  <2>5. authOn /\ r.code # None => GoodRole(r.row)
    BY <2>1 DEF RolesInv, ChosenIsGood, Chosen
  <2>6. /\ \A u \in Users \ {r.user} : user'[u] = user[u]
        /\ user'[r.user] = Written(r)
    BY <1>2, <2>1, <2>2
  <2>7. Written(r).state # "none"
    BY <2>3, <2>4 DEF Written, User
  <2>8. Written(r).state \in {"active", "disabled"} =>
           \/ Present(r.user) /\ Written(r).roles = user[r.user].roles
           \/ r.code # None /\ Written(r).roles = {r.row}
    <3>1. CASE r.op = "delete"
      BY <2>4, <3>1 DEF Written, User
    <3>2. CASE r.op # "delete"
      BY <2>4, <3>2 DEF Written, User, Present, States
    <3> QED  BY <3>1, <3>2
  <2>9. \A u \in Users : user[u].state # "none" => user'[u].state # "none"
    BY <2>6, <2>7
  <2>10. ASSUME NEW u \in Users, Present(u)'
         PROVE  \/ Present(u) /\ user'[u].roles = user[u].roles
                \/ \E x \in RoleRows : /\ user'[u].roles = {x}
                                       /\ authOn => GoodRole(x)
    <3>1. CASE u # r.user
      BY <2>6, <2>10, <3>1 DEF Present
    <3>2. CASE u = r.user
      <4>1. user'[u].state \in {"active", "disabled"} /\ user'[u] = Written(r)
        BY <2>6, <2>10, <3>2 DEF Present
      <4> HIDE DEF r
      <4> QED  BY <2>2, <2>5, <2>8, <3>2, <4>1
    <3> QED  BY <3>1, <3>2
  <2> QED  BY <1>1, <2>1, <2>9, <2>10, RolesOfWrite
<1>9. ASSUME InsertUser(c) PROVE RolesInv'
  <2>1. pc[c] = "insert" /\ UNCHANGED <<authOn, role>> /\ pc'[c] = "idle"
    BY <1>9, OwnStep DEF InsertUser
  <2>2. /\ r.row \in RoleRows /\ r.user \in Users
        /\ r.status \in {"active", "disabled"}
    <3>1. r \in UserCall /\ r.row \in RoleRows /\ r.status # None
      BY <1>3, <2>1 DEF UserLabels, UserFits
    <3> HIDE DEF r
    <3> QED  BY <3>1 DEF UserCall
  <2>3. authOn => GoodRole(r.row)
    BY <2>1 DEF RolesInv, ChosenIsGood, Chosen
  <2>4. \/ user' = user
        \/ /\ \A u \in Users \ {r.user} : user'[u] = user[u]
           /\ user'[r.user] = [state |-> r.status, pwd |-> 0, roles |-> {r.row}]
    BY <1>2, <1>9, <2>2 DEF InsertUser
  <2>5. \A u \in Users : user[u].state # "none" => user'[u].state # "none"
    BY <2>2, <2>4
  <2>6. ASSUME NEW u \in Users, Present(u)'
        PROVE  \/ Present(u) /\ user'[u].roles = user[u].roles
               \/ \E x \in RoleRows : /\ user'[u].roles = {x}
                                      /\ authOn => GoodRole(x)
    BY <2>2, <2>3, <2>4, <2>6 DEF Present
  <2> QED  BY <1>1, <2>1, <2>5, <2>6, RolesOfWrite
<1>10. ASSUME SetPassword(c) \/ ClearSessions(c) PROVE RolesInv'
  <2>1. pc'[c] \in {"clear", "idle"} /\ UNCHANGED <<authOn, role>>
    BY <1>10, OwnStep DEF SetPassword, ClearSessions
  <2>2. \A u \in Users : /\ user'[u].state = user[u].state
                         /\ user'[u].roles = user[u].roles
    BY <1>2, <1>10 DEF SetPassword, ClearSessions, User
  <2>3. \A u \in Users : Present(u)' => Present(u)
    BY <2>2 DEF Present
  <2> QED  BY <1>1, <2>1, <2>2, <2>3, RolesOfWrite
<1> QED
  BY <1>4, <1>5, <1>6, <1>7, <1>8, <1>9, <1>10

\* The role pages, which are served without authentication only.
LEMMA RolesRoleHandlers ==
  ASSUME TypeInv, RolesInv, NEW c \in Clients, DirectoryStep(c),
         \/ RoleRequest(c) \/ LoadRole(c) \/ CountUsers(c) \/ DropRole(c)
         \/ WriteRole(c)
  PROVE  RolesInv'
<1> DEFINE r == req[c]
<1>1. /\ \A d \in Clients \ {c} : pc'[d] = pc[d] /\ req'[d] = req[d]
      /\ NobodyWaits'
  BY OthersStay, UpStays DEF TypeInv, DirInv
<1>2. /\ user \in [Users -> User] /\ role \in [RoleRows -> RoleRow \cup {None}]
  BY DEF TypeInv, DirInv, DirTypeOK
<1>3. ~authOn /\ authOn' = authOn
  BY DEF RoleRequest, LoadRole, CountUsers, DropRole, WriteRole, dirVars,
         RolesInv, NoRolePage, RoleLabels
<1>4. pc[c] \in RoleLabels =>
         /\ r \in RoleCall /\ r.row \in RoleRows
         /\ pc[c] = "writeRole" /\ r.op # "addRole" => role[r.row] # None
         /\ pc[c] = "dropRole" => role[r.row] # None
  BY FitsOf DEF TypeInv, DirInv, RoleFits, RoleCall, RolesThere
<1>5. CASE RoleRequest(c) \/ LoadRole(c) \/ CountUsers(c)
  <2>1. pc'[c] \in {"loadRole", "countUsers", "dropRole", "writeRole", "idle"}
    BY <1>5, OwnStep DEF RoleRequest, LoadRole, CountUsers
  <2>2. UNCHANGED <<user, role>>
    BY <1>5 DEF RoleRequest, LoadRole, CountUsers, dirVars
  <2> QED
    BY <1>1, <1>3, <2>1, <2>2, RolesOfRequest DEF Waits, Chosen
<1>6. CASE DropRole(c) \/ WriteRole(c)
  <2>1. pc'[c] = "idle"
    BY <1>6, OwnStep DEF DropRole, WriteRole
  <2>2. /\ \A u \in Users : user'[u].state = user[u].state
        /\ AllTidy'
    <3>1. CASE DropRole(c)
      <4>1. /\ pc[c] = "dropRole"
            /\ role' = [role EXCEPT ![r.row].deleted = TRUE]
            /\ user' = [u \in Users |-> [user[u] EXCEPT !.roles = @ \ {r.row}]]
        BY <3>1 DEF DropRole
      <4>2. \A u \in Users : /\ user'[u].state = user[u].state
                             /\ user'[u].roles = user[u].roles \ {r.row}
                             /\ user[u].roles \subseteq RoleRows
        BY <1>2, <4>1 DEF User
      <4>3. \A x \in RoleRows \ {r.row} : role'[x] = role[x]
        BY <1>2, <4>1
      <4> QED
        BY <4>2, <4>3 DEF RolesInv, AllTidy, Tidy, Present, LiveRole
    <3>2. CASE WriteRole(c)
      <4>1. user' = user /\ pc[c] = "writeRole"
        BY <3>2 DEF WriteRole
      <4>2. \A x \in RoleRows : LiveRole(role, x) => LiveRole(role', x)
        <5> DEFINE taken == \E x \in RoleRows :
                               /\ x # r.row \/ r.op = "addRole"
                               /\ role[x] # None /\ role[x].code = r.code
        <5>1. CASE taken
          BY <3>2, <5>1 DEF WriteRole
        <5>2. CASE ~taken /\ r.op = "addRole"
          <6>1. role' = [role EXCEPT ![FreeRow(role)] =
                           [code |-> r.code, deleted |-> FALSE]]
            BY <3>2, <5>2 DEF WriteRole
          <6>2. ~HasRow(role, r.code) /\ r.code \in Codes
            BY <1>4, <4>1, <5>2 DEF HasRow, RoleLabels, RoleCall
          <6>3. role[FreeRow(role)] = None
            BY <6>2, FreeRowFound
               DEF RoleTable, TypeInv, DirInv, DirTypeOK, CodesUnique
          <6> QED  BY <1>2, <6>1, <6>3 DEF LiveRole
        <5>3. CASE ~taken /\ r.op # "addRole"
          <6> DEFINE m == [role[r.row] EXCEPT !.code = r.code]
          <6>1. role' = [role EXCEPT ![r.row] = m]
            BY <3>2, <5>3 DEF WriteRole
          <6>2. role[r.row] \in RoleRow /\ r.code \in Codes
            BY <1>2, <1>4, <4>1, <5>3 DEF RoleLabels, RoleCall
          <6>3. m \in RoleRow /\ m.deleted = role[r.row].deleted
            BY <6>2 DEF RoleRow
          <6>4. m # None
            BY <6>3, NullIsNoRole
          <6> HIDE DEF m
          <6> QED  BY <1>2, <6>1, <6>3, <6>4 DEF LiveRole
        <5> QED  BY <5>1, <5>2, <5>3
      <4>3. \A u \in Users : user[u].roles \subseteq RoleRows
        BY <1>2 DEF User
      <4> QED
        BY <4>1, <4>2, <4>3 DEF RolesInv, AllTidy, Tidy, Present, LiveRole
    <3> QED  BY <1>6, <3>1, <3>2
  <2>3. UsersExist'
    <3> SUFFICES ASSUME NEW d \in Clients, Waits(d)'
                 PROVE  user'[req'[d].user].state # "none"
      BY DEF UsersExist
    <3>1. d # c /\ Waits(d) /\ pc[d] \in UserLabels /\ req'[d] = req[d]
      BY <1>1, <2>1 DEF Waits, UserLabels
    <3>2. req[d].user \in Users
      BY <3>1, FitsOf DEF TypeInv, DirInv, UserFits, UserCall
    <3> QED  BY <2>2, <3>1, <3>2 DEF RolesInv, UsersExist
  <2> QED
    BY <1>1, <1>3, <2>2, <2>3
       DEF RolesInv, NoRolePage, AllOneRole, ChosenIsGood
<1> QED  BY <1>5, <1>6

\* A sign-in or a registration keeps the roles: a new account gets the live
\* role user.
LEMMA RolesSignIn ==
  ASSUME TypeInv, RolesInv, NEW c \in Clients, SignInStep(c)
  PROVE  RolesInv'
<1> DEFINE r == req[c]
<1>1. /\ \A d \in Clients \ {c} : pc'[d] = pc[d] /\ req'[d] = req[d]
      /\ NobodyWaits'
  BY OthersStay, UpStays DEF TypeInv, DirInv
<1>2. /\ user \in [Users -> User] /\ role \in [RoleRows -> RoleRow \cup {None}]
  BY DEF TypeInv, DirInv, DirTypeOK
<1>3. pc[c] \in RegisterLabels => r \in RegisterCall /\ RegisterFits(pc[c], r)
  BY FitsOf DEF TypeInv, DirInv, RegisterFits
<1>4. CASE \/ LoginRequest(c) \/ RegisterRequest(c) \/ PasswordRequest(c)
           \/ CheckLimit(c) \/ DropLimit(c) \/ Authenticate(c) \/ ReadLimit(c)
           \/ WriteLimit(c) \/ ClearLimit(c) \/ CreateSession(c)
           \/ VerifyPassword(c)
  <2>1. UNCHANGED <<authOn, user, role>>
    BY <1>4 DEF LoginRequest, RegisterRequest, PasswordRequest, CheckLimit,
                DropLimit, Authenticate, ReadLimit, WriteLimit, ClearLimit,
                CreateSession, VerifyPassword, dirVars
  <2>2. pc'[c] \in {"checkLimit", "findRole", "verifyPassword", "dropLimit",
                    "authenticate", "clearLimit", "readLimit", "writeLimit",
                    "createSession", "storePassword", "idle"}
    BY <1>4, OwnStep
       DEF LoginRequest, RegisterRequest, PasswordRequest, CheckLimit, DropLimit,
           Authenticate, ReadLimit, WriteLimit, ClearLimit, CreateSession,
           VerifyPassword
  <2> QED
    BY <1>1, <2>1, <2>2, RolesOfRequest DEF Waits, Chosen, RoleLabels
<1>5. CASE FindRole(c)
  <2>1. pc[c] = "findRole" /\ UNCHANGED <<authOn, user, role>>
    BY <1>5 DEF FindRole, dirVars
  <2>2. r \in RegisterCall
    BY <1>3, <2>1 DEF RegisterLabels
  <2>3. \/ pc'[c] = "idle"
        \/ /\ pc'[c] = "findName" /\ req'[c].row = RowOf(role, r.code)
           /\ req'[c].code = r.code /\ HasRow(role, r.code)
           /\ ~role[RowOf(role, r.code)].deleted
    BY <1>5, <2>2, OwnStep DEF FindRole, RegisterCall
  <2>4. HasRow(role, r.code) /\ ~role[RowOf(role, r.code)].deleted
           => /\ GoodRole(RowOf(role, r.code))
              /\ role[RowOf(role, r.code)].code = r.code
    BY <2>2, RowOfFound DEF GoodRole, LiveRole, RegisterCall
  <2> QED
    BY <1>1, <2>1, <2>3, <2>4, RolesOfRequest DEF Waits, Chosen, RoleLabels
<1>6. CASE FindName(c)
  <2>1. pc[c] = "findName" /\ UNCHANGED <<authOn, user, role>>
    BY <1>6 DEF FindName, dirVars
  <2>2. \/ pc'[c] = "idle"
        \/ pc'[c] = "register" /\ req'[c] = r
    BY <1>6, OwnStep DEF FindName
  <2>3. authOn => GoodRole(r.row) /\ role[r.row].code = r.code
    BY <2>1 DEF RolesInv, ChosenIsGood, Chosen
  <2> QED
    BY <1>1, <2>1, <2>2, <2>3, RolesOfRequest DEF Waits, Chosen, RoleLabels
<1>7. CASE Register(c)
  <2>1. /\ pc[c] = "register" /\ UNCHANGED <<authOn, role>>
        /\ pc'[c] \in {"idle", "createSession"}
    BY <1>7, OwnStep DEF Register
  <2>2. r.row \in RoleRows /\ r.user \in Users
    BY <1>3, <2>1 DEF RegisterLabels, RegisterFits, RegisterCall
  <2>3. authOn => GoodRole(r.row)
    BY <2>1 DEF RolesInv, ChosenIsGood, Chosen
  <2>4. \/ user' = user
        \/ /\ \A u \in Users \ {r.user} : user'[u] = user[u]
           /\ user'[r.user] = [state |-> "active", pwd |-> 0, roles |-> {r.row}]
    BY <1>2, <1>7, <2>2 DEF Register
  <2>5. \A u \in Users : user[u].state # "none" => user'[u].state # "none"
    BY <2>2, <2>4
  <2>6. ASSUME NEW u \in Users, Present(u)'
        PROVE  \/ Present(u) /\ user'[u].roles = user[u].roles
               \/ \E x \in RoleRows : /\ user'[u].roles = {x}
                                      /\ authOn => GoodRole(x)
    BY <2>2, <2>3, <2>4, <2>6 DEF Present
  <2> QED  BY <1>1, <2>1, <2>5, <2>6, RolesOfWrite
<1>8. CASE StorePassword(c)
  <2>1. pc'[c] = "idle" /\ UNCHANGED <<authOn, role>>
    BY <1>8, OwnStep DEF StorePassword
  <2>2. \A u \in Users : /\ user'[u].state = user[u].state
                         /\ user'[u].roles = user[u].roles
    BY <1>2, <1>8 DEF StorePassword, User
  <2>3. \A u \in Users : Present(u)' => Present(u)
    BY <2>2 DEF Present
  <2> QED  BY <1>1, <2>1, <2>2, <2>3, RolesOfWrite
<1> QED
  BY <1>4, <1>5, <1>6, <1>7, <1>8 DEF SignInStep, LoginStep

\* The upserts delete no role.
LEMMA BuiltinLive ==
  ASSUME RoleTable(role), NEW r \in RoleRows, role[r] # None, ~role[r].deleted
  PROVE  BuiltinRoles[r] # None /\ ~BuiltinRoles[r].deleted
<1> DEFINE t == Upsert(role, "admin")
<1>1. RoleTable(t) /\ t[r] # None /\ ~t[r].deleted
  BY UpsertTable DEF Codes
<1> HIDE DEF t
<1>2. Upsert(t, "user")[r] # None /\ ~Upsert(t, "user")[r].deleted
  BY <1>1, UpsertTable DEF Codes
<1> QED  BY <1>2 DEF BuiltinRoles, t

\* The start of the process with authentication: every user that is not
\* deleted has one live built-in role, and who was an administrator by one
\* before keeps it.  (A user may become one, by name.)
LEMMA SeedRoles ==
  ASSUME TypeInv, AllTidy, Boot, authOn', NEW u \in Users, Present(u)'
  PROVE  /\ OneRole(u)'
         /\ Present(u) /\ OneRole(u) /\ IsAdmin(u) => user'[u] = user[u]
<1> DEFINE t == BuiltinRoles
           q == RetireLegacy(t)
<1>1. /\ RoleTable(role) /\ user \in [Users -> User]
  BY DEF TypeInv, DirInv, DirTypeOK, CodesUnique, RoleTable
<1>2. Seed /\ role' = q
  BY DEF Boot, Seed
<1>3. /\ RoleTable(t) /\ HasRow(t, "admin") /\ HasRow(t, "user")
      /\ \A r \in RoleRows :
            t[r] # None /\ t[r].code \in {"admin", "user"} => ~t[r].deleted
      /\ \A r \in RoleRows :
            role[r] # None => t[r] # None /\ t[r].code = role[r].code
  BY <1>1, BuiltinTable
<1>4. \A r \in RoleRows :
         /\ t[r] = None <=> q[r] = None
         /\ t[r] # None /\ t[r].code # "super_admin" => q[r] = t[r]
  BY <1>3, RetireTable
<1>5. \A v : /\ Target(t, v) \in {"admin", "user"}
             /\ RowOf(t, Target(t, v)) \in RoleRows
             /\ t[RowOf(t, Target(t, v))] # None
             /\ t[RowOf(t, Target(t, v))].code = Target(t, v)
  BY <1>1, TargetFound
<1>6. \A r \in RoleRows :
         t[r] # None /\ t[r].code \in {"admin", "user"} => GoodRole(r)'
  BY <1>2, <1>3, <1>4 DEF GoodRole, LiveRole
<1> HIDE DEF t, q
<1>7. CASE ~\E v \in Users : Present(v)
  <2>1. /\ \A v \in Users \ {InitAdmin} : user'[v] = user[v]
        /\ user'[InitAdmin] = [state |-> "active", pwd |-> 0,
                               roles |-> {RowOf(t, "admin")}]
    BY <1>1, <1>2, <1>7, DirectoryConstants DEF Seed, t
  <2>2. u = InitAdmin
    BY <1>7, <2>1 DEF Present
  <2>3. RowOf(t, "admin") \in RoleRows
    BY <1>3, RowOfFound
  <2>4. OneRole(u)'
    <3>1. PICK r \in RoleRows : r = RowOf(t, "admin")
      BY <2>3
    <3>2. t[r] # None /\ t[r].code = "admin"
      BY <1>3, <3>1, RowOfFound
    <3>3. GoodRole(r)'
      BY <1>6, <3>2
    <3>4. user'[u].roles = {r}
      BY <2>1, <2>2, <3>1
    <3> QED  BY <3>3, <3>4 DEF OneRole
  <2> QED  BY <1>7, <2>4
<1>8. CASE \E v \in Users : Present(v)
  <2>1. user' = Migrated(t)
    BY <1>2, <1>8 DEF Seed, t
  <2>2. CASE u \in Misplaced(t)
    <3>1. user'[u] = [user[u] EXCEPT !.roles = {RowOf(t, Target(t, u))}]
      BY <2>1, <2>2 DEF Migrated
    <3>2. user'[u].roles = {RowOf(t, Target(t, u))}
      BY <1>1, <3>1 DEF User
    <3>3. PICK r \in RoleRows : r = RowOf(t, Target(t, u))
      BY <1>5
    <3>4. GoodRole(r)'
      BY <1>5, <1>6, <3>3
    <3>5. OneRole(u)'
      BY <3>2, <3>3, <3>4 DEF OneRole
    <3>6. ~(OneRole(u) /\ IsAdmin(u))
      <4> SUFFICES ASSUME NEW x \in RoleRows, user[u].roles = {x}, GoodRole(x),
                          IsAdmin(u)
                   PROVE  FALSE
        BY DEF OneRole
      <4>1. /\ t[x] # None /\ t[x].code = role[x].code
            /\ role[x].code \in {"admin", "user"} /\ ~t[x].deleted
        BY <1>3 DEF GoodRole, LiveRole
      <4>2. LiveCodes(t, u) = {role[x].code}
        BY <4>1 DEF LiveCodes, LiveRole
      <4>3. Target(t, u) = role[x].code
        <5>1. Alias[role[x].code] = "admin"
          BY DEF IsAdmin, AdminIn
        <5>2. role[x].code = "admin"
          BY <4>1, <5>1 DEF Alias, Codes
        <5> QED  BY <4>2, <5>1, <5>2 DEF Target
      <4> QED  BY <2>2, <4>2, <4>3 DEF Misplaced
    <3> QED  BY <3>5, <3>6
  <2>3. CASE u \notin Misplaced(t)
    <3>1. user'[u] = user[u]
      BY <2>1, <2>3 DEF Migrated
    <3>2. LiveCodes(t, u) = {Target(t, u)}
      BY <2>3, <3>1 DEF Misplaced, Present
    <3>3. PICK x \in user[u].roles : LiveRole(t, x) /\ t[x].code = Target(t, u)
      BY <3>2 DEF LiveCodes
    <3>4. user[u].roles \subseteq RoleRows
      BY <1>1 DEF User
    <3>5. user[u].roles = {x}
      <4>1. CASE \E r \in RoleRows : user[u].roles \subseteq {r}
        BY <3>3, <4>1
      <4>2. CASE \A r \in user[u].roles : LiveRole(role, r)
        <5> SUFFICES ASSUME NEW y \in user[u].roles
                     PROVE  y = x
          BY <3>3
        <5>1. t[y] # None /\ t[y].code = role[y].code
          BY <1>3, <3>4, <4>2 DEF LiveRole
        <5>2. t[x].code = Target(t, u) /\ t[x] # None
          BY <3>3 DEF LiveRole
        <5>3. t[y].code \in Codes /\ t[y] \in RoleRow
          BY <1>3, <3>4, <5>1 DEF RoleTable, RoleRow
        <5>4. ~t[y].deleted
          <6>1. role[y] # None /\ ~role[y].deleted
            BY <4>2 DEF LiveRole
          <6> QED  BY <1>1, <3>4, <6>1, BuiltinLive DEF t
        <5>5. t[y].code = Target(t, u)
          BY <3>2, <5>1, <5>4 DEF LiveCodes, LiveRole
        <5> QED  BY <1>3, <3>3, <3>4, <5>1, <5>2, <5>5 DEF RoleTable
      <4> QED  BY <3>1, <4>1, <4>2 DEF AllTidy, Tidy, Present
    <3>6. GoodRole(x)'
      BY <1>5, <1>6, <3>3, <3>4 DEF LiveRole
    <3>7. OneRole(u)'
      BY <3>1, <3>4, <3>5, <3>6 DEF OneRole
    <3> QED  BY <3>1, <3>7
  <2> QED  BY <2>2, <2>3
<1> QED  BY <1>7, <1>8

\* A start of the process makes the roles tidy when it turns authentication on.
LEMMA RolesBoot ==
  ASSUME TypeInv, RolesInv, Boot
  PROVE  RolesInv'
<1>1. /\ \A c \in Clients : pc'[c] = "idle"
      /\ up'
  BY DEF Boot, RolesInv, NobodyWaits
<1>2. NobodyWaits' /\ UsersExist' /\ NoRolePage' /\ ChosenIsGood'
  BY <1>1 DEF NobodyWaits, UsersExist, NoRolePage, ChosenIsGood, Waits, Chosen,
              RoleLabels
<1>3. CASE authOn'
  <2>1. \A u \in Users : Present(u)' => OneRole(u)'
    BY <1>3, SeedRoles DEF RolesInv
  <2>2. AllOneRole' /\ AllTidy'
    BY <2>1 DEF AllOneRole, AllTidy, OneRole, Tidy
  <2> QED  BY <1>2, <2>2 DEF RolesInv
<1>4. CASE ~authOn'
  <2>1. UNCHANGED <<user, role>>
    BY <1>4 DEF Boot
  <2>2. AllOneRole' /\ AllTidy'
    BY <1>4, <2>1 DEF RolesInv, AllOneRole, AllTidy, Tidy, Present, LiveRole
  <2> QED  BY <1>2, <2>2 DEF RolesInv
<1> QED  BY <1>3, <1>4 DEF Boot

\* Every step keeps the roles: the inductive step of RolesAlways.
LEMMA RolesNext ==
  ASSUME TypeInv, RolesInv, [Next]_vars
  PROVE  RolesInv'
<1>1. CASE UNCHANGED <<apiVars, authOn, user, role>>
  BY <1>1
     DEF apiVars, RolesInv, NobodyWaits, UsersExist, AllTidy, NoRolePage,
         AllOneRole, ChosenIsGood, Waits, Chosen, Tidy, Present, OneRole,
         GoodRole, LiveRole
<1>2. ASSUME NEW c \in Clients, DirectoryStep(c) PROVE RolesInv'
  BY <1>2, RolesUserHandlers, RolesRoleHandlers DEF DirectoryStep, AdminStep
<1>3. ASSUME NEW c \in Clients, ConfigPageStep(c) PROVE RolesInv'
  <2>1. /\ \A d \in Clients \ {c} : pc'[d] = pc[d] /\ req'[d] = req[d]
        /\ NobodyWaits'
    BY <1>3, OthersStay, UpStays DEF TypeInv, DirInv
  <2>2. UNCHANGED <<authOn, user, role>>
    BY <1>3 DEF ConfigPageStep, dirVars
  <2>3. pc'[c] \in {"idle", "writeMarket"} \cup SeedLabels \cup EditLabels
    BY <1>3, ConfigLands
  <2> QED
    BY <2>1, <2>2, <2>3, RolesOfRequest
       DEF Waits, Chosen, RoleLabels, SeedLabels, EditLabels
<1>4. ASSUME NEW c \in Clients, RequestFails(c) PROVE RolesInv'
  <2>1. /\ \A d \in Clients \ {c} : pc'[d] = pc[d] /\ req'[d] = req[d]
        /\ pc'[c] = "idle" /\ up' = up /\ UNCHANGED <<authOn, user, role>>
    BY <1>4, OthersStay
       DEF RequestFails, CallFails, Throws, TypeInv, DirInv, CallTypes
  <2>2. NobodyWaits'
    BY <2>1 DEF RolesInv, NobodyWaits
  <2> QED  BY <2>1, <2>2, RolesOfRequest DEF Waits, Chosen, RoleLabels
<1>5. ASSUME Dies PROVE RolesInv'
  <2>1. \A c \in Clients : pc'[c] = "idle"
    BY <1>5 DEF Dies, ProcessDies
  <2>2. UNCHANGED <<authOn, user, role>>
    BY <1>5 DEF Dies
  <2>3. NobodyWaits' /\ UsersExist' /\ NoRolePage' /\ ChosenIsGood'
    BY <2>1 DEF NobodyWaits, UsersExist, NoRolePage, ChosenIsGood, Waits, Chosen,
                RoleLabels
  <2>4. AllTidy' /\ AllOneRole'
    BY <2>2 DEF RolesInv, AllTidy, Tidy, AllOneRole, OneRole, GoodRole, Present,
                LiveRole
  <2> QED  BY <2>3, <2>4 DEF RolesInv
<1>6. ASSUME NEW u \in Users, WindowPasses(u) PROVE RolesInv'
  BY <1>1, <1>6 DEF WindowPasses, dirVars
<1>7. ASSUME NEW s \in session, SessionEnds(s) PROVE RolesInv'
  BY <1>1, <1>7 DEF SessionEnds
<1> QED
  BY <1>1, <1>2, <1>3, <1>4, <1>5, <1>6, <1>7, RolesSignIn, RolesBoot
     DEF Next, NextOnPage, vars, dirVars

\* The roles are tidy in the initial states, where authentication is off.
LEMMA RolesInit ==
  ASSUME Init
  PROVE  RolesInv
<1>1. /\ \A c \in Clients : pc[c] = "idle"
      /\ authOn = FALSE
  BY DEF Init, ApiInit, DirInit
<1>2. AllTidy
  <2> SUFFICES ASSUME NEW u \in Users, Present(u)
               PROVE  Tidy(u)
    BY DEF AllTidy
  <2>1. user[u].state # "none"
    BY DEF Present
  <2>2. user[u].roles \in {{1}, {2}, {1, 2}, {3}, {}}
    <3>1. user[u] # NoUser
      BY <2>1 DEF NoUser
    <3> QED  BY <3>1 DEF Init, DirInit
  <2>3. role[1] # None
    BY <2>1 DEF Init, DirInit, NoUser
  <2>4. role = [r \in RoleRows |-> IF r = 4 THEN None ELSE
                  [code |-> CASE r = 1 -> "admin" [] r = 2 -> "user"
                              [] OTHER -> "super_admin",
                   deleted |-> FALSE]]
    BY <2>3 DEF Init, DirInit, Tables, RoleRows
  <2>5. /\ role[1] = [code |-> "admin", deleted |-> FALSE]
        /\ role[2] = [code |-> "user", deleted |-> FALSE]
    BY <2>4 DEF RoleRows
  <2>6. role[1] \in RoleRow /\ role[2] \in RoleRow
    BY <2>5 DEF RoleRow, Codes
  <2>7. LiveRole(role, 1) /\ LiveRole(role, 2)
    <3>1. role[1] # None /\ role[2] # None
      BY <2>6, NullIsNoRole
    <3>2. role[1].deleted = FALSE /\ role[2].deleted = FALSE
      BY <2>5
    <3> QED  BY <3>1, <3>2 DEF LiveRole
  <2>8. 1 \in RoleRows /\ 2 \in RoleRows /\ 3 \in RoleRows
    BY DEF RoleRows
  <2>9. CASE user[u].roles = {1, 2}
    BY <2>7, <2>9 DEF Tidy
  <2>10. CASE user[u].roles \in {{1}, {2}, {3}, {}}
    <3>1. PICK r \in RoleRows : user[u].roles \subseteq {r}
      BY <2>8, <2>10
    <3> QED  BY <3>1 DEF Tidy
  <2> QED  BY <2>2, <2>9, <2>10
<1> QED
  BY <1>1, <1>2
     DEF RolesInv, NobodyWaits, UsersExist, NoRolePage, AllOneRole, ChosenIsGood,
         Waits, Chosen, RoleLabels

\* The roles invariant holds in every reachable state, with the types.
LEMMA RolesAlways == Spec => [](TypeInv /\ RolesInv)
<1>1. Init => TypeInv /\ RolesInv
  BY InitTyped, RolesInit
<1>2. TypeInv /\ RolesInv /\ [Next]_vars => (TypeInv /\ RolesInv)'
  BY NextTyped, RolesNext
<1> QED  BY <1>1, <1>2, PTL DEF Spec

\* While authentication is on, every user that is not deleted holds exactly
\* one role, which is live and is admin or user, so that the guard and the
\* admin handlers agree on who is an administrator.
THEOREM RolesAgree == Spec => []OneRoleEach
<1>1. RolesInv => OneRoleEach
  BY DEF RolesInv, AllOneRole, OneRole, GoodRole, OneRoleEach
<1> QED  BY <1>1, RolesAlways, PTL

-----------------------------------------------------------------------------
(***************************************************************************)
(* What a handler read stays true until another request commits to the     *)
(* users, which overtakes it: no other step changes who is active and, as  *)
(* long as authentication is on, who is an administrator.                  *)
(***************************************************************************)
SeenIsCurrent(c) ==
    Waits(c) => /\ req[c].seen.state = user[req[c].user].state
                /\ authOn => req[c].seen.admin = IsAdmin(req[c].user)

CountIsCurrent(c) ==
    authOn /\ pc[c] = "write" /\ Demotes(req[c]) => Cardinality(ActiveAdmins) > 1

RoleIsUnused(c) == pc[c] = "dropRole" => Holders(req[c].row) = {}

Current(c) == SeenIsCurrent(c) /\ CountIsCurrent(c) /\ RoleIsUnused(c)

SeenInv == \A c \in Clients \ overtaken : Current(c)

\* A step that changes nobody's state and, with authentication, nobody's roles.
SameAdmins ==
    /\ authOn' = authOn
    /\ \A u \in Users : /\ user'[u].state = user[u].state
                        /\ user'[u].roles \subseteq user[u].roles
    /\ authOn => /\ role' = role
                 /\ \A u \in Users : user'[u].roles = user[u].roles

\* A step that changes no state and no role of a user leaves the administrators
\* and their number as they are.
LEMMA SameAdminsCount ==
  ASSUME SameAdmins, authOn
  PROVE  /\ \A u \in Users : IsAdmin(u)' <=> IsAdmin(u)
         /\ ActiveAdmins' = ActiveAdmins
<1>1. \A u \in Users : IsAdmin(u)' <=> IsAdmin(u)
  BY DEF SameAdmins, IsAdmin, AdminIn, LiveRole
<1> QED  BY <1>1 DEF ActiveAdmins, SameAdmins

\* What a waiting handler has read stays current while a step leaves the
\* administrators as they are.
LEMMA CurrentKept ==
  ASSUME TypeInv, SameAdmins, NEW d \in Clients, Current(d),
         pc'[d] = pc[d], req'[d] = req[d]
  PROVE  Current(d)'
<1>1. pc[d] \in UserLabels => req[d].user \in Users
  BY FitsOf DEF TypeInv, DirInv, UserFits, UserCall
<1>2. SeenIsCurrent(d)'
  <2> SUFFICES ASSUME Waits(d)'
               PROVE  /\ req[d].seen.state = user'[req[d].user].state
                      /\ authOn => req[d].seen.admin = IsAdmin(req[d].user)'
    BY DEF SeenIsCurrent, SameAdmins, IsAdmin
  <2>1. Waits(d) /\ req[d].user \in Users
    BY <1>1 DEF Waits, UserLabels
  <2>2. user'[req[d].user].state = user[req[d].user].state
    BY <2>1 DEF SameAdmins
  <2>3. authOn => (IsAdmin(req[d].user)' <=> IsAdmin(req[d].user))
    BY <2>1 DEF SameAdmins, IsAdmin, AdminIn, LiveRole
  <2>4. IsAdmin(req[d].user) \in BOOLEAN /\ IsAdmin(req[d].user)' \in BOOLEAN
    BY DEF IsAdmin, AdminIn
  <2>5. authOn => IsAdmin(req[d].user)' = IsAdmin(req[d].user)
    BY <2>3, <2>4
  <2> QED  BY <2>1, <2>2, <2>5 DEF Current, SeenIsCurrent
<1>3. CountIsCurrent(d)'
  <2>1. Demotes(req[d])' <=> Demotes(req[d])
    BY DEF Demotes, NextState
  <2> QED
    BY <2>1, SameAdminsCount DEF Current, CountIsCurrent, SameAdmins, Demotes, NextState
<1>4. RoleIsUnused(d)'
  BY DEF Current, RoleIsUnused, Holders, Present, SameAdmins
<1> QED  BY <1>2, <1>3, <1>4 DEF Current

\* A step of one request that overtakes nobody.
LEMMA SeenOfRequest ==
  ASSUME TypeInv, SeenInv, SameAdmins, NEW c \in Clients,
         \A d \in Clients \ {c} : pc'[d] = pc[d] /\ req'[d] = req[d],
         overtaken \ {c} \subseteq overtaken',
         c \notin overtaken' => Current(c)'
  PROVE  SeenInv'
<1> SUFFICES ASSUME NEW d \in Clients \ overtaken'
             PROVE  Current(d)'
  BY DEF SeenInv
<1>1. CASE d = c
  BY <1>1
<1>2. CASE d # c
  <2>1. d \notin overtaken
    BY <1>2
  <2> QED  BY <1>2, <2>1, CurrentKept DEF SeenInv
<1> QED  BY <1>1, <1>2

\* A request at any other await relies on nothing it read.
LEMMA CurrentElsewhere ==
  ASSUME NEW c, pc'[c] \notin {"count", "write", "resolve", "dropRole"}
  PROVE  Current(c)'
  BY DEF Current, SeenIsCurrent, CountIsCurrent, RoleIsUnused, Waits

\* A commit to the users overtakes every request but its own.
LEMMA SeenOfWrite ==
  ASSUME NEW c \in Clients, Overtakes(c),
         pc'[c] \notin {"count", "write", "resolve", "dropRole"}
  PROVE  SeenInv'
<1>1. \A d \in Clients \ overtaken' : d = c
  BY DEF Overtakes
<1> QED  BY <1>1, CurrentElsewhere DEF SeenInv

\* A handler of one user that writes overtakes the others that had read; what
\* every other one has read stays current.
LEMMA SeenUserHandlers ==
  ASSUME TypeInv, RolesInv, SeenInv, NEW c \in Clients, DirectoryStep(c),
         \/ AdminRequest(c) \/ LoadUser(c) \/ ResolveRole(c) \/ CountAdmins(c)
         \/ WriteUser(c) \/ InsertUser(c) \/ SetPassword(c) \/ ClearSessions(c)
  PROVE  SeenInv'
<1> DEFINE r == req[c]
<1>1. \A d \in Clients \ {c} : pc'[d] = pc[d] /\ req'[d] = req[d]
  BY OthersStay DEF TypeInv, DirInv
<1>2. user \in [Users -> User]
  BY DEF TypeInv, DirInv, DirTypeOK
<1>3. pc[c] \in UserLabels => /\ UserFits(pc[c], r) /\ r \in UserCall
                              /\ r.user \in Users
  BY FitsOf DEF TypeInv, DirInv, UserFits, UserCall
<1>4. ASSUME AdminRequest(c) PROVE SeenInv'
  <2>1. pc'[c] = "load" /\ UNCHANGED dirVars
    BY <1>4, OwnStep DEF AdminRequest
  <2>2. SameAdmins
    BY <2>1 DEF SameAdmins, dirVars
  <2> QED
    BY <1>1, <2>1, <2>2, CurrentElsewhere, SeenOfRequest DEF dirVars
<1>5. ASSUME LoadUser(c) PROVE SeenInv'
  <2> DEFINE loaded == [r EXCEPT !.seen = [state |-> user[r.user].state,
                                           admin |-> IsAdmin(r.user)]]
  <2>1. /\ pc[c] = "load" /\ UNCHANGED <<authOn, user, role>>
        /\ overtaken' = overtaken \ {c}
    BY <1>5 DEF LoadUser, ReadsAfresh
  <2>2. SameAdmins
    BY <2>1 DEF SameAdmins
  <2>3. r \in UserCall
    BY <1>3, <2>1 DEF UserLabels
  <2>4. /\ loaded.seen.state = user[r.user].state
        /\ loaded.seen.admin = IsAdmin(r.user)
        /\ loaded.user = r.user
    BY <2>3 DEF UserCall
  <2>5. \/ pc'[c] \in {"count", "resolve"} /\ req'[c] = loaded
        \/ pc'[c] = "resolve" /\ req'[c].op = "create"
        \/ pc'[c] \in {"idle", "setPassword"}
    <3>1. CASE r.op = "create" /\ user[r.user].state = "none"
      BY <1>5, <3>1, OwnStep DEF LoadUser
    <3>2. CASE r.op # "create" /\ Present(r.user)
      <4>1. r.op \in {"update", "reset", "delete"}
        BY <2>3, <3>2 DEF UserCall
      <4>2. /\ r.op = "reset" => Goto(c, "setPassword", loaded)
            /\ r.op = "update" /\ r.code # None => Goto(c, "resolve", loaded)
            /\ r.op = "update" /\ r.code = None => Goto(c, "count", loaded)
            /\ r.op = "delete" => Goto(c, "count", loaded)
        <5>1. r.op = "delete" => r.code = None
          BY <1>3, <2>1 DEF UserFits, UserLabels
        <5> QED  BY <1>5, <3>2, <5>1 DEF LoadUser
      <4> QED  BY <4>1, <4>2, OwnStep
    <3>3. CASE ~(r.op = "create" /\ user[r.user].state = "none")
               /\ ~(r.op # "create" /\ Present(r.user))
      BY <1>5, <3>3, OwnStep DEF LoadUser
    <3> QED  BY <3>1, <3>2, <3>3
  <2>6. Current(c)'
    <3>1. CASE pc'[c] \in {"count", "resolve"} /\ req'[c] = loaded
      <4>1. SeenIsCurrent(c)'
        BY <2>1, <2>4, <3>1 DEF SeenIsCurrent, IsAdmin
      <4> QED  BY <3>1, <4>1 DEF Current, CountIsCurrent, RoleIsUnused
    <3>2. CASE pc'[c] = "resolve" /\ req'[c].op = "create"
      BY <3>2 DEF Current, SeenIsCurrent, CountIsCurrent, RoleIsUnused, Waits
    <3>3. CASE pc'[c] \in {"idle", "setPassword"}
      BY <3>3, CurrentElsewhere
    <3> QED  BY <2>5, <3>1, <3>2, <3>3
  <2> QED  BY <1>1, <2>1, <2>2, <2>6, SeenOfRequest
<1>6. ASSUME ResolveRole(c) PROVE SeenInv'
  <2>1. pc[c] = "resolve" /\ UNCHANGED dirVars
    BY <1>6 DEF ResolveRole
  <2>2. SameAdmins /\ overtaken' = overtaken
    BY <2>1 DEF SameAdmins, dirVars
  <2>3. r \in UserCall /\ r.op \in {"create", "update"}
    BY <1>3, <2>1 DEF UserLabels, UserFits
  <2>4. \/ pc'[c] \in {"idle", "insert"}
        \/ /\ pc'[c] = "count" /\ r.op = "update"
           /\ \E x \in RoleRows : req'[c] = [r EXCEPT !.row = x]
    BY <1>6, <2>3, OwnStep DEF ResolveRole
  <2>5. c \notin overtaken' => Current(c)'
    <3>1. CASE pc'[c] \in {"idle", "insert"}
      BY <3>1, CurrentElsewhere
    <3>2. CASE /\ pc'[c] = "count" /\ r.op = "update"
               /\ \E x \in RoleRows : req'[c] = [r EXCEPT !.row = x]
      <4>1. req'[c].seen = r.seen /\ req'[c].user = r.user
        BY <2>3, <3>2 DEF UserCall
      <4>2. c \notin overtaken => SeenIsCurrent(c)
        BY DEF SeenInv, Current
      <4>3. c \notin overtaken => SeenIsCurrent(c)'
        BY <2>1, <3>2, <4>1, <4>2 DEF SeenIsCurrent, IsAdmin, Waits, dirVars
      <4> QED
        BY <2>2, <3>2, <4>3 DEF Current, CountIsCurrent, RoleIsUnused
    <3> QED  BY <2>4, <3>1, <3>2
  <2> QED  BY <1>1, <2>2, <2>5, SeenOfRequest
<1>7. ASSUME CountAdmins(c) PROVE SeenInv'
  <2>1. pc[c] = "count" /\ UNCHANGED dirVars
    BY <1>7 DEF CountAdmins
  <2>2. SameAdmins /\ overtaken' = overtaken
    BY <2>1 DEF SameAdmins, dirVars
  <2>3. \/ pc'[c] = "idle"
        \/ /\ pc'[c] = "write" /\ req'[c] = r
           /\ ~(Demotes(r) /\ Cardinality(ActiveAdmins) <= 1)
    BY <1>7, OwnStep DEF CountAdmins
  <2>4. c \notin overtaken' => Current(c)'
    <3>1. CASE pc'[c] = "idle"
      BY <3>1, CurrentElsewhere
    <3>2. CASE /\ pc'[c] = "write" /\ req'[c] = r
               /\ ~(Demotes(r) /\ Cardinality(ActiveAdmins) <= 1)
      <4>1. c \notin overtaken => SeenIsCurrent(c)
        BY DEF SeenInv, Current
      <4>2. c \notin overtaken => SeenIsCurrent(c)'
        BY <2>1, <3>2, <4>1 DEF SeenIsCurrent, IsAdmin, Waits, dirVars
      <4>3. CountIsCurrent(c)'
        <5> SUFFICES ASSUME authOn', Demotes(req'[c])
                     PROVE  Cardinality(ActiveAdmins') > 1
          BY <3>2 DEF CountIsCurrent
        <5>1. Demotes(r)
          BY <3>2
        <5>2. ActiveAdmins' = ActiveAdmins
          BY <2>2, SameAdminsCount DEF SameAdmins
        <5>3. Cardinality(ActiveAdmins) \in Nat
          <6>1. ActiveAdmins \subseteq Users
            BY DEF ActiveAdmins
          <6> QED
            BY <6>1, DirectoryConstants, FS_Subset, FS_CardinalityType
        <5> QED  BY <3>2, <5>1, <5>2, <5>3
      <4> QED  BY <2>2, <3>2, <4>2, <4>3 DEF Current, RoleIsUnused
    <3> QED  BY <2>3, <3>1, <3>2
  <2> QED  BY <1>1, <2>2, <2>4, SeenOfRequest
<1>8. ASSUME WriteUser(c) PROVE SeenInv'
  <2>1. Overtakes(c) /\ pc'[c] \in {"idle", "clear"}
    BY <1>8, OwnStep DEF WriteUser
  <2> QED  BY <2>1, SeenOfWrite
<1>9. ASSUME InsertUser(c) PROVE SeenInv'
  <2>1. pc'[c] = "idle"
    BY <1>9, OwnStep DEF InsertUser
  <2>2. CASE Overtakes(c)
    BY <2>1, <2>2, SeenOfWrite
  <2>3. CASE UNCHANGED <<user, overtaken>>
    <3>1. SameAdmins
      BY <1>9, <2>3 DEF InsertUser, SameAdmins
    <3> QED  BY <1>1, <2>1, <2>3, <3>1, CurrentElsewhere, SeenOfRequest
  <2> QED  BY <1>9, <2>2, <2>3 DEF InsertUser
<1>10. ASSUME SetPassword(c) \/ ClearSessions(c) PROVE SeenInv'
  <2>1. /\ pc'[c] \in {"clear", "idle"} /\ UNCHANGED <<authOn, role, overtaken>>
    BY <1>10, OwnStep DEF SetPassword, ClearSessions
  <2>2. \A u \in Users : /\ user'[u].state = user[u].state
                         /\ user'[u].roles = user[u].roles
    BY <1>2, <1>10 DEF SetPassword, ClearSessions, User
  <2>3. SameAdmins
    BY <2>1, <2>2 DEF SameAdmins
  <2> QED  BY <1>1, <2>1, <2>3, CurrentElsewhere, SeenOfRequest
<1> QED
  BY <1>4, <1>5, <1>6, <1>7, <1>8, <1>9, <1>10

\* A handler of one role that writes overtakes the others that had read; what
\* every other one has read stays current.
LEMMA SeenRoleHandlers ==
  ASSUME TypeInv, RolesInv, SeenInv, NEW c \in Clients, DirectoryStep(c),
         \/ RoleRequest(c) \/ LoadRole(c) \/ CountUsers(c) \/ DropRole(c)
         \/ WriteRole(c)
  PROVE  SeenInv'
<1> DEFINE r == req[c]
<1>1. \A d \in Clients \ {c} : pc'[d] = pc[d] /\ req'[d] = req[d]
  BY OthersStay DEF TypeInv, DirInv
<1>2. user \in [Users -> User]
  BY DEF TypeInv, DirInv, DirTypeOK
<1>3. ~authOn /\ authOn' = authOn
  BY DEF RoleRequest, LoadRole, CountUsers, DropRole, WriteRole, dirVars,
         RolesInv, NoRolePage, RoleLabels
<1>4. SameAdmins
  <2>1. CASE RoleRequest(c) \/ LoadRole(c) \/ CountUsers(c) \/ WriteRole(c)
    <3>1. user' = user
      BY <2>1 DEF RoleRequest, LoadRole, CountUsers, WriteRole, dirVars
    <3> QED  BY <1>3, <3>1 DEF SameAdmins
  <2>2. CASE DropRole(c)
    <3>1. user' = [u \in Users |-> [user[u] EXCEPT !.roles = @ \ {r.row}]]
      BY <2>2 DEF DropRole
    <3>2. \A u \in Users : /\ user'[u].state = user[u].state
                           /\ user'[u].roles \subseteq user[u].roles
      BY <1>2, <3>1 DEF User
    <3> QED  BY <1>3, <3>2 DEF SameAdmins
  <2> QED  BY <2>1, <2>2
<1>5. CASE RoleRequest(c) \/ LoadRole(c) \/ DropRole(c) \/ WriteRole(c)
  <2>1. pc'[c] \in {"loadRole", "countUsers", "writeRole", "idle"}
    BY <1>5, OwnStep DEF RoleRequest, LoadRole, DropRole, WriteRole
  <2>2. overtaken' = overtaken
    BY <1>5 DEF RoleRequest, LoadRole, DropRole, WriteRole, dirVars
  <2> QED  BY <1>1, <1>4, <2>1, <2>2, CurrentElsewhere, SeenOfRequest
<1>6. CASE CountUsers(c)
  <2>1. overtaken' = overtaken \ {c} /\ user' = user
    BY <1>6 DEF CountUsers, ReadsAfresh
  <2>2. \/ pc'[c] = "idle"
        \/ pc'[c] = "dropRole" /\ req'[c] = r /\ Holders(r.row) = {}
    BY <1>6, OwnStep DEF CountUsers
  <2>3. Current(c)'
    <3>1. CASE pc'[c] = "idle"
      BY <3>1, CurrentElsewhere
    <3>2. CASE pc'[c] = "dropRole" /\ req'[c] = r /\ Holders(r.row) = {}
      BY <2>1, <3>2
         DEF Current, SeenIsCurrent, CountIsCurrent, RoleIsUnused, Waits, Holders,
             Present
    <3> QED  BY <2>2, <3>1, <3>2
  <2> QED  BY <1>1, <1>4, <2>1, <2>3, SeenOfRequest
<1> QED  BY <1>5, <1>6

\* A registration that adds a user overtakes those that had counted; any other
\* statement of a sign-in leaves what was read current.
LEMMA SeenSignIn ==
  ASSUME TypeInv, RolesInv, SeenInv, NEW c \in Clients, SignInStep(c)
  PROVE  SeenInv'
<1>1. \A d \in Clients \ {c} : pc'[d] = pc[d] /\ req'[d] = req[d]
  BY OthersStay DEF TypeInv, DirInv
<1>2. user \in [Users -> User]
  BY DEF TypeInv, DirInv, DirTypeOK
<1>3. CASE \/ LoginRequest(c) \/ RegisterRequest(c) \/ PasswordRequest(c)
           \/ CheckLimit(c) \/ DropLimit(c) \/ Authenticate(c) \/ ReadLimit(c)
           \/ WriteLimit(c) \/ ClearLimit(c) \/ CreateSession(c) \/ FindRole(c)
           \/ FindName(c) \/ VerifyPassword(c)
  <2>1. UNCHANGED <<authOn, user, role, overtaken>>
    BY <1>3 DEF LoginRequest, RegisterRequest, PasswordRequest, CheckLimit,
                DropLimit, Authenticate, ReadLimit, WriteLimit, ClearLimit,
                CreateSession, FindRole, FindName, VerifyPassword, dirVars
  <2>2. pc'[c] \in {"checkLimit", "findRole", "verifyPassword", "dropLimit",
                    "authenticate", "clearLimit", "readLimit", "writeLimit",
                    "createSession", "storePassword", "findName", "register",
                    "idle"}
    BY <1>3, OwnStep
       DEF LoginRequest, RegisterRequest, PasswordRequest, CheckLimit, DropLimit,
           Authenticate, ReadLimit, WriteLimit, ClearLimit, CreateSession,
           FindRole, FindName, VerifyPassword
  <2>3. SameAdmins
    BY <2>1 DEF SameAdmins
  <2> QED  BY <1>1, <2>1, <2>2, <2>3, CurrentElsewhere, SeenOfRequest
<1>4. CASE Register(c)
  <2>1. pc'[c] \in {"idle", "createSession"}
    BY <1>4, OwnStep DEF Register
  <2>2. CASE Overtakes(c)
    BY <2>1, <2>2, SeenOfWrite
  <2>3. CASE UNCHANGED <<user, overtaken>>
    <3>1. SameAdmins
      BY <1>4, <2>3 DEF Register, SameAdmins
    <3> QED  BY <1>1, <2>1, <2>3, <3>1, CurrentElsewhere, SeenOfRequest
  <2> QED  BY <1>4, <2>2, <2>3 DEF Register
<1>5. CASE StorePassword(c)
  <2>1. pc'[c] = "idle" /\ UNCHANGED <<authOn, role, overtaken>>
    BY <1>5, OwnStep DEF StorePassword
  <2>2. \A u \in Users : /\ user'[u].state = user[u].state
                         /\ user'[u].roles = user[u].roles
    BY <1>2, <1>5 DEF StorePassword, User
  <2>3. SameAdmins
    BY <2>1, <2>2 DEF SameAdmins
  <2> QED  BY <1>1, <2>1, <2>3, CurrentElsewhere, SeenOfRequest
<1> QED  BY <1>3, <1>4, <1>5 DEF SignInStep, LoginStep

\* Every step keeps what was read current, except of overtaken requests.
LEMMA SeenNext ==
  ASSUME TypeInv, RolesInv, SeenInv, [Next]_vars
  PROVE  SeenInv'
<1>1. CASE UNCHANGED <<apiVars, authOn, user, role, overtaken>>
  <2>1. SameAdmins
    BY <1>1 DEF SameAdmins
  <2> QED  BY <1>1, <2>1, CurrentKept DEF SeenInv, apiVars
<1>2. ASSUME NEW c \in Clients, DirectoryStep(c) PROVE SeenInv'
  BY <1>2, SeenUserHandlers, SeenRoleHandlers DEF DirectoryStep, AdminStep
<1>3. ASSUME NEW c \in Clients, ConfigPageStep(c) PROVE SeenInv'
  <2>1. \A d \in Clients \ {c} : pc'[d] = pc[d] /\ req'[d] = req[d]
    BY <1>3, OthersStay DEF TypeInv, DirInv
  <2>2. UNCHANGED <<authOn, user, role, overtaken>>
    BY <1>3 DEF ConfigPageStep, dirVars
  <2>3. SameAdmins
    BY <2>2 DEF SameAdmins
  <2>4. pc'[c] \notin {"count", "write", "resolve", "dropRole"}
    BY <1>3, ConfigLands DEF SeedLabels, EditLabels
  <2> QED  BY <2>1, <2>2, <2>3, <2>4, CurrentElsewhere, SeenOfRequest
<1>4. ASSUME NEW c \in Clients, RequestFails(c) PROVE SeenInv'
  <2>1. /\ \A d \in Clients \ {c} : pc'[d] = pc[d] /\ req'[d] = req[d]
        /\ pc'[c] = "idle" /\ UNCHANGED <<authOn, user, role, overtaken>>
    BY <1>4, OthersStay
       DEF RequestFails, CallFails, Throws, TypeInv, DirInv, CallTypes
  <2>2. SameAdmins
    BY <2>1 DEF SameAdmins
  <2> QED  BY <2>1, <2>2, CurrentElsewhere, SeenOfRequest
<1>5. ASSUME Dies \/ Boot PROVE SeenInv'
  <2>1. \A c \in Clients : pc'[c] = "idle"
    BY <1>5 DEF Dies, ProcessDies, Boot, RolesInv, NobodyWaits
  <2> QED  BY <2>1, CurrentElsewhere DEF SeenInv
<1>6. ASSUME NEW u \in Users, WindowPasses(u) PROVE SeenInv'
  BY <1>1, <1>6 DEF WindowPasses, dirVars
<1>7. ASSUME NEW s \in session, SessionEnds(s) PROVE SeenInv'
  BY <1>1, <1>7 DEF SessionEnds
<1> QED
  BY <1>1, <1>2, <1>3, <1>4, <1>5, <1>6, <1>7, SeenSignIn
     DEF Next, NextOnPage, vars, dirVars

DirectoryInv == TypeInv /\ RolesInv /\ SeenInv

\* The types, the roles and what the handlers have read hold together in every
\* reachable state.
LEMMA DirectoryAlways == Spec => []DirectoryInv
<1>1. Init => DirectoryInv
  <2>1. Init => SeenInv
    BY DEF Init, ApiInit, SeenInv, Current, SeenIsCurrent, CountIsCurrent,
           RoleIsUnused, Waits
  <2> QED  BY <2>1, InitTyped, RolesInit DEF DirectoryInv
<1>2. DirectoryInv /\ [Next]_vars => DirectoryInv'
  BY NextTyped, RolesNext, SeenNext DEF DirectoryInv
<1> QED  BY <1>1, <1>2, PTL DEF Spec

-----------------------------------------------------------------------------
(***************************************************************************)
(* What a step may do to the row of a user that is not deleted, unless it  *)
(* is the write of an admin handler that is about this user.               *)
(***************************************************************************)
\* The start of the process leaves the codes of the two built-in roles alone.
LEMMA CodesKept ==
  ASSUME TypeInv, Boot, authOn', NEW r \in RoleRows, LiveRole(role, r),
         role[r].code # "super_admin"
  PROVE  role'[r] # None /\ role'[r].code = role[r].code
<1> DEFINE t == BuiltinRoles
<1>1. RoleTable(role)
  BY DEF TypeInv, DirInv, DirTypeOK, CodesUnique, RoleTable
<1>2. role' = RetireLegacy(t)
  BY DEF Boot, Seed
<1>3. RoleTable(t) /\ t[r] # None /\ t[r].code = role[r].code
  BY <1>1, BuiltinTable DEF LiveRole
<1>4. RetireLegacy(t)[r] # None /\ RetireLegacy(t)[r] = t[r]
  BY <1>3, RetireTable
<1> QED  BY <1>2, <1>3, <1>4

\* Nobody else's handler changes the status of a user and, with
\* authentication, an administrator stays one.
LEMMA RowKept ==
  ASSUME DirectoryInv, [Next]_vars, NEW u \in Users, Present(u),
         \A c \in Clients : ~(WriteUser(c) /\ req[c].user = u)
  PROVE  /\ user'[u].state = user[u].state
         /\ authOn /\ authOn' /\ IsAdmin(u) => IsAdmin(u)'
<1>1. user \in [Users -> User] /\ user[u].state # "none"
  BY DEF DirectoryInv, TypeInv, DirInv, DirTypeOK, Present
<1> DEFINE Kept == /\ user'[u].state = user[u].state
                   /\ authOn => /\ role' = role
                                /\ user'[u].roles = user[u].roles
<1>2. SUFFICES ASSUME ~Boot PROVE Kept
  <2>1. CASE ~Boot
    <3>1. Kept
      BY <1>2, <2>1
    <3> QED  BY <3>1 DEF IsAdmin, AdminIn, LiveRole
  <2>2. CASE Boot /\ ~authOn'
    BY <2>2 DEF Boot
  <2>3. CASE Boot /\ authOn'
    <3>1. user'[u].state = user[u].state
      <4>1. \E v \in Users : Present(v)
        OBVIOUS
      <4>2. user' = Migrated(BuiltinRoles)
        BY <2>3, <4>1 DEF Boot, Seed
      <4> QED  BY <1>1, <4>2 DEF Migrated, User
    <3>2. Present(u)'
      BY <3>1 DEF Present
    <3>3. OneRole(u)' /\ (OneRole(u) /\ IsAdmin(u) => user'[u] = user[u])
      BY <2>3, <3>2, SeedRoles DEF DirectoryInv, RolesInv
    <3> SUFFICES ASSUME authOn, IsAdmin(u)
                 PROVE  IsAdmin(u)'
      BY <3>1
    <3>4. OneRole(u) /\ user'[u] = user[u]
      BY <3>3 DEF DirectoryInv, RolesInv, AllOneRole
    <3>5. PICK r \in RoleRows : user[u].roles = {r} /\ GoodRole(r)
      BY <3>4 DEF OneRole
    <3>6. LiveRole(role', r) /\ role'[r].code = role[r].code
      <4>1. role'[r].code = role[r].code
        BY <2>3, <3>5, CodesKept DEF GoodRole, DirectoryInv
      <4>2. PICK q \in RoleRows : user'[u].roles = {q} /\ GoodRole(q)'
        BY <3>3 DEF OneRole
      <4> QED  BY <3>4, <3>5, <4>1, <4>2 DEF GoodRole, LiveRole
    <3>7. user'[u].roles = {r}
      BY <3>4, <3>5
    <3> QED  BY <3>4, <3>5, <3>6, <3>7 DEF IsAdmin, AdminIn
  <2> QED  BY <2>1, <2>2, <2>3
<1>3. CASE UNCHANGED <<authOn, user, role>>
  BY <1>3
<1>4. ASSUME NEW c \in Clients, DirectoryStep(c) PROVE Kept
  <2>1. CASE \/ AdminRequest(c) \/ RoleRequest(c) \/ LoadUser(c)
             \/ ResolveRole(c) \/ CountAdmins(c) \/ ClearSessions(c)
             \/ LoadRole(c) \/ CountUsers(c)
    BY <2>1 DEF AdminRequest, RoleRequest, LoadUser, ResolveRole, CountAdmins,
                ClearSessions, LoadRole, CountUsers, dirVars
  <2>2. CASE WriteUser(c)
    <3>1. /\ req[c].user # u /\ role' = role
          /\ user' = [user EXCEPT ![req[c].user] = Written(req[c])]
      BY <2>2 DEF WriteUser
    <3> QED  BY <1>1, <3>1
  <2>3. CASE InsertUser(c)
    <3>1. /\ role' = role
          /\ \/ UNCHANGED user
             \/ /\ user[req[c].user].state = "none"
                /\ \E row : user' = [user EXCEPT ![req[c].user] = row]
      BY <2>3 DEF InsertUser
    <3> QED  BY <1>1, <3>1
  <2>4. CASE SetPassword(c)
    BY <1>1, <2>4 DEF SetPassword, User
  <2>5. CASE DropRole(c) \/ WriteRole(c)
    <3>1. ~authOn
      BY <2>5 DEF DirectoryInv, RolesInv, NoRolePage, DropRole, WriteRole,
                  RoleLabels
    <3>2. user'[u].state = user[u].state
      <4>1. CASE DropRole(c)
        <5>1. user' = [v \in Users |->
                         [user[v] EXCEPT !.roles = @ \ {req[c].row}]]
          BY <4>1 DEF DropRole
        <5> QED  BY <1>1, <5>1 DEF User
      <4>2. CASE WriteRole(c)
        BY <4>2 DEF WriteRole
      <4> QED  BY <2>5, <4>1, <4>2
    <3> QED  BY <3>1, <3>2
  <2> QED
    BY <1>4, <2>1, <2>2, <2>3, <2>4, <2>5 DEF DirectoryStep, AdminStep
<1>5. ASSUME NEW c \in Clients, SignInStep(c) PROVE Kept
  <2>1. CASE \/ LoginRequest(c) \/ RegisterRequest(c) \/ PasswordRequest(c)
             \/ CheckLimit(c) \/ DropLimit(c) \/ Authenticate(c) \/ ReadLimit(c)
             \/ WriteLimit(c) \/ ClearLimit(c) \/ CreateSession(c) \/ FindRole(c)
             \/ FindName(c) \/ VerifyPassword(c)
    BY <2>1
       DEF LoginRequest, RegisterRequest, PasswordRequest, CheckLimit, DropLimit,
           Authenticate, ReadLimit, WriteLimit, ClearLimit, CreateSession,
           FindRole, FindName, VerifyPassword, dirVars
  <2>2. CASE Register(c)
    <3>1. /\ role' = role
          /\ \/ UNCHANGED user
             \/ /\ user[req[c].user].state = "none"
                /\ \E row : user' = [user EXCEPT ![req[c].user] = row]
      BY <2>2 DEF Register
    <3> QED  BY <1>1, <3>1
  <2>3. CASE StorePassword(c)
    BY <1>1, <2>3 DEF StorePassword, User
  <2> QED  BY <1>5, <2>1, <2>2, <2>3 DEF SignInStep, LoginStep
<1>6. ASSUME NEW c \in Clients, ConfigPageStep(c) \/ RequestFails(c) PROVE Kept
  BY <1>3, <1>6 DEF ConfigPageStep, RequestFails, dirVars
<1>7. ASSUME NEW v \in Users, WindowPasses(v) PROVE Kept
  BY <1>3, <1>7 DEF WindowPasses, dirVars
<1>8. ASSUME NEW s \in session, SessionEnds(s) PROVE Kept
  BY <1>3, <1>8 DEF SessionEnds
<1>9. ASSUME Dies PROVE Kept
  BY <1>3, <1>9 DEF Dies
<1> QED
  BY <1>2, <1>3, <1>4, <1>5, <1>6, <1>7, <1>8, <1>9
     DEF Next, NextOnPage, vars, dirVars

\* The request that writes a user, and what it was.
LEMMA WriterOf ==
  ASSUME DirectoryInv, NEW c \in Clients, WriteUser(c)
  PROVE  /\ pc[c] = "write" /\ req[c] \in UserCall
         /\ req[c].op \in {"update", "delete"}
         /\ user' = [user EXCEPT ![req[c].user] = Written(req[c])]
         /\ user'[req[c].user] = Written(req[c])
         /\ authOn' = authOn /\ role' = role
         /\ \A d \in Clients : WriteUser(d) => d = c
<1>1. pc[c] = "write"
  BY DEF WriteUser
<1>2. UserFits(pc[c], req[c])
  BY <1>1, FitsOf DEF DirectoryInv, TypeInv, DirInv, UserLabels
<1>3. req[c] \in UserCall /\ req[c].op \in {"update", "delete"}
  BY <1>1, <1>2 DEF UserFits
<1>4. /\ user' = [user EXCEPT ![req[c].user] = Written(req[c])]
      /\ user'[req[c].user] = Written(req[c])
      /\ authOn' = authOn /\ role' = role
  <2>1. req[c].user \in Users /\ user \in [Users -> User]
    BY <1>3 DEF UserCall, DirectoryInv, TypeInv, DirInv, DirTypeOK
  <2> QED  BY <2>1 DEF WriteUser
<1>5. ASSUME NEW d \in Clients, WriteUser(d), d # c PROVE FALSE
  <2>1. pc \in [Clients -> Labels]
    BY DEF DirectoryInv, TypeInv, DirInv, CallTypes
  <2>2. pc[c] = "write" /\ pc'[c] \in {"idle", "clear"}
    BY OwnStep DEF WriteUser, DirectoryInv
  <2>3. \E l : pc' = [pc EXCEPT ![d] = l]
    BY <1>5 DEF WriteUser, Goto, Finish
  <2> QED  BY <1>5, <2>1, <2>2, <2>3
<1> QED  BY <1>1, <1>3, <1>4, <1>5

\* ensureNotLastAdmin works but for the race it leaves open: the last active
\* administrator is lost only by a request that another commit to the users
\* overtook between reading its user and writing it.  (A demotion counts in
\* the transaction, so it fails when it stands alone; and what is not taken
\* for a demotion was judged by the row as it still is.)
THEOREM LastAdminStays == Spec => LastAdminKept
<1> DEFINE Step == authOn /\ authOn' /\ ActiveAdmins # {} /\ ActiveAdmins' = {}
                   => \E c \in overtaken : pc[c] = "write"
<1>1. ASSUME DirectoryInv, [Next]_vars, authOn, authOn', ActiveAdmins # {},
             ActiveAdmins' = {}, ~ \E c \in overtaken : pc[c] = "write"
      PROVE  FALSE
  <2>1. PICK a \in ActiveAdmins : TRUE
    BY <1>1
  <2>2. ASSUME NEW u \in ActiveAdmins
        PROVE  \E c \in Clients : WriteUser(c) /\ req[c].user = u
    <3> SUFFICES ASSUME ~ \E c \in Clients : WriteUser(c) /\ req[c].user = u
                 PROVE  u \in ActiveAdmins'
      BY <1>1
    <3>1. u \in Users /\ Present(u) /\ user[u].state = "active" /\ IsAdmin(u)
      BY DEF ActiveAdmins, Present
    <3>2. user'[u].state = "active" /\ IsAdmin(u)'
      BY <1>1, <3>1, RowKept
    <3> QED  BY <3>1, <3>2 DEF ActiveAdmins
  <2>3. PICK c \in Clients : WriteUser(c) /\ req[c].user = a
    BY <2>2
  <2> DEFINE r == req[c]
  <2>4. /\ pc[c] = "write" /\ r \in UserCall /\ r.op \in {"update", "delete"}
        /\ user'[a] = Written(r) /\ role' = role
        /\ \A d \in Clients : WriteUser(d) => d = c
    BY <1>1, <2>3, WriterOf
  <2>5. ActiveAdmins = {a}
    BY <2>1, <2>2, <2>3, <2>4
  <2>6. Current(c)
    BY <1>1, <2>4 DEF DirectoryInv, SeenInv
  <2>7. a \in Users /\ user[a].state = "active" /\ IsAdmin(a)
    BY <2>1 DEF ActiveAdmins
  <2>8. r.seen.state = "active" /\ r.seen.admin = TRUE
    <3>1. IsAdmin(a) \in BOOLEAN
      BY DEF IsAdmin, AdminIn
    <3>2. r.seen.state = user[a].state /\ r.seen.admin = IsAdmin(a)
      BY <1>1, <2>3, <2>4, <2>6 DEF Current, SeenIsCurrent, Waits
    <3> QED  BY <2>7, <3>1, <3>2
  <2>9. ~Demotes(r)
    <3>1. Cardinality(ActiveAdmins) = 1
      BY <2>5, FS_Singleton
    <3> QED  BY <1>1, <2>4, <2>6, <3>1 DEF Current, CountIsCurrent
  <2>10. NextState(r) = "active" /\ r.code # "user" /\ r.op = "update"
    BY <2>4, <2>8, <2>9 DEF Demotes, NextState
  <2>11. /\ user'[a].state = "active"
         /\ user'[a].roles = IF r.code = None THEN user[a].roles ELSE {r.row}
    <3>1. user[a] \in User
      BY <1>1, <2>7 DEF DirectoryInv, TypeInv, DirInv, DirTypeOK
    <3> QED  BY <2>3, <2>4, <2>7, <2>10, <3>1 DEF Written, User
  <2>12. IsAdmin(a)'
    <3>1. CASE r.code = None
      BY <2>4, <2>7, <2>11, <3>1 DEF IsAdmin, AdminIn
    <3>2. CASE r.code # None
      <4>1. r.code = "admin"
        BY <2>4, <2>10, <3>2 DEF UserCall
      <4>2. GoodRole(r.row) /\ role[r.row].code = "admin"
        BY <1>1, <2>4, <3>2, <4>1
           DEF DirectoryInv, RolesInv, ChosenIsGood, Chosen
      <4> QED
        BY <2>4, <2>11, <3>2, <4>2
           DEF IsAdmin, AdminIn, GoodRole, Alias, Codes
    <3> QED  BY <3>1, <3>2
  <2>13. a \in ActiveAdmins'
    BY <2>7, <2>11, <2>12 DEF ActiveAdmins
  <2> QED  BY <1>1, <2>13
<1>2. DirectoryInv /\ [Next]_vars => [Step]_vars
  BY <1>1
<1> QED  BY <1>2, DirectoryAlways, PTL DEF Spec, LastAdminKept

\* A disabled user becomes active only because a request asks for it or
\* because one that was overtaken writes back the status it had read.
THEOREM EnablingIsAsked == Spec => EnabledAsAsked
<1> DEFINE Step == \A u \in Users :
          user[u].state = "disabled" /\ user'[u].state = "active"
          => \E c \in Clients : /\ pc[c] = "write" /\ req[c].user = u
                                /\ req[c].status = "active" \/ c \in overtaken
<1>1. ASSUME DirectoryInv, [Next]_vars, NEW u \in Users,
             user[u].state = "disabled", user'[u].state = "active"
      PROVE  \E c \in Clients : /\ pc[c] = "write" /\ req[c].user = u
                                /\ req[c].status = "active" \/ c \in overtaken
  <2>1. PICK c \in Clients : WriteUser(c) /\ req[c].user = u
    <3>1. Present(u)
      BY <1>1 DEF Present
    <3> QED  BY <1>1, <3>1, RowKept
  <2> DEFINE r == req[c]
  <2>2. /\ pc[c] = "write" /\ r \in UserCall /\ r.op \in {"update", "delete"}
        /\ user'[u] = Written(r)
    BY <1>1, <2>1, WriterOf
  <2>3. user[u] \in User
    BY <1>1 DEF DirectoryInv, TypeInv, DirInv, DirTypeOK
  <2>4. r.op = "update" /\ NextState(r) = "active"
    <3>1. r.op # "delete"
      BY <1>1, <2>1, <2>2, <2>3 DEF Written, User
    <3> QED  BY <1>1, <2>1, <2>2, <2>3, <3>1 DEF Written, User
  <2>5. CASE r.status # None
    BY <2>1, <2>2, <2>4, <2>5 DEF NextState
  <2>6. CASE r.status = None
    <3>1. r.seen.state = "active"
      BY <2>4, <2>6 DEF NextState
    <3>2. ~Current(c)
      BY <1>1, <2>1, <2>2, <3>1 DEF Current, SeenIsCurrent, Waits
    <3> QED  BY <1>1, <2>1, <2>2, <3>2 DEF DirectoryInv, SeenInv
  <2> QED  BY <2>5, <2>6
<1>2. DirectoryInv /\ [Next]_vars => [Step]_vars
  BY <1>1
<1> QED  BY <1>2, DirectoryAlways, PTL DEF Spec, EnabledAsAsked

\* Deleting a role takes it from nobody who had it when its users were
\* counted: whoever loses it was given it by a commit that overtook.
THEOREM RoleDeletionIsSafe == Spec => RoleDeletionSpares
<1> DEFINE Step == \A c \in Clients, u \in Users :
          /\ pc[c] = "dropRole" /\ pc'[c] = "idle"
          /\ Present(u) /\ user'[u].roles # user[u].roles
          => c \in overtaken
<1>1. ASSUME DirectoryInv, [Next]_vars, NEW c \in Clients, NEW u \in Users,
             pc[c] = "dropRole", pc'[c] = "idle", Present(u),
             user'[u].roles # user[u].roles, c \notin overtaken
      PROVE  FALSE
  <2>1. Holders(req[c].row) = {}
    BY <1>1 DEF DirectoryInv, SeenInv, Current, RoleIsUnused
  <2>2. ~Boot
    BY <1>1 DEF DirectoryInv, RolesInv, NobodyWaits, Boot
  <2>3. ASSUME NEW d \in Clients,
               DirectoryStep(d) \/ SignInStep(d) \/ ConfigPageStep(d)
        PROVE  d = c
    BY <1>1, <2>3, OthersStay DEF DirectoryInv, TypeInv, DirInv
  <2>4. ASSUME DirectoryStep(c) PROVE DropRole(c)
    BY <1>1, <2>4
       DEF DirectoryStep, AdminStep, AdminRequest, RoleRequest, LoadUser,
           ResolveRole, CountAdmins, WriteUser, InsertUser, SetPassword,
           ClearSessions, LoadRole, CountUsers, WriteRole, Arrive
  <2>5. ~SignInStep(c)
    BY <1>1
       DEF SignInStep, LoginStep, LoginRequest, RegisterRequest, PasswordRequest,
           CheckLimit, DropLimit, Authenticate, ReadLimit, WriteLimit,
           ClearLimit, CreateSession, FindRole, FindName, Register,
           VerifyPassword, StorePassword, Arrive
  <2>6. ASSUME NEW d \in Clients, ConfigPageStep(d) PROVE user' = user
    BY <2>6 DEF ConfigPageStep, dirVars
  <2>7. ASSUME DropRole(c) PROVE user'[u].roles = user[u].roles
    <3>1. user' = [v \in Users |->
                     [user[v] EXCEPT !.roles = @ \ {req[c].row}]]
      BY <2>7 DEF DropRole
    <3>2. user[u] \in User
      BY <1>1 DEF DirectoryInv, TypeInv, DirInv, DirTypeOK
    <3>3. req[c].row \notin user[u].roles
      BY <1>1, <2>1 DEF Holders
    <3>4. user'[u].roles = user[u].roles \ {req[c].row}
      BY <3>1, <3>2 DEF User
    <3> QED  BY <3>3, <3>4
  <2>8. user' # user
    BY <1>1
  <2> QED
    BY <1>1, <2>2, <2>3, <2>4, <2>5, <2>6, <2>7, <2>8
       DEF Next, NextOnPage, vars, dirVars, RequestFails, Dies, WindowPasses,
           SessionEnds
<1>2. DirectoryInv /\ [Next]_vars => [Step]_vars
  BY <1>1
<1> QED  BY <1>2, DirectoryAlways, PTL DEF Spec, RoleDeletionSpares

=============================================================================
