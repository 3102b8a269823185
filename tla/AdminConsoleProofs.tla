--------------------------- MODULE AdminConsoleProofs ---------------------------
(***************************************************************************)
(* Theorems about AdminConsole, for any number of clients and users, any   *)
(* configuration keys and values, any limits and any bounds: its types,    *)
(* the versions of the configuration, the limit on guesses and the         *)
(* sessions of an account.                                                 *)
(***************************************************************************)
EXTENDS AdminConsole, FiniteSetTheorems, TLAPS

-----------------------------------------------------------------------------
(***************************************************************************)
(* Which request may be at which await.  TypeOK alone is not inductive: a  *)
(* handler relies on what it has filled in on the way.                     *)
(***************************************************************************)
UserLabels     == {"load", "resolve", "count", "write", "insert",
                   "setPassword", "clear"}
RoleLabels     == {"loadRole", "countUsers", "dropRole", "writeRole"}
LoginLabels    == {"checkLimit", "dropLimit", "authenticate", "readLimit",
                   "writeLimit", "clearLimit"}
RegisterLabels == {"findRole", "findName", "register"}
PasswordLabels == {"verifyPassword", "storePassword"}
SeedLabels     == {"seedConfig", "insertItems", "findBuiltin",
                   "insertBuiltin", "completeItems", "reviseSeed", "revise"}
EditLabels     == {"readVersion", "firstVersion", "readItems",
                   "checkVersion", "writeItems"}

Seen == [state : {"active", "disabled"}, admin : BOOLEAN]

UserFits(l, r) ==
    /\ r \in UserCall
    /\ l \in {"load", "resolve"} /\ r.op = "create" =>
          r.status # None /\ r.code # None
    /\ l = "load" /\ r.op = "delete" => r.code = None
    /\ l = "resolve" => r.op \in {"create", "update"} /\ r.code # None
    /\ l = "insert" => /\ r.op = "create" /\ r.status # None
                       /\ r.row \in RoleRows /\ r.code # None
    /\ l \in {"count", "write"} => /\ r.op \in {"update", "delete"}
                                   /\ r.code # None => r.row \in RoleRows
    /\ \/ l \in {"count", "write"}
       \/ l = "resolve" /\ r.op = "update"
       => r.seen \in Seen

RoleFits(l, r) ==
    /\ r \in RoleCall
    /\ l \in {"countUsers", "dropRole"} => r.op = "dropRole"

LoginFits(l, r) ==
    /\ r \in LoginCall
    /\ l = "dropLimit" => r.row \in LimitRow /\ r.row.expired
    /\ l = "clearLimit" => r.pwd \in Nat

RegisterFits(l, r) ==
    /\ r \in RegisterCall
    /\ l \in {"findName", "register"} => r.row \in RoleRows

EditFits(l, r) ==
    /\ r \in EditCall
    /\ l = "writeItems" => r.change \in [OtherKeys -> Values \cup {None}]

CallFits(l, r) ==
    \/ l = "idle" /\ r = None
    \/ l \in UserLabels /\ UserFits(l, r)
    \/ l \in RoleLabels /\ RoleFits(l, r)
    \/ l \in LoginLabels /\ LoginFits(l, r)
    \/ l = "createSession" /\ r \in LoginCall \cup RegisterCall /\ r.pwd \in Nat
    \/ l \in RegisterLabels /\ RegisterFits(l, r)
    \/ l \in PasswordLabels /\ r \in PasswordCall
    \/ l \in SeedLabels /\ r \in EditCall \cup MarketCall
    \/ l \in EditLabels /\ EditFits(l, r)
    \/ l = "writeMarket" /\ r \in MarketCall

Labels == {"idle", "createSession", "writeMarket"} \cup UserLabels
          \cup RoleLabels \cup LoginLabels \cup RegisterLabels
          \cup PasswordLabels \cup SeedLabels \cup EditLabels

CallTypes ==
    /\ pc \in [Clients -> Labels]
    /\ req \in [Clients -> Requests \cup {None}]
    /\ up \in BOOLEAN
    /\ requests \in 0 .. MaxRequests
    /\ faults \in 0 .. MaxFaults
    /\ \A c \in Clients : CallFits(pc[c], req[c])

\* What CallFits says of labels and requests in general.
LEMMA FitsTyped ==
  ASSUME NEW l, NEW r, CallFits(l, r)
  PROVE  /\ l \in Labels /\ r \in Requests \cup {None}
         /\ l = "idle" <=> r = None
  BY RequestConstants
     DEF CallFits, Labels, Requests, UserFits, RoleFits, LoginFits, RegisterFits,
         EditFits, UserLabels, RoleLabels, LoginLabels, RegisterLabels, PasswordLabels,
         SeedLabels, EditLabels

\* A handler that goes on with what fits its next await keeps the types.
LEMMA GotoTyped ==
  ASSUME CallTypes, NEW c \in Clients, NEW l, NEW r, Goto(c, l, r),
         CallFits(l, r)
  PROVE  CallTypes'
<1>1. l \in Labels /\ r \in Requests \cup {None}
  BY FitsTyped
<1>2. /\ pc' \in [Clients -> Labels]
      /\ req' \in [Clients -> Requests \cup {None}]
  BY <1>1 DEF CallTypes, Goto
<1>3. \A d \in Clients : CallFits(pc'[d], req'[d])
  BY DEF CallTypes, Goto
<1> QED  BY <1>2, <1>3 DEF CallTypes, Goto

\* So does one that returns,
LEMMA FinishTyped ==
  ASSUME CallTypes, NEW c \in Clients, Finish(c)
  PROVE  CallTypes'
  BY GotoTyped DEF Finish, CallFits

\* ... a request that arrives,
LEMMA ArriveTyped ==
  ASSUME CallTypes, NEW c \in Clients, NEW l, NEW r, Arrive(c, l, r),
         CallFits(l, r)
  PROVE  CallTypes'
<1>1. l \in Labels /\ r \in Requests \cup {None}
  BY FitsTyped
<1>2. /\ pc' \in [Clients -> Labels]
      /\ req' \in [Clients -> Requests \cup {None}]
  BY <1>1 DEF CallTypes, Arrive
<1>3. \A d \in Clients : CallFits(pc'[d], req'[d])
  BY DEF CallTypes, Arrive
<1>4. requests' \in 0 .. MaxRequests
  BY ApiConstants DEF CallTypes, Arrive
<1> QED  BY <1>2, <1>3, <1>4 DEF CallTypes, Arrive

\* ... and what ends requests from outside.
LEMMA EndTyped ==
  ASSUME CallTypes,
         \/ ProcessDies
         \/ \E c \in Clients : CallFails(c)
         \/ Boot
  PROVE  CallTypes'
<1>1. ASSUME NEW c \in Clients, CallFails(c) PROVE CallTypes'
  <2>1. CallFits("idle", None) /\ "idle" \in Labels
    BY DEF CallFits, Labels
  <2>2. /\ pc' \in [Clients -> Labels]
        /\ req' \in [Clients -> Requests \cup {None}]
        /\ \A d \in Clients : CallFits(pc'[d], req'[d])
    BY <1>1, <2>1 DEF CallTypes, CallFails, Throws
  <2>3. faults' \in 0 .. MaxFaults
    BY <1>1, ApiConstants DEF CallTypes, CallFails, Throws, Faults
  <2> QED  BY <1>1, <2>2, <2>3 DEF CallTypes, CallFails, Throws
<1>2. ASSUME ProcessDies PROVE CallTypes'
  <2>1. CallFits("idle", None) /\ "idle" \in Labels
    BY DEF CallFits, Labels
  <2>2. /\ pc' \in [Clients -> Labels]
        /\ req' \in [Clients -> Requests \cup {None}]
        /\ \A d \in Clients : CallFits(pc'[d], req'[d])
    BY <1>2, <2>1 DEF CallTypes, ProcessDies
  <2>3. faults' \in 0 .. MaxFaults
    BY <1>2, ApiConstants DEF CallTypes, ProcessDies, Faults
  <2> QED  BY <1>2, <2>2, <2>3 DEF CallTypes, ProcessDies
<1>3. ASSUME Boot PROVE CallTypes'
  BY <1>3 DEF CallTypes, Boot
<1> QED  BY <1>1, <1>2, <1>3

-----------------------------------------------------------------------------
(***************************************************************************)
(* The tables of users, roles and sessions.  Codes of roles are unique,    *)
(* which the start of the process relies on, and a row of a role that a    *)
(* request has loaded is not removed.                                      *)
(***************************************************************************)
CodesUnique ==
    \A r, q \in RoleRows :
        role[r] # None /\ role[q] # None /\ role[r].code = role[q].code => r = q

RolesThere ==
    \A c \in Clients :
        /\ pc[c] \in {"countUsers", "dropRole", "writeRole"}
        /\ req[c].op # "addRole"
        => role[req[c].row] # None

DirInv == CallTypes /\ DirTypeOK /\ CodesUnique /\ RolesThere

\* What a table of roles must be for the start of the process to repair it.
RoleTable(t) ==
    /\ t \in [RoleRows -> RoleRow \cup {None}]
    /\ \A r, q \in RoleRows :
          t[r] # None /\ t[q] # None /\ t[r].code = t[q].code => r = q

\* RowOf finds the row of a code that has one.
LEMMA RowOfFound ==
  ASSUME NEW t, NEW code, HasRow(t, code)
  PROVE  /\ RowOf(t, code) \in RoleRows
         /\ t[RowOf(t, code)] # None
         /\ t[RowOf(t, code)].code = code
  BY DEF HasRow, RowOf

\* There are as many rows as codes: one that has no row leaves one free.
LEMMA FreeRowFound ==
  ASSUME NEW t, RoleTable(t), NEW code \in Codes, ~HasRow(t, code)
  PROVE  FreeRow(t) \in RoleRows /\ t[FreeRow(t)] = None
<1>1. \E r \in RoleRows : t[r] = None
  <2>1. SUFFICES ASSUME \A r \in RoleRows : t[r] # None
                 PROVE  FALSE
    OBVIOUS
  <2>2. \A r \in RoleRows : t[r].code \in Codes \ {code}
    BY <2>1 DEF RoleTable, RoleRow, HasRow
  <2>3. /\ t[1].code \in Codes \ {code} /\ t[2].code \in Codes \ {code}
        /\ t[3].code \in Codes \ {code} /\ t[4].code \in Codes \ {code}
    BY <2>2 DEF RoleRows
  <2>4. /\ t[1].code # t[2].code /\ t[1].code # t[3].code
        /\ t[1].code # t[4].code /\ t[2].code # t[3].code
        /\ t[2].code # t[4].code /\ t[3].code # t[4].code
    BY <2>1 DEF RoleTable, RoleRows
  <2> QED  BY <2>3, <2>4 DEF Codes
<1>2. \E r \in RoleRows : t[r] = None /\ \A q \in RoleRows : t[q] = None => r <= q
  <2>1. \/ t[1] = None
        \/ t[1] # None /\ t[2] = None
        \/ t[1] # None /\ t[2] # None /\ t[3] = None
        \/ t[1] # None /\ t[2] # None /\ t[3] # None /\ t[4] = None
    BY <1>1 DEF RoleRows
  <2> QED  BY <2>1 DEF RoleRows
<1> QED  BY <1>2 DEF FreeRow

\* The upsert of a built-in role leaves a live row of its code and what the
\* other rows say.
LEMMA UpsertTable ==
  ASSUME NEW t, RoleTable(t), NEW code \in Codes
  PROVE  /\ RoleTable(Upsert(t, code))
         /\ HasRow(Upsert(t, code), code)
         /\ \A r \in RoleRows :
               Upsert(t, code)[r] # None /\ Upsert(t, code)[r].code = code
               => ~Upsert(t, code)[r].deleted
         /\ \A r \in RoleRows :
               t[r] # None => /\ Upsert(t, code)[r] # None
                              /\ Upsert(t, code)[r].code = t[r].code
                              /\ t[r].code # code =>
                                    Upsert(t, code)[r] = t[r]
                              /\ ~t[r].deleted =>
                                    ~Upsert(t, code)[r].deleted
         /\ \A r \in RoleRows :
               t[r] = None /\ Upsert(t, code)[r] # None
               => Upsert(t, code)[r].code = code
<1>1. CASE HasRow(t, code)
  <2> DEFINE x == RowOf(t, code)
  <2>1. x \in RoleRows /\ t[x] # None /\ t[x].code = code
    BY <1>1, RowOfFound
  <2>2. t[x] \in RoleRow
    BY <2>1 DEF RoleTable
  <2>3. [t[x] EXCEPT !.deleted = FALSE] \in RoleRow
    BY <2>2 DEF RoleRow
  <2>4. Upsert(t, code) = [t EXCEPT ![x] = [t[x] EXCEPT !.deleted = FALSE]]
    BY <1>1 DEF Upsert, RoleTable
  <2> HIDE DEF x
  <2>5. /\ [t[x] EXCEPT !.deleted = FALSE].code = code
        /\ [t[x] EXCEPT !.deleted = FALSE].deleted = FALSE
        /\ [t[x] EXCEPT !.deleted = FALSE] # None
    BY <2>1, <2>2, <2>3, NullIsNoRole DEF RoleRow
  <2> DEFINE n == [t[x] EXCEPT !.deleted = FALSE]
  <2> HIDE DEF n
  <2> QED
    BY <2>1, <2>3, <2>4, <2>5 DEF RoleTable, HasRow, n
<1>2. CASE ~HasRow(t, code)
  <2> DEFINE x == FreeRow(t)
             n == [code |-> code, deleted |-> FALSE]
  <2>1. x \in RoleRows /\ t[x] = None
    BY <1>2, FreeRowFound
  <2>2. n \in RoleRow /\ n # None /\ n.code = code /\ n.deleted = FALSE
    <3>1. n \in RoleRow
      BY DEF RoleRow
    <3> QED  BY <3>1, NullIsNoRole
  <2>3. Upsert(t, code) = [t EXCEPT ![x] = n]
    BY <1>2 DEF Upsert
  <2>4. \A r \in RoleRows : t[r] # None => t[r].code # code
    BY <1>2 DEF HasRow
  <2> DEFINE u == [t EXCEPT ![x] = n]
  <2>5. /\ u[x] = n
        /\ \A r \in RoleRows \ {x} : u[r] = t[r]
        /\ u \in [RoleRows -> RoleRow \cup {None}]
    BY <2>1, <2>2 DEF RoleTable
  <2> HIDE DEF x, n, u
  <2>6. RoleTable(u)
    BY <2>1, <2>2, <2>4, <2>5 DEF RoleTable
  <2>7. Upsert(t, code) = u
    BY <2>3 DEF u
  <2>8. HasRow(u, code)
    BY <2>1, <2>2, <2>5 DEF HasRow
  <2>9. \A r \in RoleRows : r # x => u[r] = t[r]
    BY <2>5
  <2> QED
    BY <2>1, <2>2, <2>4, <2>5, <2>6, <2>7, <2>8, <2>9
<1> QED  BY <1>1, <1>2

\* A step of a request that removes no row of a role.
LEMMA RolesThereGoto ==
  ASSUME CallTypes, RolesThere, NEW c \in Clients, NEW l, NEW r, Goto(c, l, r),
         \A x \in RoleRows : role[x] # None => role'[x] # None,
         l \in {"countUsers", "dropRole", "writeRole"} /\ r.op # "addRole"
            => role'[r.row] # None
  PROVE  RolesThere'
<1> SUFFICES ASSUME NEW d \in Clients,
                    pc'[d] \in {"countUsers", "dropRole", "writeRole"},
                    req'[d].op # "addRole"
             PROVE  role'[req'[d].row] # None
  BY DEF RolesThere
<1>1. CASE d = c
  BY <1>1 DEF Goto, CallTypes
<1>2. CASE d # c
  <2>1. pc'[d] = pc[d] /\ req'[d] = req[d]
    BY <1>2 DEF Goto, CallTypes
  <2>2. CallFits(pc[d], req[d])
    BY DEF CallTypes
  <2>3. req[d] \in RoleCall
    BY <2>1, <2>2
       DEF CallFits, RoleFits, UserLabels, RoleLabels, LoginLabels,
           RegisterLabels, PasswordLabels, SeedLabels, EditLabels
  <2>4. req[d].row \in RoleRows /\ role[req[d].row] # None
    BY <2>1, <2>3 DEF RolesThere, RoleCall
  <2> QED  BY <2>1, <2>4
<1> QED  BY <1>1, <1>2

\* What the labels say of the requests.
LEMMA FitsOf ==
  ASSUME CallTypes, NEW c \in Clients
  PROVE  /\ pc[c] = "idle" => req[c] = None
         /\ pc[c] \in UserLabels => UserFits(pc[c], req[c])
         /\ pc[c] \in RoleLabels => RoleFits(pc[c], req[c])
         /\ pc[c] \in LoginLabels => LoginFits(pc[c], req[c])
         /\ pc[c] = "createSession" => /\ req[c] \in LoginCall \cup RegisterCall
                                       /\ req[c].pwd \in Nat
         /\ pc[c] \in RegisterLabels => RegisterFits(pc[c], req[c])
         /\ pc[c] \in PasswordLabels => req[c] \in PasswordCall
         /\ pc[c] \in SeedLabels => req[c] \in EditCall \cup MarketCall
         /\ pc[c] \in EditLabels => EditFits(pc[c], req[c])
         /\ pc[c] = "writeMarket" => req[c] \in MarketCall
<1>1. CallFits(pc[c], req[c])
  BY DEF CallTypes
<1> QED
  BY <1>1
     DEF CallFits, UserLabels, RoleLabels, LoginLabels, RegisterLabels,
         PasswordLabels, SeedLabels, EditLabels

\* The rows that the handlers write are rows of users.
LEMMA UserRowTyped ==
  ASSUME NEW o \in User
  PROVE  /\ \A s \in States : [o EXCEPT !.state = s] \in User
         /\ \A R \in SUBSET RoleRows : [o EXCEPT !.roles = R] \in User
         /\ \A s \in States, R \in SUBSET RoleRows :
               [o EXCEPT !.state = s, !.roles = R] \in User
         /\ \A n \in Nat : [o EXCEPT !.pwd = n] \in User
  BY DEF User

\* Requests for the pages of users and roles.
LEMMA DirectoryRequests ==
  ASSUME DirInv, NEW c \in Clients, AdminRequest(c) \/ RoleRequest(c)
  PROVE  DirInv'
<1>1. ASSUME AdminRequest(c) PROVE DirInv'
  <2>1. PICK u \in Users, op \in {"create", "update", "reset", "delete"} :
           \E r \in UserCalls(op, u) : Arrive(c, "load", r)
    BY <1>1 DEF AdminRequest
  <2>2. PICK r \in UserCalls(op, u) : Arrive(c, "load", r)
    BY <2>1
  <2>3. CallFits("load", r)
    BY DEF UserCalls, UserCall, CallFits, UserFits, UserLabels
  <2>4. CallTypes'
    BY <2>2, <2>3, ArriveTyped DEF DirInv
  <2>5. RolesThere'
    BY <1>1, <2>2 DEF DirInv, CallTypes, RolesThere, Arrive, AdminRequest, dirVars
  <2> QED
    BY <1>1, <2>4, <2>5
       DEF DirInv, AdminRequest, dirVars, DirTypeOK, CodesUnique
<1>2. ASSUME RoleRequest(c) PROVE DirInv'
  <2>1. PICK op \in {"addRole", "renameRole", "dropRole"}, x \in RoleRows,
             code \in {"user", "other"} :
           Arrive(c, "loadRole", [op |-> op, row |-> x, code |-> code])
    BY <1>2 DEF RoleRequest
  <2>2. CallFits("loadRole", [op |-> op, row |-> x, code |-> code])
    BY DEF RoleCall, RoleFits, Codes, CallFits, RoleLabels
  <2>3. CallTypes'
    BY <2>1, <2>2, ArriveTyped DEF DirInv
  <2>4. RolesThere'
    BY <1>2, <2>1 DEF DirInv, CallTypes, RolesThere, Arrive, RoleRequest, dirVars
  <2> QED
    BY <1>2, <2>3, <2>4
       DEF DirInv, RoleRequest, dirVars, DirTypeOK, CodesUnique
<1> QED  BY <1>1, <1>2

\* The handlers over users.
LEMMA UserHandlers ==
  ASSUME DirInv, NEW c \in Clients,
         \/ LoadUser(c) \/ ResolveRole(c) \/ CountAdmins(c) \/ WriteUser(c)
         \/ InsertUser(c) \/ SetPassword(c) \/ ClearSessions(c)
  PROVE  DirInv'
<1> DEFINE r == req[c]
<1> USE DEF DirInv
<1>1. pc[c] \in UserLabels /\ UserFits(pc[c], r)
  BY FitsOf
     DEF UserLabels, LoadUser, ResolveRole, CountAdmins, WriteUser, InsertUser,
         SetPassword, ClearSessions
<1>2. /\ r \in UserCall /\ r.user \in Users
      /\ user[r.user] \in User
  BY <1>1 DEF UserFits, UserCall, DirTypeOK
<1>3. ASSUME LoadUser(c) PROVE DirInv'
  <2> DEFINE loaded == [r EXCEPT !.seen = [state |-> user[r.user].state,
                                           admin |-> IsAdmin(r.user)]]
  <2>1. IsAdmin(r.user) \in BOOLEAN
    BY DEF IsAdmin, AdminIn
  <2>2. Present(r.user) => loaded \in UserCall /\ loaded.seen \in Seen
    BY <1>2, <2>1 DEF Present, UserCall, Seen, States
  <2>3. /\ loaded.op = r.op /\ loaded.code = r.code
        /\ loaded.status = r.status
    BY <1>2 DEF UserCall
  <2>4. pc[c] = "load" /\ r.op \in {"create", "update", "reset", "delete"}
    BY <1>2, <1>3 DEF LoadUser, UserCall
  <2>5. CallTypes'
    <3>1. CASE r.op = "create" /\ user[r.user].state = "none"
      <4>1. CallFits("resolve", r)
        BY <1>1, <2>4, <3>1 DEF UserFits, UserLabels, CallFits
      <4> QED  BY <1>3, <3>1, <4>1, GotoTyped DEF LoadUser
    <3>2. CASE r.op # "create" /\ Present(r.user)
      <4>1. r.op = "reset" => CallFits("setPassword", loaded)
        BY <2>2, <2>3, <3>2 DEF CallFits, UserFits, UserLabels
      <4>2. r.op = "update" /\ r.code # None => CallFits("resolve", loaded)
        BY <2>2, <2>3, <3>2 DEF CallFits, UserFits, UserLabels
      <4>3. r.op = "update" /\ r.code = None => CallFits("count", loaded)
        BY <2>2, <2>3, <3>2 DEF CallFits, UserFits, UserLabels
      <4>4. r.op = "delete" /\ r.code = None => CallFits("count", loaded)
        BY <2>2, <2>3, <3>2 DEF CallFits, UserFits, UserLabels
      <4>5. r.op = "delete" => r.code = None
        BY <1>1, <2>4 DEF UserFits
      <4> QED
        BY <1>3, <2>4, <3>2, <4>1, <4>2, <4>3, <4>4, <4>5, GotoTyped
           DEF LoadUser
    <3>3. CASE ~(r.op = "create" /\ user[r.user].state = "none")
               /\ ~(r.op # "create" /\ Present(r.user))
      BY <1>3, <3>3, FinishTyped DEF LoadUser
    <3> QED  BY <3>1, <3>2, <3>3
  <2>6. RolesThere'
    BY <1>3, <2>4, RolesThereGoto DEF LoadUser, Finish
  <2> QED
    BY <1>3, <2>5, <2>6 DEF LoadUser, ReadsAfresh, DirTypeOK, CodesUnique
<1>4. ASSUME ResolveRole(c) PROVE DirInv'
  <2>1. \/ Finish(c)
        \/ \E x \in RoleRows :
              Goto(c, IF r.op = "create" THEN "insert" ELSE "count",
                   [r EXCEPT !.row = x])
    BY <1>4 DEF ResolveRole
  <2>2. CallTypes'
    <3>1. ASSUME NEW x \in RoleRows
          PROVE  CallFits(IF r.op = "create" THEN "insert" ELSE "count",
                          [r EXCEPT !.row = x])
      <4>1. /\ [r EXCEPT !.row = x] \in UserCall
            /\ [r EXCEPT !.row = x].row = x
            /\ [r EXCEPT !.row = x].op = r.op
            /\ [r EXCEPT !.row = x].code = r.code
            /\ [r EXCEPT !.row = x].status = r.status
            /\ [r EXCEPT !.row = x].seen = r.seen
        BY <1>2 DEF UserCall
      <4> HIDE DEF r
      <4>2. pc[c] = "resolve"
        BY <1>4 DEF ResolveRole
      <4> QED  BY <1>1, <4>1, <4>2 DEF CallFits, UserFits, UserLabels
    <3> QED  BY <2>1, <3>1, GotoTyped, FinishTyped
  <2>3. RolesThere'
    BY <1>4, <2>1, RolesThereGoto DEF ResolveRole, Finish, dirVars
  <2> QED
    BY <1>4, <2>2, <2>3 DEF ResolveRole, dirVars, DirTypeOK, CodesUnique
<1>5. ASSUME CountAdmins(c) PROVE DirInv'
  <2>1. CallFits("write", r)
    BY <1>1, <1>5 DEF CountAdmins, CallFits, UserFits, UserLabels
  <2>2. CallTypes'
    BY <1>5, <2>1, GotoTyped, FinishTyped DEF CountAdmins
  <2>3. RolesThere'
    BY <1>5, RolesThereGoto DEF CountAdmins, Finish, dirVars
  <2> QED
    BY <1>5, <2>2, <2>3 DEF CountAdmins, dirVars, DirTypeOK, CodesUnique
<1>6. ASSUME WriteUser(c) PROVE DirInv'
  <2>1. /\ r.op \in {"update", "delete"}
        /\ r.code # None => r.row \in RoleRows
        /\ r.seen \in Seen
    BY <1>1, <1>6 DEF WriteUser, UserFits
  <2>2. NextState(r) \in States
    BY <1>2, <2>1 DEF NextState, UserCall, Seen, States
  <2>3. Written(r) \in User
    <3> HIDE DEF r
    <3>1. user[r.user].roles \in SUBSET RoleRows
      BY <1>2 DEF User
    <3>2. CASE r.op = "delete"
      <4>1. [user[r.user] EXCEPT !.state = "deleted", !.roles = {}] \in User
        BY <1>2 DEF User, States
      <4>2. Written(r) = [user[r.user] EXCEPT !.state = "deleted", !.roles = {}]
        BY <3>2 DEF Written
      <4> QED  BY <4>1, <4>2, Zenon
    <3>3. CASE r.op # "delete"
      <4> DEFINE o == user[r.user]
                 s == IF o.state = "deleted" THEN o.state ELSE NextState(r)
                 R == IF r.code = None THEN o.roles ELSE {r.row}
      <4>1. Written(r) = [o EXCEPT !.state = s, !.roles = R]
        BY <3>3 DEF Written
      <4>2. o \in User /\ s \in States /\ R \in SUBSET RoleRows
        BY <1>2, <2>1, <2>2, <3>1 DEF User
      <4> HIDE DEF o, s, R
      <4>3. [o EXCEPT !.state = s, !.roles = R] \in User
        BY <4>2 DEF User
      <4> QED  BY <4>1, <4>3, Zenon
    <3> QED  BY <3>2, <3>3
  <2>4. user' \in [Users -> User]
    BY <1>6, <2>3 DEF WriteUser, DirTypeOK
  <2>5. CallFits("clear", r)
    BY <1>1, <1>6, <2>1 DEF WriteUser, CallFits, UserFits, UserLabels
  <2>6. CallTypes'
    BY <1>6, <2>5, GotoTyped, FinishTyped DEF WriteUser
  <2>7. RolesThere'
    BY <1>6, RolesThereGoto DEF WriteUser, Finish
  <2> QED
    BY <1>6, <2>4, <2>6, <2>7 DEF WriteUser, Overtakes, DirTypeOK, CodesUnique
<1>7. ASSUME InsertUser(c) PROVE DirInv'
  <2>1. r.row \in RoleRows /\ r.status \in {"active", "disabled"}
    BY <1>1, <1>7 DEF InsertUser, UserFits, UserCall
  <2>2. [state |-> r.status, pwd |-> 0, roles |-> {r.row}] \in User
    BY <2>1 DEF User, States
  <2>3. user' \in [Users -> User]
    BY <1>7, <2>2 DEF InsertUser, DirTypeOK
  <2>4. overtaken' \subseteq Clients
    BY <1>7 DEF InsertUser, Overtakes, DirTypeOK
  <2> QED
    BY <1>7, <2>3, <2>4, FinishTyped, RolesThereGoto
       DEF InsertUser, Finish, DirTypeOK, CodesUnique
<1>8. ASSUME SetPassword(c) PROVE DirInv'
  <2>1. [user[r.user] EXCEPT !.pwd = @ + 1] \in User
    BY <1>2 DEF User
  <2>2. user' \in [Users -> User]
    BY <1>8, <2>1 DEF SetPassword, DirTypeOK
  <2>3. CallFits("clear", r)
    BY <1>1, <1>8 DEF SetPassword, CallFits, UserFits, UserLabels
  <2> QED
    BY <1>8, <2>2, <2>3, GotoTyped, RolesThereGoto
       DEF SetPassword, DirTypeOK, CodesUnique
<1>9. ASSUME ClearSessions(c) PROVE DirInv'
  BY <1>9, FinishTyped, RolesThereGoto
     DEF ClearSessions, Finish, DirTypeOK, CodesUnique
<1> QED
  BY <1>3, <1>4, <1>5, <1>6, <1>7, <1>8, <1>9

\* The handlers over roles.
LEMMA RoleHandlers ==
  ASSUME DirInv, NEW c \in Clients,
         LoadRole(c) \/ CountUsers(c) \/ DropRole(c) \/ WriteRole(c)
  PROVE  DirInv'
<1> DEFINE r == req[c]
<1> USE DEF DirInv
<1>1. pc[c] \in RoleLabels /\ RoleFits(pc[c], r)
  BY FitsOf DEF RoleLabels, LoadRole, CountUsers, DropRole, WriteRole
<1>2. /\ r \in RoleCall
      /\ r.row \in RoleRows /\ r.code \in Codes
      /\ r.op \in {"addRole", "renameRole", "dropRole"}
  BY <1>1 DEF RoleFits, RoleCall
<1>3. r.op = "dropRole" => /\ CallFits("countUsers", r)
                           /\ CallFits("dropRole", r)
  BY <1>2 DEF CallFits, RoleFits, RoleLabels
<1>10. CallFits("writeRole", r)
  BY <1>2 DEF CallFits, RoleFits, RoleLabels
<1>4. ASSUME LoadRole(c) PROVE DirInv'
  <2>1. CallTypes'
    BY <1>3, <1>10, <1>4, GotoTyped, FinishTyped DEF LoadRole
  <2>2. RolesThere'
    <3>1. CASE Finish(c)
      BY <1>4, <3>1, RolesThereGoto DEF LoadRole, Finish, dirVars
    <3>2. CASE /\ Goto(c, IF r.op = "dropRole" THEN "countUsers"
                          ELSE "writeRole", r)
               /\ r.op # "addRole" => LiveRole(role, r.row)
      BY <1>4, <3>2, RolesThereGoto DEF LoadRole, dirVars, LiveRole
    <3> QED  BY <1>2, <1>4, <3>1, <3>2 DEF LoadRole
  <2> QED
    BY <1>4, <2>1, <2>2 DEF LoadRole, dirVars, DirTypeOK, CodesUnique
<1>5. ASSUME CountUsers(c) PROVE DirInv'
  <2>1. CallTypes'
    BY <1>1, <1>3, <1>5, GotoTyped, FinishTyped DEF CountUsers, RoleFits
  <2>2. r.op # "addRole" => role[r.row] # None
    BY <1>5 DEF CountUsers, RolesThere
  <2>3. RolesThere'
    BY <1>5, <2>2, RolesThereGoto DEF CountUsers, Finish
  <2> QED
    BY <1>5, <2>1, <2>3
       DEF CountUsers, ReadsAfresh, DirTypeOK, CodesUnique
<1>6. ASSUME DropRole(c) PROVE DirInv'
  <2>1. role[r.row] \in RoleRow
    BY <1>1, <1>2, <1>6 DEF DropRole, RoleFits, RolesThere, DirTypeOK
  <2>2. /\ [role[r.row] EXCEPT !.deleted = TRUE] \in RoleRow
        /\ [role[r.row] EXCEPT !.deleted = TRUE].code = role[r.row].code
    BY <2>1 DEF RoleRow
  <2>3. /\ role' \in [RoleRows -> RoleRow \cup {None}]
        /\ \A x \in RoleRows : role[x] # None =>
              role'[x] # None /\ role'[x].code = role[x].code
        /\ \A x \in RoleRows : role'[x] # None => role[x] # None
    BY <1>2, <1>6, <2>1, <2>2, NullIsNoRole DEF DropRole, DirTypeOK
  <2>4. \A u \in Users : [user[u] EXCEPT !.roles = @ \ {r.row}] \in User
    BY DEF DirTypeOK, User
  <2>5. user' \in [Users -> User]
    BY <1>6, <2>4 DEF DropRole
  <2>6. CodesUnique'
    BY <2>3 DEF CodesUnique
  <2>7. RolesThere'
    BY <1>6, <2>3, RolesThereGoto DEF DropRole, Finish
  <2> QED
    BY <1>6, <2>3, <2>5, <2>6, <2>7, FinishTyped DEF DropRole, DirTypeOK
<1>7. ASSUME WriteRole(c) PROVE DirInv'
  <2> DEFINE taken == \E x \in RoleRows :
                         /\ x # r.row \/ r.op = "addRole"
                         /\ role[x] # None /\ role[x].code = r.code
             n == [code |-> r.code, deleted |-> FALSE]
  <2>1. n \in RoleRow /\ n.code = r.code
    BY <1>2 DEF RoleRow
  <2>2. n # None
    BY <2>1, NullIsNoRole
  <2>3. /\ role' \in [RoleRows -> RoleRow \cup {None}]
        /\ CodesUnique'
        /\ \A x \in RoleRows : role[x] # None => role'[x] # None
    <3>1. CASE taken
      <4>1. role' = role
        BY <1>7, <3>1 DEF WriteRole
      <4> QED  BY <4>1 DEF DirTypeOK, CodesUnique
    <3>2. CASE ~taken /\ r.op = "addRole"
      <4>1. role' = [role EXCEPT ![FreeRow(role)] = n]
        BY <1>7, <3>2 DEF WriteRole
      <4>2. \A x \in RoleRows : role[x] # None => role[x].code # r.code
        BY <3>2
      <4> HIDE DEF n, taken, r
      <4> QED
        BY <2>1, <2>2, <4>1, <4>2 DEF DirTypeOK, CodesUnique
    <3>3. CASE ~taken /\ r.op # "addRole"
      <4>1. role[r.row] \in RoleRow
        BY <1>2, <1>7, <3>3 DEF WriteRole, RolesThere, DirTypeOK
      <4> DEFINE m == [role[r.row] EXCEPT !.code = r.code]
      <4>2. m \in RoleRow /\ m.code = r.code
        BY <1>2, <4>1 DEF RoleRow
      <4>3. m # None
        BY <4>2, NullIsNoRole
      <4>4. role' = [role EXCEPT ![r.row] = m]
        BY <1>7, <3>3 DEF WriteRole
      <4>5. \A x \in RoleRows \ {r.row} :
               role[x] # None => role[x].code # r.code
        BY <3>3
      <4> HIDE DEF m, n, taken, r
      <4> QED
        BY <1>2, <4>2, <4>3, <4>4, <4>5 DEF DirTypeOK, CodesUnique
    <3> QED  BY <3>1, <3>2, <3>3
  <2>4. RolesThere'
    BY <1>7, <2>3, RolesThereGoto DEF WriteRole, Finish
  <2> QED
    BY <1>7, <2>3, <2>4, FinishTyped DEF WriteRole, DirTypeOK
<1> QED
  BY <1>4, <1>5, <1>6, <1>7

-----------------------------------------------------------------------------
(***************************************************************************)
(* Signing in and the configuration page: the other tables.                *)
(***************************************************************************)
TypeInv == DirInv /\ LoginTypeOK /\ ConfigTypeOK

\* A step of a request that leaves the table of roles alone and does not come
\* to a handler that relies on it.
LEMMA SameRoles ==
  ASSUME DirInv, NEW c \in Clients, NEW l, NEW r, Goto(c, l, r), CallFits(l, r),
         l \notin {"countUsers", "dropRole", "writeRole"},
         UNCHANGED <<authOn, role>>,
         user' \in [Users -> User], session' \subseteq Session,
         overtaken' \subseteq Clients
  PROVE  DirInv'
<1>1. CallTypes'
  BY GotoTyped DEF DirInv
<1>2. RolesThere'
  BY RolesThereGoto DEF DirInv
<1> QED  BY <1>1, <1>2 DEF DirInv, DirTypeOK, CodesUnique

\* A request that arrives there.
LEMMA SameRolesArrive ==
  ASSUME DirInv, NEW c \in Clients, NEW l, NEW r, Arrive(c, l, r),
         CallFits(l, r),
         l \notin {"countUsers", "dropRole", "writeRole"}, UNCHANGED dirVars
  PROVE  DirInv'
<1>1. CallTypes'
  BY ArriveTyped DEF DirInv
<1>2. RolesThere'
  BY DEF DirInv, CallTypes, RolesThere, Arrive, dirVars
<1> QED  BY <1>1, <1>2 DEF DirInv, DirTypeOK, CodesUnique, dirVars

\* What may be at the await a sign-in handler goes to.
LEMMA SignInFits ==
  ASSUME NEW r
  PROVE  /\ CallFits("idle", None)
         /\ r \in LoginCall =>
               /\ CallFits("checkLimit", r) /\ CallFits("authenticate", r)
               /\ CallFits("readLimit", r) /\ CallFits("writeLimit", r)
               /\ r.row \in LimitRow /\ r.row.expired => CallFits("dropLimit", r)
               /\ r.pwd \in Nat => /\ CallFits("clearLimit", r)
                                   /\ CallFits("createSession", r)
         /\ r \in RegisterCall =>
               /\ CallFits("findRole", r) /\ CallFits("createSession", r)
               /\ r.row \in RoleRows => /\ CallFits("findName", r)
                                        /\ CallFits("register", r)
         /\ r \in PasswordCall => /\ CallFits("verifyPassword", r)
                                  /\ CallFits("storePassword", r)
  BY DEF CallFits, LoginFits, RegisterFits, LoginLabels, RegisterLabels,
         PasswordLabels, RegisterCall

\* Requests to sign in, to register and to change a password.
LEMMA SignInRequests ==
  ASSUME TypeInv, NEW c \in Clients,
         LoginRequest(c) \/ RegisterRequest(c) \/ PasswordRequest(c),
         UNCHANGED configVars
  PROVE  TypeInv'
<1>1. LoginTypeOK' /\ ConfigTypeOK'
  BY DEF TypeInv, LoginTypeOK, ConfigTypeOK, LoginRequest, RegisterRequest,
         PasswordRequest, limitVars, configVars
<1>2. ASSUME LoginRequest(c) PROVE DirInv'
  <2>1. PICK u \in Users :
           Arrive(c, "checkLimit", [op |-> "login", user |-> u, pwd |-> None,
                                    row |-> None])
    BY <1>2 DEF LoginRequest
  <2>2. [op |-> "login", user |-> u, pwd |-> None, row |-> None] \in LoginCall
    BY DEF LoginCall
  <2> QED
    BY <1>2, <2>1, <2>2, SignInFits, SameRolesArrive DEF LoginRequest, TypeInv
<1>3. ASSUME RegisterRequest(c) PROVE DirInv'
  <2>1. PICK u \in Users, code \in {"admin", "user"} :
           Arrive(c, "findRole", [op |-> "register", user |-> u,
                                  code |-> code, row |-> None, pwd |-> 0])
    BY <1>3 DEF RegisterRequest
  <2>2. [op |-> "register", user |-> u, code |-> code, row |-> None, pwd |-> 0]
           \in RegisterCall
    BY DEF RegisterCall
  <2> QED
    BY <1>3, <2>1, <2>2, SignInFits, SameRolesArrive
       DEF RegisterRequest, TypeInv
<1>4. ASSUME PasswordRequest(c) PROVE DirInv'
  <2>1. PICK s \in session :
           Arrive(c, "verifyPassword",
                  [op |-> "changePassword", user |-> s.user])
    BY <1>4 DEF PasswordRequest
  <2>2. [op |-> "changePassword", user |-> s.user] \in PasswordCall
    BY DEF PasswordCall, TypeInv, DirInv, DirTypeOK, Session
  <2> QED
    BY <1>4, <2>1, <2>2, SignInFits, SameRolesArrive
       DEF PasswordRequest, TypeInv
<1> QED  BY <1>1, <1>2, <1>3, <1>4 DEF TypeInv

\* The handlers that sign in and count failures.
LEMMA LoginHandlers ==
  ASSUME TypeInv, NEW c \in Clients,
         \/ CheckLimit(c) \/ DropLimit(c) \/ Authenticate(c) \/ ReadLimit(c)
         \/ WriteLimit(c) \/ ClearLimit(c) \/ CreateSession(c),
         UNCHANGED configVars
  PROVE  TypeInv'
<1> DEFINE r == req[c]
<1> USE DEF TypeInv
<1>1. ConfigTypeOK'
  BY DEF ConfigTypeOK, configVars
<1>2. /\ user \in [Users -> User] /\ session \subseteq Session
      /\ overtaken \subseteq Clients
  BY DEF DirInv, DirTypeOK
<1>3. pc[c] # "createSession" =>
         r \in LoginCall /\ r.user \in Users /\ r.row \in {None} \cup LimitRow
  BY FitsOf
     DEF DirInv, LoginLabels, LoginFits, LoginCall, CheckLimit, DropLimit,
         Authenticate, ReadLimit, WriteLimit, ClearLimit, CreateSession
<1>4. ASSUME CheckLimit(c) PROVE TypeInv'
  <2>1. LoginTypeOK' /\ UNCHANGED dirVars /\ pc[c] = "checkLimit"
    BY <1>4 DEF CheckLimit, LoginTypeOK, limitVars
  <2> DEFINE row == limit[r.user]
             filled == [r EXCEPT !.row = row]
  <2>2. row \in LimitRow \cup {None}
    BY <1>3, <2>1 DEF LoginTypeOK
  <2>3. filled \in LoginCall /\ filled.row = row
    BY <1>3, <2>1, <2>2 DEF LoginCall
  <2>4. CASE row # None /\ row.expired
    <3>1. Goto(c, "dropLimit", filled)
      BY <1>4, <2>4 DEF CheckLimit
    <3> QED
      BY <1>1, <1>2, <2>1, <2>2, <2>3, <2>4, <3>1, SignInFits, SameRoles
         DEF dirVars
  <2>5. CASE ~(row # None /\ row.expired)
    <3>1. Goto(c, "authenticate", r) \/ Goto(c, "idle", None)
      BY <1>4, <2>5 DEF CheckLimit, Finish
    <3> QED
      BY <1>1, <1>2, <1>3, <2>1, <3>1, SignInFits, SameRoles DEF dirVars
  <2> QED  BY <2>4, <2>5
<1>5. ASSUME DropLimit(c) PROVE TypeInv'
  <2>1. pc[c] = "dropLimit" /\ UNCHANGED dirVars
    BY <1>5 DEF DropLimit
  <2>2. LoginTypeOK'
    BY <1>3, <1>5, <2>1 DEF DropLimit, LoginTypeOK
  <2>3. [r EXCEPT !.row = None] \in LoginCall
    BY <1>3, <2>1 DEF LoginCall
  <2>4. Goto(c, "authenticate", [r EXCEPT !.row = None]) \/ Goto(c, "idle", None)
    BY <1>5 DEF DropLimit, Finish
  <2> QED
    BY <1>1, <1>2, <2>1, <2>2, <2>3, <2>4, SignInFits, SameRoles DEF dirVars
<1>6. ASSUME Authenticate(c) PROVE TypeInv'
  <2>1. pc[c] = "authenticate" /\ UNCHANGED dirVars
    BY <1>6 DEF Authenticate
  <2>2. LoginTypeOK'
    BY <1>3, <1>6, <2>1 DEF Authenticate, LoginTypeOK
  <2>3. /\ [r EXCEPT !.pwd = user[r.user].pwd] \in LoginCall
        /\ [r EXCEPT !.pwd = user[r.user].pwd].pwd \in Nat
    BY <1>2, <1>3, <2>1 DEF LoginCall, User
  <2>4. \/ Goto(c, "clearLimit", [r EXCEPT !.pwd = user[r.user].pwd])
        \/ Goto(c, "readLimit", r)
    BY <1>6 DEF Authenticate
  <2> QED
    BY <1>1, <1>2, <1>3, <2>1, <2>2, <2>3, <2>4, SignInFits, SameRoles
       DEF dirVars
<1>7. ASSUME ReadLimit(c) PROVE TypeInv'
  <2>1. pc[c] = "readLimit" /\ UNCHANGED dirVars /\ LoginTypeOK'
    BY <1>7 DEF ReadLimit, LoginTypeOK, limitVars
  <2>2. [r EXCEPT !.row = limit[r.user]] \in LoginCall
    BY <1>3, <2>1 DEF LoginCall, LoginTypeOK
  <2>3. Goto(c, "writeLimit", [r EXCEPT !.row = limit[r.user]])
    BY <1>7 DEF ReadLimit
  <2> QED
    BY <1>1, <1>2, <2>1, <2>2, <2>3, SignInFits, SameRoles DEF dirVars
<1>8. ASSUME WriteLimit(c) PROVE TypeInv'
  <2>1. pc[c] = "writeLimit" /\ UNCHANGED dirVars /\ Goto(c, "idle", None)
    BY <1>8 DEF WriteLimit, Finish
  <2>2. limit[r.user] \in LimitRow \cup {None}
    BY <1>3, <2>1 DEF LoginTypeOK
  <2>3. limit'[r.user] \in LimitRow \cup {None}
    BY <1>3, <1>8, <2>1, <2>2 DEF WriteLimit, LoginTypeOK, LimitRow
  <2>4. /\ limit' = [limit EXCEPT ![r.user] = limit'[r.user]]
        /\ blurred' \subseteq Users
        /\ guesses' = guesses
    BY <1>3, <1>8, <2>1 DEF WriteLimit, LoginTypeOK
  <2>5. LoginTypeOK'
    BY <2>3, <2>4 DEF LoginTypeOK
  <2> QED
    BY <1>1, <1>2, <2>1, <2>5, SignInFits, SameRoles DEF dirVars
<1>9. ASSUME ClearLimit(c) PROVE TypeInv'
  <2>1. pc[c] = "clearLimit" /\ UNCHANGED dirVars /\ Goto(c, "createSession", r)
    BY <1>9 DEF ClearLimit
  <2>2. LoginTypeOK'
    BY <1>3, <1>9, <2>1 DEF ClearLimit, LoginTypeOK
  <2>3. r.pwd \in Nat
    BY <2>1, FitsOf DEF DirInv, LoginLabels, LoginFits
  <2> QED
    BY <1>1, <1>2, <1>3, <2>1, <2>2, <2>3, SignInFits, SameRoles DEF dirVars
<1>10. ASSUME CreateSession(c) PROVE TypeInv'
  <2>1. /\ Goto(c, "idle", None)
        /\ UNCHANGED <<authOn, user, role, overtaken, limitVars>>
    BY <1>10 DEF CreateSession, Finish
  <2>2. r.user \in Users /\ r.pwd \in Nat
    BY <1>10, FitsOf DEF CreateSession, DirInv, LoginCall, RegisterCall
  <2>3. [user |-> r.user, pwd |-> r.pwd,
         late |-> user[r.user].pwd # r.pwd
                   \/ user[r.user].state # "active"] \in Session
    BY <2>2 DEF Session
  <2>4. session' \subseteq Session
    BY <1>2, <1>10, <2>3 DEF CreateSession
  <2>5. LoginTypeOK'
    BY <2>1 DEF LoginTypeOK, limitVars
  <2> QED
    BY <1>1, <1>2, <2>1, <2>4, <2>5, SignInFits, SameRoles
<1> QED
  BY <1>4, <1>5, <1>6, <1>7, <1>8, <1>9, <1>10

\* Registering and changing a password.
LEMMA AccountHandlers ==
  ASSUME TypeInv, NEW c \in Clients,
         \/ FindRole(c) \/ FindName(c) \/ Register(c)
         \/ VerifyPassword(c) \/ StorePassword(c),
         UNCHANGED configVars
  PROVE  TypeInv'
<1> DEFINE r == req[c]
<1> USE DEF TypeInv
<1>1. ConfigTypeOK' /\ LoginTypeOK'
  BY DEF ConfigTypeOK, configVars, LoginTypeOK, limitVars, FindRole, FindName,
         Register, VerifyPassword, StorePassword
<1>2. /\ user \in [Users -> User] /\ session \subseteq Session
      /\ overtaken \subseteq Clients
  BY DEF DirInv, DirTypeOK
<1>3. /\ pc[c] \in {"findRole", "findName", "register"} =>
            r \in RegisterCall /\ r.user \in Users
      /\ pc[c] \in {"findName", "register"} => r.row \in RoleRows
      /\ pc[c] \in PasswordLabels => r \in PasswordCall /\ r.user \in Users
  BY FitsOf
     DEF DirInv, RegisterLabels, PasswordLabels, RegisterFits, RegisterCall,
         PasswordCall
<1>4. ASSUME FindRole(c) PROVE TypeInv'
  <2>1. pc[c] = "findRole" /\ UNCHANGED dirVars
    BY <1>4 DEF FindRole
  <2> DEFINE filled == [r EXCEPT !.row = RowOf(role, r.code)]
  <2>2. HasRow(role, r.code) => filled \in RegisterCall /\ filled.row \in RoleRows
    BY <1>3, <2>1, RowOfFound DEF RegisterCall
  <2>3. \/ HasRow(role, r.code) /\ Goto(c, "findName", filled)
        \/ Goto(c, "idle", None)
    BY <1>4 DEF FindRole, Finish
  <2> QED
    BY <1>1, <1>2, <2>1, <2>2, <2>3, SignInFits, SameRoles DEF dirVars
<1>5. ASSUME FindName(c) PROVE TypeInv'
  <2>1. pc[c] = "findName" /\ UNCHANGED dirVars
    BY <1>5 DEF FindName
  <2>2. Goto(c, "register", r) \/ Goto(c, "idle", None)
    BY <1>5 DEF FindName, Finish
  <2> QED
    BY <1>1, <1>2, <1>3, <2>1, <2>2, SignInFits, SameRoles DEF dirVars
<1>6. ASSUME Register(c) PROVE TypeInv'
  <2>1. pc[c] = "register" /\ UNCHANGED <<authOn, role, session>>
    BY <1>6 DEF Register
  <2>2. [state |-> "active", pwd |-> 0, roles |-> {r.row}] \in User
    BY <1>3, <2>1 DEF User, States
  <2>3. user' \in [Users -> User] /\ overtaken' \subseteq Clients
    BY <1>2, <1>3, <1>6, <2>2 DEF Register, Overtakes
  <2>4. Goto(c, "createSession", r) \/ Goto(c, "idle", None)
    BY <1>6 DEF Register, Finish
  <2> QED
    BY <1>1, <1>2, <1>3, <2>1, <2>3, <2>4, SignInFits, SameRoles
<1>7. ASSUME VerifyPassword(c) PROVE TypeInv'
  <2>1. pc[c] = "verifyPassword" /\ UNCHANGED dirVars
    BY <1>7 DEF VerifyPassword
  <2>2. Goto(c, "storePassword", r) \/ Goto(c, "idle", None)
    BY <1>7 DEF VerifyPassword, Finish
  <2> QED
    BY <1>1, <1>2, <1>3, <2>1, <2>2, SignInFits, SameRoles
       DEF dirVars, PasswordLabels
<1>8. ASSUME StorePassword(c) PROVE TypeInv'
  <2>1. /\ pc[c] = "storePassword" /\ Goto(c, "idle", None)
        /\ UNCHANGED <<authOn, role, overtaken>>
    BY <1>8 DEF StorePassword, Finish
  <2>2. [user[r.user] EXCEPT !.pwd = @ + 1] \in User
    BY <1>2, <1>3, <2>1 DEF User, PasswordLabels
  <2>3. user' \in [Users -> User]
    BY <1>2, <1>8, <2>2 DEF StorePassword
  <2>4. \A s \in Session : [s EXCEPT !.late = TRUE] \in Session
    BY DEF Session
  <2>5. session' \subseteq Session
    BY <1>2, <1>8, <2>4 DEF StorePassword
  <2> QED
    BY <1>1, <1>2, <2>1, <2>3, <2>5, SignInFits, SameRoles
<1> QED
  BY <1>4, <1>5, <1>6, <1>7, <1>8

\* What may be at the awaits of the configuration page.
LEMMA ConfigFits ==
  ASSUME NEW r
  PROVE  /\ CallFits("idle", None)
         /\ r \in EditCall \cup MarketCall =>
               /\ CallFits("seedConfig", r) /\ CallFits("insertItems", r)
               /\ CallFits("findBuiltin", r) /\ CallFits("insertBuiltin", r)
               /\ CallFits("completeItems", r)
               /\ CallFits("reviseSeed", r) /\ CallFits("revise", r)
         /\ r \in EditCall => /\ CallFits("readVersion", r)
                              /\ CallFits("firstVersion", r)
                              /\ CallFits("readItems", r)
                              /\ CallFits("checkVersion", r)
                              /\ r.change \in [OtherKeys -> Values \cup {None}]
                                    => CallFits("writeItems", r)
         /\ r \in MarketCall => CallFits("writeMarket", r)
  BY DEF CallFits, EditFits, SeedLabels, EditLabels

\* The requests and the handlers of the configuration page.
LEMMA ConfigPage ==
  ASSUME TypeInv, NEW c \in Clients, ConfigPageStep(c)
  PROVE  TypeInv'
<1> DEFINE r == req[c]
<1> USE DEF TypeInv
<1>1. UNCHANGED dirVars /\ LoginTypeOK'
  BY DEF ConfigPageStep, LoginTypeOK, limitVars
<1>2. /\ UNCHANGED <<authOn, user, role, session, overtaken>>
      /\ user \in [Users -> User] /\ session \subseteq Session
      /\ overtaken \subseteq Clients
  BY <1>1 DEF DirInv, DirTypeOK, dirVars
<1>3. ASSUME EditRequest(c) \/ MarketRequest(c) PROVE TypeInv'
  <2>1. PICK q \in EditCall \cup MarketCall : Arrive(c, "seedConfig", q)
    <3>1. [op |-> "edit", version |-> 0, seen |-> None, change |-> None]
             \in EditCall
      BY DEF EditCall
    <3>2. \A v \in Values : [op |-> "market", value |-> v] \in MarketCall
      BY DEF MarketCall
    <3> QED  BY <1>3, <3>1, <3>2 DEF EditRequest, MarketRequest
  <2>2. DirInv'
    BY <1>1, <2>1, ConfigFits, SameRolesArrive
  <2> QED
    BY <1>1, <1>3, <2>2
       DEF EditRequest, MarketRequest, configVars, ConfigTypeOK
<1>4. /\ pc[c] \in SeedLabels => r \in EditCall \cup MarketCall
      /\ pc[c] \in EditLabels => r \in EditCall
      /\ pc[c] = "writeItems" => r.change \in [OtherKeys -> Values \cup {None}]
      /\ pc[c] = "writeMarket" => r \in MarketCall
  BY FitsOf DEF DirInv, EditFits, EditLabels
<1>5. r \in EditCall \cup MarketCall => CallFits(AfterSeed(r), r)
  BY ConfigFits DEF AfterSeed, EditCall, MarketCall
<1>6. \A q \in EditCall \cup MarketCall :
         AfterSeed(q) \notin {"countUsers", "dropRole", "writeRole"}
  BY DEF AfterSeed
<1>7. /\ item \in Items /\ published \in Items /\ version \in Nat
      /\ torn \in BOOLEAN /\ envKeys \subseteq OtherKeys
  BY DEF ConfigTypeOK
<1>8. ASSUME item' \in Items, Revise PROVE ConfigTypeOK'
  <2>1. published' \in Items /\ torn' \in BOOLEAN /\ envKeys' = envKeys
    BY <1>8 DEF Revise
  <2>2. version' \in Nat
    BY <1>7, <1>8 DEF Revise
  <2> QED  BY <1>7, <1>8, <2>1, <2>2 DEF ConfigTypeOK
<1>9. ASSUME SeedConfig(c) PROVE TypeInv'
  <2>1. pc[c] = "seedConfig" /\ ConfigTypeOK'
    BY <1>9 DEF SeedConfig, configVars, ConfigTypeOK
  <2>2. \/ Goto(c, "insertItems", r) \/ Goto(c, "insertBuiltin", r)
        \/ Goto(c, AfterSeed(r), r)
    BY <1>9 DEF SeedConfig
  <2> QED
    BY <1>1, <1>2, <1>4, <1>5, <1>6, <2>1, <2>2, ConfigFits, SameRoles
       DEF SeedLabels
<1>10. ASSUME InsertItems(c) PROVE TypeInv'
  <2>1. pc[c] = "insertItems" /\ UNCHANGED <<envKeys, version, published, torn>>
    BY <1>10 DEF InsertItems
  <2>2. Goto(c, "findBuiltin", r) \/ Goto(c, "idle", None)
    BY <1>10 DEF InsertItems, Finish
  <2>3. item' \in Items
    BY <1>7, <1>10, ConfigConstants DEF InsertItems, Items
  <2> QED
    BY <1>1, <1>2, <1>4, <1>7, <2>1, <2>2, <2>3, ConfigFits, SameRoles
       DEF SeedLabels, ConfigTypeOK
<1>11. ASSUME FindBuiltin(c) PROVE TypeInv'
  <2>1. pc[c] \in {"insertItems", "findBuiltin"} /\ ConfigTypeOK'
    BY <1>11 DEF FindBuiltin, configVars, ConfigTypeOK
  <2>2. \/ Goto(c, "insertBuiltin", r) \/ Goto(c, "completeItems", r)
        \/ Goto(c, AfterSeed(r), r) \/ Goto(c, "reviseSeed", r)
    BY <1>11 DEF FindBuiltin
  <2> QED
    BY <1>1, <1>2, <1>4, <1>5, <1>6, <2>1, <2>2, ConfigFits, SameRoles
       DEF SeedLabels
<1>12. ASSUME InsertBuiltin(c) PROVE TypeInv'
  <2>1. /\ pc[c] \in {"insertBuiltin", "completeItems"}
        /\ UNCHANGED <<envKeys, version, published>>
    BY <1>12 DEF InsertBuiltin
  <2>2. Goto(c, "reviseSeed", r) \/ Goto(c, "idle", None)
    BY <1>12 DEF InsertBuiltin, Finish
  <2>3. item' \in Items /\ torn' \in BOOLEAN
    BY <1>7, <1>12, ConfigConstants DEF InsertBuiltin, Items
  <2> QED
    BY <1>1, <1>2, <1>4, <1>7, <2>1, <2>2, <2>3, ConfigFits, SameRoles
       DEF SeedLabels, ConfigTypeOK
<1>13. ASSUME ReviseSeed(c) PROVE TypeInv'
  <2>1. pc[c] = "reviseSeed" /\ item' = item /\ Revise /\ Goto(c, AfterSeed(r), r)
    BY <1>13 DEF ReviseSeed
  <2> QED
    BY <1>1, <1>2, <1>4, <1>5, <1>6, <1>7, <1>8, <2>1, SameRoles
       DEF SeedLabels
<1>14. ASSUME ReadVersion(c) PROVE TypeInv'
  <2>1. pc[c] = "readVersion" /\ ConfigTypeOK'
    BY <1>14 DEF ReadVersion, configVars, ConfigTypeOK
  <2>2. r \in EditCall
    BY <1>4, <2>1 DEF EditLabels
  <2>3. [r EXCEPT !.version = version] \in EditCall
    BY <1>7, <2>2 DEF EditCall
  <2>4. \/ Goto(c, "firstVersion", r)
        \/ Goto(c, "readItems", [r EXCEPT !.version = version])
    BY <1>14 DEF ReadVersion
  <2> QED
    BY <1>1, <1>2, <2>1, <2>2, <2>3, <2>4, ConfigFits, SameRoles
<1>15. ASSUME FirstVersion(c) PROVE TypeInv'
  <2>1. /\ pc[c] = "firstVersion" /\ item' = item /\ Revise
        /\ Goto(c, "readItems", [r EXCEPT !.version = version'])
    BY <1>15 DEF FirstVersion
  <2>2. version' \in Nat
    BY <1>7, <2>1 DEF Revise
  <2>3. [r EXCEPT !.version = version'] \in EditCall
    BY <1>4, <2>1, <2>2 DEF EditCall, EditLabels
  <2> QED
    BY <1>1, <1>2, <1>7, <1>8, <2>1, <2>3, ConfigFits, SameRoles
<1>16. ASSUME ReadItems(c) PROVE TypeInv'
  <2>1. /\ pc[c] = "readItems" /\ ConfigTypeOK'
        /\ Goto(c, "checkVersion", [r EXCEPT !.seen = item])
    BY <1>16 DEF ReadItems, configVars, ConfigTypeOK
  <2>2. [r EXCEPT !.seen = item] \in EditCall
    BY <1>4, <1>7, <2>1 DEF EditCall, EditLabels
  <2> QED
    BY <1>1, <1>2, <2>1, <2>2, ConfigFits, SameRoles
<1>17. ASSUME CheckVersion(c) PROVE TypeInv'
  <2>1. pc[c] = "checkVersion" /\ ConfigTypeOK'
    BY <1>17 DEF CheckVersion, configVars, ConfigTypeOK
  <2>2. \A change \in [OtherKeys -> Values \cup {None}] :
           /\ [r EXCEPT !.change = change] \in EditCall
           /\ [r EXCEPT !.change = change].change = change
    BY <1>4, <2>1 DEF EditCall, EditLabels
  <2>3. CASE Goto(c, "idle", None)
    BY <1>1, <1>2, <2>1, <2>3, ConfigFits, SameRoles
  <2>4. ASSUME NEW change \in [OtherKeys -> Values \cup {None}],
               Goto(c, "writeItems", [r EXCEPT !.change = change])
        PROVE  TypeInv'
    <3>1. CallFits("writeItems", [r EXCEPT !.change = change])
      BY <2>2, ConfigFits
    <3> QED  BY <1>1, <1>2, <2>1, <2>4, <3>1, SameRoles
  <2> QED
    BY <1>17, <2>3, <2>4 DEF CheckVersion, Finish
<1>18. ASSUME WriteItem(c) PROVE TypeInv'
  <2>1. pc[c] = "writeItems" /\ UNCHANGED <<envKeys, version, published, torn>>
    BY <1>18 DEF WriteItem
  <2>2. PICK k \in Pending(r) :
           /\ item' = [item EXCEPT ![k] = r.change[k]]
           /\ Goto(c, IF Pending(r) = {k} THEN "revise" ELSE "writeItems",
                   [r EXCEPT !.change[k] = None])
    BY <1>18 DEF WriteItem
  <2>3. r \in EditCall /\ k \in OtherKeys /\ r.change[k] # None
    BY <1>4, <2>1, <2>2 DEF EditLabels, Pending
  <2> DEFINE q == [r EXCEPT !.change[k] = None]
  <2>4. r.change \in [OtherKeys -> Values \cup {None}]
    BY <1>4, <2>1
  <2>5. [r.change EXCEPT ![k] = None] \in [OtherKeys -> Values \cup {None}]
    BY <2>3, <2>4
  <2>6. q \in EditCall /\ q.change = [r.change EXCEPT ![k] = None]
    BY <2>3, <2>5 DEF EditCall
  <2>7. item' \in Items
    BY <1>7, <2>2, <2>3, <2>4 DEF Items, Keys
  <2>8. CallFits("revise", q) /\ CallFits("writeItems", q)
    BY <2>5, <2>6, ConfigFits
  <2>9. Goto(c, "revise", q) \/ Goto(c, "writeItems", q)
    BY <2>2
  <2> HIDE DEF q
  <2> QED
    BY <1>1, <1>2, <1>7, <2>1, <2>7, <2>8, <2>9, SameRoles DEF ConfigTypeOK
<1>19. ASSUME NothingToWrite(c) PROVE TypeInv'
  <2>1. pc[c] = "writeItems" /\ ConfigTypeOK' /\ Goto(c, "revise", r)
    BY <1>19 DEF NothingToWrite, configVars, ConfigTypeOK
  <2> QED
    BY <1>1, <1>2, <1>4, <2>1, ConfigFits, SameRoles DEF EditLabels
<1>20. ASSUME WriteMarket(c) PROVE TypeInv'
  <2>1. /\ pc[c] = "writeMarket" /\ Goto(c, "revise", r)
        /\ item' = [item EXCEPT ![BuiltinKey] = r.value]
        /\ UNCHANGED <<envKeys, version, published, torn>>
    BY <1>20 DEF WriteMarket
  <2>2. item' \in Items
    BY <1>4, <1>7, <2>1 DEF Items, Keys, MarketCall
  <2> QED
    BY <1>1, <1>2, <1>4, <1>7, <2>1, <2>2, ConfigFits, SameRoles
       DEF ConfigTypeOK
<1>21. ASSUME CreateRevision(c) PROVE TypeInv'
  <2>1. item' = item /\ Revise /\ Goto(c, "idle", None)
    BY <1>21 DEF CreateRevision, Finish
  <2> QED
    BY <1>1, <1>2, <1>7, <1>8, <2>1, ConfigFits, SameRoles
<1> QED
  BY <1>3, <1>9, <1>10, <1>11, <1>12, <1>13, <1>14, <1>15, <1>16, <1>17, <1>18,
     <1>19, <1>20, <1>21
     DEF ConfigPageStep, ConfigStep

-----------------------------------------------------------------------------
(***************************************************************************)
(* The start of the process, and what ends requests and sessions.          *)
(***************************************************************************)
\* After the two upserts both built-in roles have a row, which is live.
LEMMA BuiltinTable ==
  ASSUME RoleTable(role)
  PROVE  /\ RoleTable(BuiltinRoles)
         /\ HasRow(BuiltinRoles, "admin") /\ HasRow(BuiltinRoles, "user")
         /\ \A r \in RoleRows :
               BuiltinRoles[r] # None /\ BuiltinRoles[r].code \in {"admin", "user"}
               => ~BuiltinRoles[r].deleted
         /\ \A r \in RoleRows :
               role[r] # None => /\ BuiltinRoles[r] # None
                                 /\ BuiltinRoles[r].code = role[r].code
<1> DEFINE t == Upsert(role, "admin")
           b == Upsert(t, "user")
<1>1. "admin" \in Codes /\ "user" \in Codes
  BY DEF Codes
<1>2. /\ RoleTable(t) /\ HasRow(t, "admin")
      /\ \A r \in RoleRows : t[r] # None /\ t[r].code = "admin" => ~t[r].deleted
      /\ \A r \in RoleRows :
            role[r] # None => t[r] # None /\ t[r].code = role[r].code
  BY <1>1, UpsertTable
<1> HIDE DEF t
<1>3. /\ RoleTable(b) /\ HasRow(b, "user")
      /\ \A r \in RoleRows : b[r] # None /\ b[r].code = "user" => ~b[r].deleted
      /\ \A r \in RoleRows :
            t[r] # None => /\ b[r] # None
                           /\ b[r].code = t[r].code
                           /\ t[r].code # "user" => b[r] = t[r]
      /\ \A r \in RoleRows : t[r] = None /\ b[r] # None => b[r].code = "user"
  BY <1>1, <1>2, UpsertTable
<1> HIDE DEF b
<1>4. HasRow(b, "admin")
  BY <1>2, <1>3 DEF HasRow
<1>5. \A r \in RoleRows : b[r] # None /\ b[r].code = "admin" => ~b[r].deleted
  BY <1>2, <1>3
<1>6. BuiltinRoles = b
  BY DEF BuiltinRoles, b, t
<1> QED  BY <1>2, <1>3, <1>4, <1>5, <1>6

\* Retiring the former role deletes rows of that code and changes no other.
LEMMA RetireTable ==
  ASSUME NEW t, RoleTable(t)
  PROVE  /\ RoleTable(RetireLegacy(t))
         /\ \A r \in RoleRows :
               /\ t[r] = None <=> RetireLegacy(t)[r] = None
               /\ t[r] # None => RetireLegacy(t)[r].code = t[r].code
               /\ t[r] # None /\ t[r].code # "super_admin"
                     => RetireLegacy(t)[r] = t[r]
<1> DEFINE u == RetireLegacy(t)
<1>1. \A r \in RoleRows :
         t[r] # None => /\ [t[r] EXCEPT !.deleted = TRUE] \in RoleRow
                        /\ [t[r] EXCEPT !.deleted = TRUE].code = t[r].code
                        /\ [t[r] EXCEPT !.deleted = TRUE] # None
  <2> TAKE r \in RoleRows
  <2> HAVE t[r] # None
  <2>1. t[r] \in RoleRow
    BY DEF RoleTable
  <2>2. [t[r] EXCEPT !.deleted = TRUE] \in RoleRow
    BY <2>1 DEF RoleRow
  <2> QED  BY <2>1, <2>2, NullIsNoRole DEF RoleRow
<1>2. \A r \in RoleRows :
         u[r] = IF t[r] # None /\ t[r].code = "super_admin"
                THEN [t[r] EXCEPT !.deleted = TRUE] ELSE t[r]
  BY DEF RetireLegacy
<1>3. u = [r \in RoleRows |-> u[r]]
  BY DEF RetireLegacy
<1> HIDE DEF u
<1>4. \A r \in RoleRows :
         /\ t[r] = None <=> u[r] = None
         /\ t[r] # None => u[r].code = t[r].code
         /\ t[r] # None /\ t[r].code # "super_admin" => u[r] = t[r]
         /\ u[r] \in RoleRow \cup {None}
  BY <1>1, <1>2 DEF RoleTable
<1>5. RoleTable(u)
  BY <1>3, <1>4 DEF RoleTable
<1> QED  BY <1>4, <1>5 DEF u

\* Whoever is moved is moved to the row of a built-in role.
LEMMA TargetFound ==
  ASSUME RoleTable(role), NEW u
  PROVE  /\ Target(BuiltinRoles, u) \in {"admin", "user"}
         /\ RowOf(BuiltinRoles, Target(BuiltinRoles, u)) \in RoleRows
         /\ BuiltinRoles[RowOf(BuiltinRoles, Target(BuiltinRoles, u))] # None
         /\ BuiltinRoles[RowOf(BuiltinRoles, Target(BuiltinRoles, u))].code =
               Target(BuiltinRoles, u)
<1>1. Target(BuiltinRoles, u) \in {"admin", "user"}
  BY DEF Target
<1>2. HasRow(BuiltinRoles, Target(BuiltinRoles, u))
  BY <1>1, BuiltinTable
<1> QED  BY <1>1, <1>2, RowOfFound

\* A start of the process (bootstrap of roles and the built-in administrator)
\* keeps the types.
LEMMA BootTyped ==
  ASSUME TypeInv, Boot, UNCHANGED <<limitVars, configVars>>
  PROVE  TypeInv'
<1>1. LoginTypeOK' /\ ConfigTypeOK'
  BY DEF TypeInv, LoginTypeOK, ConfigTypeOK, limitVars, configVars
<1>2. CallTypes'
  BY EndTyped DEF TypeInv, DirInv
<1>3. /\ RoleTable(role) /\ user \in [Users -> User] /\ session \subseteq Session
  BY DEF TypeInv, DirInv, DirTypeOK, CodesUnique, RoleTable
<1>4. /\ UNCHANGED <<pc, req>> /\ overtaken' = {}
      /\ authOn' \in BOOLEAN
  BY DEF Boot
<1>5. CASE authOn'
  <2> DEFINE t == BuiltinRoles
  <2>1. Seed
    BY <1>5 DEF Boot
  <2>2. role' = RetireLegacy(t)
    BY <2>1 DEF Seed
  <2>3. /\ RoleTable(role')
        /\ \A x \in RoleRows : role[x] # None => role'[x] # None
    BY <1>3, <2>2, BuiltinTable, RetireTable
  <2>4. user' \in [Users -> User] /\ session' \subseteq Session
    <3>1. CASE \E u \in Users : Present(u)
      <4>1. user' = Migrated(t) /\ session' \subseteq session
        BY <2>1, <3>1 DEF Seed
      <4>2. \A u \in Users : RowOf(t, Target(t, u)) \in RoleRows
        BY <1>3, TargetFound
      <4> HIDE DEF t
      <4>3. \A u \in Users :
               [user[u] EXCEPT !.roles = {RowOf(t, Target(t, u))}] \in User
        BY <1>3, <4>2, UserRowTyped
      <4> QED  BY <1>3, <4>1, <4>3 DEF Migrated
    <3>2. CASE ~\E u \in Users : Present(u)
      <4>1. /\ user' = [user EXCEPT ![InitAdmin] =
                          [state |-> "active", pwd |-> 0,
                           roles |-> {RowOf(t, "admin")}]]
            /\ session' = session
        BY <2>1, <3>2 DEF Seed
      <4>2. RowOf(t, "admin") \in RoleRows
        BY <1>3, BuiltinTable, RowOfFound
      <4>3. [state |-> "active", pwd |-> 0, roles |-> {RowOf(t, "admin")}] \in User
        BY <4>2 DEF User, States
      <4> QED  BY <1>3, <4>1, <4>3
    <3> QED  BY <3>1, <3>2
  <2>5. RolesThere'
    <3> SUFFICES ASSUME NEW c \in Clients,
                        pc[c] \in {"countUsers", "dropRole", "writeRole"},
                        req[c].op # "addRole"
                 PROVE  role'[req[c].row] # None
      BY <1>4 DEF RolesThere
    <3>1. req[c].row \in RoleRows
      BY FitsOf DEF TypeInv, DirInv, RoleLabels, RoleFits, RoleCall
    <3> QED  BY <2>3, <3>1 DEF TypeInv, DirInv, RolesThere
  <2> QED
    BY <1>1, <1>2, <1>4, <2>3, <2>4, <2>5
       DEF TypeInv, DirInv, DirTypeOK, CodesUnique, RoleTable
<1>6. CASE ~authOn'
  <2>1. UNCHANGED <<user, role, session>>
    BY <1>6 DEF Boot
  <2> QED
    BY <1>1, <1>2, <1>4, <2>1
       DEF TypeInv, DirInv, DirTypeOK, CodesUnique, RolesThere
<1> QED  BY <1>4, <1>5, <1>6

\* A failed call and a death of the process.
LEMMA LeaveTyped ==
  ASSUME TypeInv, NEW C \in SUBSET Clients, Leave(C)
  PROVE  session' \subseteq Session /\ blurred' \subseteq Users /\ torn' \in BOOLEAN
<1>1. \A s \in Session : [s EXCEPT !.late = TRUE] \in Session
  BY DEF Session
<1>2. session' \subseteq Session
  BY <1>1 DEF Leave, Abandon, TypeInv, DirInv, DirTypeOK
<1>3. \A c \in Clients :
         pc[c] \in {"readLimit", "writeLimit"} => req[c].user \in Users
  BY FitsOf DEF TypeInv, DirInv, LoginLabels, LoginFits, LoginCall
<1>4. blurred' \subseteq Users
  BY <1>3 DEF Leave, Uncounted, TypeInv, LoginTypeOK
<1>5. torn' \in BOOLEAN
  BY DEF Leave, Tears, TypeInv, ConfigTypeOK
<1> QED  BY <1>2, <1>4, <1>5

\* A request that fails, and the death of the process, keep the types.
LEMMA EndsTyped ==
  ASSUME TypeInv, Dies \/ \E c \in Clients : RequestFails(c)
  PROVE  TypeInv'
<1>1. PICK C \in SUBSET Clients : Leave(C)
  BY DEF Dies, RequestFails
<1>2. /\ session' \subseteq Session /\ blurred' \subseteq Users
      /\ torn' \in BOOLEAN
  BY <1>1, LeaveTyped
<1>3. UNCHANGED <<authOn, user, role, overtaken, limit, guesses,
                  envKeys, item, version, published>>
  BY DEF Dies, RequestFails
<1>4. CallTypes'
  BY EndTyped DEF TypeInv, DirInv, Dies, RequestFails
<1>5. \A c \in Clients :
         \/ pc'[c] = "idle"
         \/ pc'[c] = pc[c] /\ req'[c] = req[c]
  <2>1. CASE Dies
    BY <2>1 DEF Dies, ProcessDies
  <2>2. CASE \E c \in Clients : RequestFails(c)
    BY <2>2 DEF RequestFails, CallFails, Throws, TypeInv, DirInv, CallTypes
  <2> QED  BY <2>1, <2>2
<1>6. RolesThere'
  BY <1>3, <1>5 DEF TypeInv, DirInv, RolesThere
<1> QED
  BY <1>2, <1>3, <1>4, <1>6
     DEF TypeInv, DirInv, DirTypeOK, CodesUnique, LoginTypeOK, ConfigTypeOK

\* The initial states.
LEMMA InitTyped ==
  ASSUME Init
  PROVE  TypeInv
<1>1. CallTypes
  <2>1. CallFits("idle", None) /\ "idle" \in Labels
    BY DEF CallFits, Labels
  <2> QED  BY <2>1, ApiConstants DEF Init, ApiInit, CallTypes
<1>2. RolesThere
  BY DEF Init, ApiInit, RolesThere
<1>3. role \in [RoleRows -> RoleRow \cup {None}] /\ CodesUnique
  <2>1. role \in Tables
    BY DEF Init, DirInit
  <2>2. CASE role = [r \in RoleRows |-> None]
    BY <2>2 DEF CodesUnique
  <2>3. CASE role = [r \in RoleRows |-> IF r = 4 THEN None ELSE
                       [code |-> CASE r = 1 -> "admin" [] r = 2 -> "user"
                                   [] OTHER -> "super_admin",
                        deleted |-> FALSE]]
    <3>1. /\ role[1] = [code |-> "admin", deleted |-> FALSE]
          /\ role[2] = [code |-> "user", deleted |-> FALSE]
          /\ role[3] = [code |-> "super_admin", deleted |-> FALSE]
          /\ role[4] = None
      BY <2>3 DEF RoleRows
    <3>2. \A r \in RoleRows : role[r] \in RoleRow \cup {None}
      <4>1. \A code \in Codes :
               [code |-> code, deleted |-> FALSE] \in RoleRow
        BY DEF RoleRow
      <4>2. /\ role[1] \in RoleRow /\ role[2] \in RoleRow
            /\ role[3] \in RoleRow
        BY <3>1, <4>1 DEF Codes
      <4>3. \A r \in RoleRows : r = 1 \/ r = 2 \/ r = 3 \/ r = 4
        BY DEF RoleRows
      <4> QED  BY <3>1, <4>2, <4>3
    <3>3. role \in [RoleRows -> RoleRow \cup {None}]
      BY <2>3, <3>2
    <3>4. CodesUnique
      BY <3>1 DEF CodesUnique, RoleRows
    <3> QED  BY <3>3, <3>4
  <2> QED  BY <2>1, <2>2, <2>3 DEF Tables
<1>4. user \in [Users -> User]
  <2>1. \A R \in {{1}, {2}, {1, 2}, {3}, {}} : R \in SUBSET RoleRows
    BY DEF RoleRows
  <2>2. /\ NoUser \in User
        /\ \A R \in SUBSET RoleRows :
              [state |-> "active", pwd |-> 0, roles |-> R] \in User
    BY DEF NoUser, User, States
  <2> QED  BY <2>1, <2>2 DEF Init, DirInit
<1>5. DirTypeOK
  BY <1>3, <1>4 DEF Init, DirInit, DirTypeOK
<1>6. LoginTypeOK
  BY DEF Init, LoginInit, LoginTypeOK
<1>7. ConfigTypeOK
  BY DEF Init, ConfigInit, ConfigTypeOK, Items
<1> QED  BY <1>1, <1>2, <1>3, <1>5, <1>6, <1>7 DEF TypeInv, DirInv

\* Every step keeps the types: the inductive step of TypeCorrect.
LEMMA NextTyped ==
  ASSUME TypeInv, [Next]_vars
  PROVE  TypeInv'
<1>1. CASE UNCHANGED vars
  BY <1>1
     DEF vars, apiVars, dirVars, limitVars, configVars, TypeInv, DirInv,
         CallTypes, DirTypeOK, CodesUnique, RolesThere, LoginTypeOK, ConfigTypeOK
<1>2. ASSUME NEW c \in Clients, DirectoryStep(c) PROVE TypeInv'
  <2>1. DirInv'
    BY <1>2, DirectoryRequests, UserHandlers, RoleHandlers
       DEF DirectoryStep, AdminStep, TypeInv
  <2> QED
    BY <1>2, <2>1
       DEF DirectoryStep, TypeInv, LoginTypeOK, ConfigTypeOK, limitVars,
           configVars
<1>3. ASSUME NEW c \in Clients, SignInStep(c) PROVE TypeInv'
  BY <1>3, SignInRequests, LoginHandlers, AccountHandlers
     DEF SignInStep, LoginStep
<1>4. ASSUME NEW u \in Users, WindowPasses(u), UNCHANGED configVars
      PROVE  TypeInv'
  <2>1. UNCHANGED <<apiVars, dirVars, configVars>>
    BY <1>4 DEF WindowPasses
  <2>2. LoginTypeOK'
    BY <1>4 DEF WindowPasses, TypeInv, LoginTypeOK, LimitRow
  <2> QED
    BY <2>1, <2>2
       DEF apiVars, dirVars, configVars, TypeInv, DirInv, CallTypes, DirTypeOK,
           CodesUnique, RolesThere, ConfigTypeOK
<1>5. ASSUME NEW s \in session, SessionEnds(s), UNCHANGED configVars
      PROVE  TypeInv'
  BY <1>5
     DEF SessionEnds, apiVars, limitVars, configVars, TypeInv, DirInv, CallTypes,
         DirTypeOK, CodesUnique, RolesThere, LoginTypeOK, ConfigTypeOK
<1> QED
  BY <1>1, <1>2, <1>3, <1>4, <1>5, ConfigPage, BootTyped, EndsTyped
     DEF Next, NextOnPage

\* Types of the tables and of the requests in progress: every handler finds
\* the row it loaded, the role it looked up, the answer it waited for.
THEOREM TypeCorrect == Spec => []TypeOK
<1>1. Init => TypeInv
  BY InitTyped
<1>2. TypeInv /\ [Next]_vars => TypeInv'
  BY NextTyped
<1>3. TypeInv => TypeOK
  <2>1. TypeInv => \A c \in Clients : /\ req[c] \in Requests \cup {None}
                                      /\ pc[c] = "idle" <=> req[c] = None
    BY FitsTyped DEF TypeInv, DirInv, CallTypes
  <2> QED  BY <2>1 DEF TypeOK, TypeInv, DirInv, CallTypes
<1> QED  BY <1>1, <1>2, <1>3, PTL DEF Spec

-----------------------------------------------------------------------------
(***************************************************************************)
(* Versions of the configuration.                                          *)
(***************************************************************************)
\* A step of one request leaves the others where they are.
LEMMA OthersStay ==
  ASSUME CallTypes, NEW c \in Clients,
         DirectoryStep(c) \/ SignInStep(c) \/ ConfigPageStep(c) \/ RequestFails(c),
         NEW d \in Clients, d # c
  PROVE  pc'[d] = pc[d] /\ req'[d] = req[d]
<1>1. \A l, r : \/ Goto(c, l, r)
                \/ Arrive(c, l, r)
                \/ Throws(c, l, r)
                => pc'[d] = pc[d] /\ req'[d] = req[d]
  BY DEF CallTypes, Goto, Arrive, Throws
<1>2. Finish(c) \/ CallFails(c) => pc'[d] = pc[d] /\ req'[d] = req[d]
  BY <1>1 DEF Finish, CallFails
<1>3. CASE DirectoryStep(c)
  BY <1>1, <1>2, <1>3
     DEF DirectoryStep, AdminStep, AdminRequest, RoleRequest, LoadUser,
         ResolveRole, CountAdmins, WriteUser, InsertUser, SetPassword,
         ClearSessions, LoadRole, CountUsers, DropRole, WriteRole
<1>4. CASE SignInStep(c)
  BY <1>1, <1>2, <1>4
     DEF SignInStep, LoginStep, LoginRequest, RegisterRequest, PasswordRequest,
         CheckLimit, DropLimit, Authenticate, ReadLimit, WriteLimit, ClearLimit,
         CreateSession, FindRole, FindName, Register, VerifyPassword,
         StorePassword
<1>5. CASE ConfigPageStep(c)
  BY <1>1, <1>2, <1>5
     DEF ConfigPageStep, ConfigStep, EditRequest, MarketRequest, SeedConfig,
         InsertItems, FindBuiltin, InsertBuiltin, ReviseSeed, ReadVersion,
         FirstVersion, ReadItems,
         CheckVersion, WriteItem, NothingToWrite, WriteMarket, CreateRevision
<1>6. CASE RequestFails(c)
  BY <1>2, <1>6 DEF RequestFails
<1> QED  BY <1>3, <1>4, <1>5, <1>6

\* The await a request is at after a step of its own.
LEMMA OwnStep ==
  ASSUME TypeInv, NEW c \in Clients
  PROVE  /\ \A l, r : Goto(c, l, r) \/ Arrive(c, l, r)
                      => pc'[c] = l /\ req'[c] = r
         /\ Finish(c) => pc'[c] = "idle" /\ req'[c] = None
  BY DEF Finish, Goto, Arrive, TypeInv, DirInv, CallTypes

\* Where a request of the configuration page comes to.
LEMMA ConfigLands ==
  ASSUME TypeInv, NEW c \in Clients, ConfigPageStep(c)
  PROVE  pc'[c] \in {"idle", "writeMarket"} \cup SeedLabels \cup EditLabels
<1>1. CASE EditRequest(c) \/ MarketRequest(c) \/ SeedConfig(c)
           \/ InsertItems(c) \/ FindBuiltin(c) \/ InsertBuiltin(c)
           \/ ReviseSeed(c)
  BY OwnStep, <1>1 DEF EditRequest, MarketRequest, SeedConfig, InsertItems,
                       FindBuiltin, InsertBuiltin, ReviseSeed, AfterSeed,
                       SeedLabels, EditLabels
<1>2. CASE ReadVersion(c) \/ FirstVersion(c) \/ ReadItems(c) \/ CheckVersion(c)
  BY OwnStep, <1>2 DEF ReadVersion, FirstVersion, ReadItems, CheckVersion,
                       SeedLabels, EditLabels
<1>3. CASE WriteItem(c) \/ NothingToWrite(c) \/ WriteMarket(c)
           \/ CreateRevision(c)
  BY OwnStep, <1>3 DEF WriteItem, NothingToWrite, WriteMarket, CreateRevision,
                       SeedLabels, EditLabels
<1> QED  BY <1>1, <1>2, <1>3 DEF ConfigPageStep, ConfigStep

\* The handlers of one page are at no label of the other.
LEMMA PageLabels ==
  ASSUME NEW c \in Clients, DirectoryStep(c) \/ SignInStep(c)
  PROVE  ~Unversioned(c)
  BY DEF Unversioned, DirectoryStep, AdminStep, AdminRequest, RoleRequest,
         LoadUser, ResolveRole, CountAdmins, WriteUser, InsertUser, SetPassword,
         ClearSessions, LoadRole, CountUsers, DropRole, WriteRole, SignInStep,
         LoginStep, LoginRequest, RegisterRequest, PasswordRequest, CheckLimit,
         DropLimit, Authenticate, ReadLimit, WriteLimit, ClearLimit,
         CreateSession, FindRole, FindName, Register, VerifyPassword,
         StorePassword, Arrive

\* Every step keeps a published version the name of one content, unless a save
\* was torn: only the handlers of the configuration page touch either.
LEMMA VersionStep ==
  ASSUME TypeInv, VersionNamesContent, [Next]_vars
  PROVE  VersionNamesContent'
<1> USE DEF VersionNamesContent
<1>1. CASE UNCHANGED vars
  BY <1>1 DEF vars, apiVars, configVars, Unversioned
<1>2. ASSUME NEW c \in Clients, DirectoryStep(c) \/ SignInStep(c)
      PROVE  VersionNamesContent'
  <2>1. UNCHANGED <<item, published, torn>>
    BY <1>2 DEF DirectoryStep, SignInStep, configVars
  <2>2. \A d \in Clients : Unversioned(d) => Unversioned(d)'
    BY <1>2, PageLabels, OthersStay DEF Unversioned, TypeInv, DirInv
  <2> QED  BY <2>1, <2>2
<1>3. ASSUME NEW c \in Clients, ConfigPageStep(c)
      PROVE  VersionNamesContent'
  <2>1. \A d \in Clients \ {c} : Unversioned(d) => Unversioned(d)'
    BY <1>3, OthersStay DEF Unversioned, TypeInv, DirInv
  <2>2. \A l, r : Goto(c, l, r) => pc'[c] = l
    BY DEF Goto, TypeInv, DirInv, CallTypes
  <2>3. CASE \/ EditRequest(c) \/ MarketRequest(c) \/ SeedConfig(c)
             \/ ReadVersion(c) \/ ReadItems(c) \/ CheckVersion(c)
    <3>1. UNCHANGED <<item, published, torn>>
      BY <2>3 DEF EditRequest, MarketRequest, SeedConfig, ReadVersion, ReadItems,
                  CheckVersion, configVars
    <3>2. ~Unversioned(c)
      BY <2>3 DEF EditRequest, MarketRequest, SeedConfig, ReadVersion, ReadItems,
                  CheckVersion, Unversioned, Arrive
    <3> QED  BY <2>1, <3>1, <3>2
  <2>4. CASE ReviseSeed(c) \/ FirstVersion(c) \/ CreateRevision(c)
    BY <2>4 DEF ReviseSeed, FirstVersion, CreateRevision, Revise
  <2>5. CASE WriteItem(c) \/ NothingToWrite(c) \/ WriteMarket(c)
    <3>1. pc'[c] \in {"writeItems", "revise"}
      BY <2>2, <2>5 DEF WriteItem, NothingToWrite, WriteMarket
    <3> QED  BY <3>1 DEF Unversioned
  <2>6. CASE InsertItems(c)
    <3>1. CASE \E k \in envKeys : item[k] # None
      BY <2>1, <2>6, <3>1 DEF InsertItems, Unversioned
    <3>2. CASE ~ \E k \in envKeys : item[k] # None
      BY <2>2, <2>6, <3>2 DEF InsertItems, Unversioned
    <3> QED  BY <3>1, <3>2
  <2>7. CASE FindBuiltin(c)
    <3>1. UNCHANGED <<item, published, torn>>
      BY <2>7 DEF FindBuiltin, configVars
    <3>2. CASE pc[c] = "insertItems"
      BY <2>1, <3>1, <3>2 DEF Unversioned
    <3>3. CASE pc[c] = "findBuiltin"
      <4>1. Goto(c, "completeItems", req[c]) \/ Goto(c, "reviseSeed", req[c])
        BY <2>7, <3>3 DEF FindBuiltin
      <4> QED  BY <2>2, <4>1 DEF Unversioned
    <3> QED  BY <2>7, <3>2, <3>3 DEF FindBuiltin
  <2>8. CASE InsertBuiltin(c)
    <3>1. CASE item[BuiltinKey] # None
      <4>1. UNCHANGED <<item, published>>
            /\ torn' = (torn \/ pc[c] = "completeItems")
        BY <2>8, <3>1 DEF InsertBuiltin
      <4>2. Unversioned(c) => torn'
        BY <2>8, <4>1 DEF InsertBuiltin, Unversioned
      <4> QED  BY <2>1, <4>1, <4>2
    <3>2. CASE item[BuiltinKey] = None
      BY <2>2, <2>8, <3>2 DEF InsertBuiltin, Unversioned
    <3> QED  BY <3>1, <3>2
  <2> QED
    BY <1>3, <2>3, <2>4, <2>5, <2>6, <2>7, <2>8 DEF ConfigPageStep, ConfigStep
<1>4. ASSUME Dies \/ \E c \in Clients : RequestFails(c)
      PROVE  VersionNamesContent'
  <2>1. PICK C \in SUBSET Clients :
           /\ Leave(C)
           /\ \A d \in Clients \ C : pc'[d] = pc[d]
    <3>1. CASE Dies
      BY <3>1 DEF Dies
    <3>2. ASSUME NEW c \in Clients, RequestFails(c)
          PROVE  /\ Leave({c})
                 /\ \A d \in Clients \ {c} : pc'[d] = pc[d]
      BY <3>2, OthersStay DEF RequestFails, TypeInv, DirInv
    <3> QED  BY <1>4, <3>1, <3>2
  <2>2. UNCHANGED <<item, published>>
    BY <1>4 DEF Dies, RequestFails
  <2>3. torn' = (torn \/ \E d \in C : Unversioned(d))
    BY <2>1 DEF Leave, Tears
  <2> QED  BY <2>1, <2>2, <2>3 DEF Unversioned
<1>5. ASSUME NEW u \in Users, WindowPasses(u), UNCHANGED configVars
      PROVE  VersionNamesContent'
  BY <1>5 DEF WindowPasses, apiVars, configVars, Unversioned
<1>6. ASSUME NEW s \in session, SessionEnds(s), UNCHANGED configVars
      PROVE  VersionNamesContent'
  BY <1>6 DEF SessionEnds, apiVars, configVars, Unversioned
<1>7. ASSUME Boot, UNCHANGED configVars PROVE VersionNamesContent'
  BY <1>7 DEF Boot, configVars, Unversioned
<1> QED
  BY <1>1, <1>2, <1>3, <1>4, <1>5, <1>6, <1>7 DEF Next, NextOnPage

\* A version that a page was made from stands for the items that were there
\* when it was created, unless a writer is under way or failed there.
THEOREM VersionsHonest == Spec => []VersionNamesContent
<1>1. Init => TypeInv /\ VersionNamesContent
  BY InitTyped DEF Init, ConfigInit, VersionNamesContent
<1>2. TypeInv /\ VersionNamesContent /\ [Next]_vars
         => (TypeInv /\ VersionNamesContent)'
  BY NextTyped, VersionStep
<1> QED  BY <1>1, <1>2, PTL DEF Spec

-----------------------------------------------------------------------------
(***************************************************************************)
(* The limit on guesses.  What a window let through is at most what the    *)
(* row counts and the failures on their way to it; and what may still be   *)
(* let through are the requests that have passed the check.                *)
(***************************************************************************)
Failing(u) == {c \in Clients : pc[c] \in {"readLimit", "writeLimit"}
                               /\ req[c].user = u}
Trying(u)  == {c \in Clients : pc[c] = "authenticate" /\ req[c].user = u}

\* What the row still counts.
Counted(row) == IF row = None \/ row.expired THEN 0 ELSE row.count

Guessed(u) ==
    /\ guesses[u] <= Counted(limit[u]) + Cardinality(Failing(u))
    /\ guesses[u] + Cardinality(Trying(u)) <= MaxFailures + Cardinality(Clients) - 1

GuessInv == \A u \in Users \ blurred : Guessed(u)

\* Sets that differ in one element at most.
LEMMA OneApart ==
  ASSUME NEW S, IsFiniteSet(S), NEW T, NEW c, S \ {c} = T \ {c}
  PROVE  /\ IsFiniteSet(T)
         /\ Cardinality(S) \in Nat /\ Cardinality(T) \in Nat
         /\ (c \in S <=> c \in T) => Cardinality(T) = Cardinality(S)
         /\ c \in S /\ c \notin T => Cardinality(T) = Cardinality(S) - 1
         /\ c \notin S /\ c \in T => Cardinality(T) = Cardinality(S) + 1
<1>1. (c \in S <=> c \in T) => S = T
  OBVIOUS
<1>2. c \in S /\ c \notin T => T = S \ {c}
  OBVIOUS
<1>3. c \notin S /\ c \in T => T = S \cup {c}
  OBVIOUS
<1> QED
  BY <1>1, <1>2, <1>3, FS_CardinalityType, FS_RemoveElement, FS_AddElement

\* Sets of requests that share none.
LEMMA DisjointCount ==
  ASSUME NEW F, NEW T, F \subseteq Clients, T \subseteq Clients, F \cap T = {}
  PROVE  /\ IsFiniteSet(F) /\ IsFiniteSet(T)
         /\ Cardinality(F) \in Nat /\ Cardinality(T) \in Nat
         /\ Cardinality(Clients) \in Nat
         /\ Cardinality(F) + Cardinality(T) <= Cardinality(Clients)
<1>1. IsFiniteSet(Clients)
  BY ApiConstants
<1>2. /\ IsFiniteSet(F) /\ IsFiniteSet(T)
      /\ Cardinality(F) \in Nat /\ Cardinality(T) \in Nat
      /\ Cardinality(Clients) \in Nat
  BY <1>1, FS_Subset, FS_CardinalityType
<1>3. Cardinality(F \cap T) = 0
  BY FS_EmptySet
<1>4. Cardinality(F \cup T) = Cardinality(F) + Cardinality(T) - Cardinality(F \cap T)
  BY <1>2, FS_Union
<1>5. F \cup T \subseteq Clients
  OBVIOUS
<1>6. Cardinality(F \cup T) <= Cardinality(Clients)
  BY <1>1, <1>5, FS_Subset
<1> QED  BY <1>2, <1>3, <1>4, <1>6

\* Nobody is at two awaits.
LEMMA FailingAndTrying ==
  ASSUME NEW u
  PROVE  /\ IsFiniteSet(Failing(u)) /\ IsFiniteSet(Trying(u))
         /\ Cardinality(Failing(u)) \in Nat /\ Cardinality(Trying(u)) \in Nat
         /\ Cardinality(Clients) \in Nat
         /\ Cardinality(Failing(u)) + Cardinality(Trying(u))
               <= Cardinality(Clients)
<1>1. /\ Failing(u) \subseteq Clients /\ Trying(u) \subseteq Clients
      /\ Failing(u) \cap Trying(u) = {}
  BY DEF Failing, Trying
<1> QED  BY <1>1, DisjointCount

\* A step that touches neither row nor guesses, and lets nobody else through.
LEMMA GuessedKept ==
  ASSUME NEW u, TypeInv, u \in Users, Guessed(u),
         limit'[u] = limit[u], guesses'[u] = guesses[u],
         Failing(u)' = Failing(u), Trying(u)' \subseteq Trying(u)
  PROVE  Guessed(u)'
<1>1. Cardinality(Trying(u)') <= Cardinality(Trying(u))
      /\ Cardinality(Trying(u)') \in Nat
  BY FailingAndTrying, FS_Subset, FS_CardinalityType
<1>2. guesses[u] \in Nat /\ MaxFailures \in Nat
  BY LoginConstants DEF TypeInv, LoginTypeOK
<1> QED  BY <1>1, <1>2, FailingAndTrying DEF Guessed

\* A step that clears the guesses.
LEMMA GuessedCleared ==
  ASSUME NEW u, TypeInv', u \in Users, guesses'[u] = 0
  PROVE  Guessed(u)'
<1>1. Counted(limit'[u]) \in Nat
  BY DEF TypeInv, LoginTypeOK, Counted, LimitRow
<1>2. /\ Cardinality(Failing(u)') \in Nat /\ Cardinality(Trying(u)') \in Nat
      /\ Cardinality(Trying(u)') <= Cardinality(Clients)
      /\ Cardinality(Clients) \in Nat
  <2>1. Trying(u)' \subseteq Clients /\ Failing(u)' \subseteq Clients
    BY DEF Trying, Failing
  <2> QED  BY <2>1, ApiConstants, FS_Subset, FS_CardinalityType
<1>3. MaxFailures \in Nat /\ MaxFailures >= 1
  BY LoginConstants
<1> QED  BY <1>1, <1>2, <1>3 DEF Guessed

\* The requests that have passed the check are no more than it allows.
LEMMA GuessedAdmitted ==
  ASSUME NEW u, TypeInv', u \in Users, Counted(limit'[u]) <= MaxFailures - 1,
         guesses'[u] <= Counted(limit'[u]) + Cardinality(Failing(u)')
  PROVE  Guessed(u)'
<1> DEFINE F == Failing(u)'
           T == Trying(u)'
<1>1. F \subseteq Clients /\ T \subseteq Clients /\ F \cap T = {}
  BY DEF Failing, Trying
<1> HIDE DEF F, T
<1>2. /\ Cardinality(F) \in Nat /\ Cardinality(T) \in Nat
      /\ Cardinality(Clients) \in Nat
      /\ Cardinality(F) + Cardinality(T) <= Cardinality(Clients)
  BY <1>1, DisjointCount
<1>6. guesses'[u] \in Nat /\ MaxFailures \in Nat /\ Counted(limit'[u]) \in Nat
  BY LoginConstants DEF TypeInv, LoginTypeOK, Counted, LimitRow
<1>7. guesses'[u] <= Counted(limit'[u]) + Cardinality(F)
  BY DEF F
<1>8. guesses'[u] + Cardinality(T) <= MaxFailures + Cardinality(Clients) - 1
  BY <1>2, <1>6, <1>7
<1> QED  BY <1>7, <1>8 DEF Guessed, F, T

\* Directory and configuration requests are at none of the awaits of a login.
LEMMA LoginElsewhere ==
  ASSUME TypeInv, NEW c \in Clients, DirectoryStep(c) \/ ConfigPageStep(c)
  PROVE  /\ pc[c] \notin {"readLimit", "writeLimit", "authenticate"}
         /\ pc'[c] \notin {"readLimit", "writeLimit", "authenticate"}
<1>1. \A l, r : Goto(c, l, r) \/ Arrive(c, l, r) => pc'[c] = l
  BY DEF Goto, Arrive, TypeInv, DirInv, CallTypes
<1>2. Finish(c) => pc'[c] = "idle"
  BY <1>1 DEF Finish
<1>3. CASE DirectoryStep(c)
  <2>1. pc[c] \notin {"readLimit", "writeLimit", "authenticate"}
    BY <1>3
       DEF DirectoryStep, AdminStep, AdminRequest, RoleRequest, Arrive, LoadUser,
           ResolveRole, CountAdmins, WriteUser, InsertUser, SetPassword,
           ClearSessions, LoadRole, CountUsers, DropRole, WriteRole
  <2>2. pc'[c] \in {"idle", "load", "loadRole", "resolve", "setPassword", "count",
                    "insert", "write", "clear", "countUsers", "writeRole",
                    "dropRole"}
    <3>1. CASE AdminRequest(c) \/ RoleRequest(c)
      BY <1>1, <3>1 DEF AdminRequest, RoleRequest
    <3>2. CASE LoadUser(c)
      BY <1>1, <1>2, <3>2 DEF LoadUser
    <3>3. CASE ResolveRole(c) \/ CountAdmins(c) \/ WriteUser(c)
      BY <1>1, <1>2, <3>3 DEF ResolveRole, CountAdmins, WriteUser
    <3>4. CASE InsertUser(c) \/ SetPassword(c) \/ ClearSessions(c) \/ DropRole(c)
               \/ WriteRole(c)
      BY <1>1, <1>2, <3>4 DEF InsertUser, SetPassword, ClearSessions, DropRole,
                              WriteRole
    <3>5. CASE LoadRole(c) \/ CountUsers(c)
      BY <1>1, <1>2, <3>5 DEF LoadRole, CountUsers
    <3> QED
      BY <1>3, <3>1, <3>2, <3>3, <3>4, <3>5 DEF DirectoryStep, AdminStep
  <2> QED  BY <2>1, <2>2
<1>4. CASE ConfigPageStep(c)
  <2>1. pc[c] \notin {"readLimit", "writeLimit", "authenticate"}
    BY <1>4
       DEF ConfigPageStep, ConfigStep, EditRequest, MarketRequest, Arrive,
           SeedConfig, InsertItems, FindBuiltin, InsertBuiltin, ReviseSeed,
           ReadVersion, FirstVersion,
           ReadItems, CheckVersion, WriteItem, NothingToWrite, WriteMarket,
           CreateRevision
  <2>2. pc'[c] \in {"idle", "writeMarket"} \cup SeedLabels \cup EditLabels
    BY <1>4, ConfigLands
  <2> QED  BY <2>1, <2>2 DEF SeedLabels, EditLabels
<1> QED  BY <1>3, <1>4

\* The sets change by the request that steps.
LEMMA GuessersMove ==
  ASSUME TypeInv, NEW c \in Clients, NEW u,
         DirectoryStep(c) \/ SignInStep(c) \/ ConfigPageStep(c) \/ RequestFails(c)
  PROVE  /\ Failing(u) \ {c} = Failing(u)' \ {c}
         /\ Trying(u) \ {c} = Trying(u)' \ {c}
<1>1. \A d \in Clients \ {c} : pc'[d] = pc[d] /\ req'[d] = req[d]
  BY OthersStay DEF TypeInv, DirInv
<1> QED  BY <1>1 DEF Failing, Trying

\* A statement of a sign-in keeps the guesses of a window within the counter,
\* the limit and the logins in flight.
LEMMA GuessRequests ==
  ASSUME TypeInv, TypeInv', GuessInv, NEW c \in Clients, SignInStep(c)
  PROVE  GuessInv'
<1> DEFINE r == req[c]
<1> SUFFICES ASSUME NEW u \in Users, u \notin blurred'
             PROVE  Guessed(u)'
  BY DEF GuessInv
<1>1. /\ Failing(u) \ {c} = Failing(u)' \ {c}
      /\ Trying(u) \ {c} = Trying(u)' \ {c}
  BY GuessersMove
<1>2. /\ IsFiniteSet(Failing(u)) /\ IsFiniteSet(Trying(u))
      /\ Cardinality(Failing(u)) \in Nat /\ Cardinality(Trying(u)) \in Nat
      /\ Cardinality(Clients) \in Nat
  BY FailingAndTrying
<1>3. \A l, q : Goto(c, l, q) \/ Arrive(c, l, q) => pc'[c] = l /\ req'[c] = q
  BY DEF Goto, Arrive, TypeInv, DirInv, CallTypes
<1>4. Finish(c) => pc'[c] = "idle"
  BY <1>3 DEF Finish
<1>5. pc[c] \in LoginLabels => r \in LoginCall /\ r.user \in Users
  BY FitsOf DEF TypeInv, DirInv, LoginFits, LoginCall
<1>6. /\ limit \in [Users -> LimitRow \cup {None}] /\ guesses \in [Users -> Nat]
      /\ limit' \in [Users -> LimitRow \cup {None}] /\ guesses' \in [Users -> Nat]
  BY DEF TypeInv, LoginTypeOK
<1>7. u \notin blurred => Guessed(u)
  BY DEF GuessInv
<1>8. CASE \/ LoginRequest(c) \/ RegisterRequest(c) \/ PasswordRequest(c)
           \/ CreateSession(c) \/ FindRole(c) \/ FindName(c) \/ Register(c)
           \/ VerifyPassword(c) \/ StorePassword(c)
  <2>1. UNCHANGED limitVars
    BY <1>8 DEF LoginRequest, RegisterRequest, PasswordRequest, CreateSession,
                FindRole, FindName, Register, VerifyPassword, StorePassword
  <2>2. /\ pc[c] \notin {"readLimit", "writeLimit", "authenticate"}
        /\ pc'[c] \notin {"readLimit", "writeLimit", "authenticate"}
    BY <1>3, <1>4, <1>8
       DEF LoginRequest, RegisterRequest, PasswordRequest, CreateSession, Arrive,
           FindRole, FindName, Register, VerifyPassword, StorePassword
  <2>3. Failing(u)' = Failing(u) /\ Trying(u)' = Trying(u)
    BY <1>1, <2>2 DEF Failing, Trying
  <2> QED  BY <1>7, <2>1, <2>3, GuessedKept DEF limitVars
<1>9. CASE CheckLimit(c)
  <2>1. UNCHANGED limitVars /\ pc[c] = "checkLimit"
    BY <1>9 DEF CheckLimit
  <2>2. pc'[c] \in {"dropLimit", "authenticate", "idle"}
    BY <1>3, <1>4, <1>9 DEF CheckLimit
  <2>3. Failing(u)' = Failing(u)
    BY <1>1, <2>1, <2>2 DEF Failing
  <2>4. CASE pc'[c] = "authenticate" /\ r.user = u
    <3>1. Allowed(limit[u]) /\ ~(limit[u] # None /\ limit[u].expired)
      BY <1>3, <1>4, <1>9, <2>4 DEF CheckLimit
    <3>2. Counted(limit[u]) <= MaxFailures - 1
      BY <1>6, <3>1, LoginConstants DEF Allowed, Counted, LimitRow
    <3> QED
      BY <1>7, <2>1, <2>3, <3>2, GuessedAdmitted DEF Guessed, limitVars
  <2>5. CASE ~(pc'[c] = "authenticate" /\ r.user = u)
    <3>1. pc'[c] = "authenticate" => req'[c] = r
      BY <1>3, <1>4, <1>9 DEF CheckLimit
    <3>2. Trying(u)' \subseteq Trying(u)
      BY <1>1, <2>5, <3>1 DEF Trying
    <3> QED  BY <1>7, <2>1, <2>3, <3>2, GuessedKept DEF limitVars
  <2> QED  BY <2>4, <2>5
<1>10. CASE DropLimit(c)
  <2>1. /\ pc[c] = "dropLimit" /\ guesses' = guesses
        /\ limit' = [limit EXCEPT ![r.user] = None]
    BY <1>10 DEF DropLimit
  <2>2. pc'[c] \in {"authenticate", "idle"}
    BY <1>3, <1>4, <1>10 DEF DropLimit
  <2>3. Failing(u)' = Failing(u)
    BY <1>1, <2>1, <2>2 DEF Failing
  <2>4. r.user \in Users /\ r \in LoginCall /\ r.row \in LimitRow /\ r.row.expired
    BY <1>5, <2>1, FitsOf DEF TypeInv, DirInv, LoginLabels, LoginFits
  <2>5. u \notin blurred
    BY <1>10 DEF DropLimit
  <2>6. CASE r.user = u
    <3>1. limit[u] \in {None, r.row}
      BY <1>10, <2>6 DEF DropLimit
    <3>2. Counted(limit[u]) = 0 /\ Counted(limit'[u]) = 0
      BY <1>6, <2>1, <2>4, <2>6, <3>1 DEF Counted
    <3> QED
      BY <1>7, <2>1, <2>3, <2>5, <3>2, GuessedAdmitted, LoginConstants
         DEF Guessed
  <2>7. CASE r.user # u
    <3>1. limit'[u] = limit[u]
      BY <1>6, <2>1, <2>7
    <3>2. pc'[c] = "authenticate" => req'[c].user = r.user
      BY <1>3, <1>4, <1>10, <2>4 DEF DropLimit, LoginCall
    <3>3. Trying(u)' \subseteq Trying(u)
      BY <1>1, <2>7, <3>2 DEF Trying
    <3> QED  BY <1>7, <2>1, <2>3, <2>5, <3>1, <3>3, GuessedKept
  <2> QED  BY <2>6, <2>7
<1>11. CASE Authenticate(c)
  <2>1. pc[c] = "authenticate" /\ UNCHANGED <<limit, blurred>>
    BY <1>11 DEF Authenticate
  <2>2. r.user \in Users
    BY <1>5, <2>1 DEF LoginLabels
  <2>3. CASE pc'[c] = "clearLimit"
    <3>1. guesses' = guesses
      BY <1>3, <1>11, <2>3 DEF Authenticate
    <3>2. Failing(u)' = Failing(u) /\ Trying(u)' \subseteq Trying(u)
      BY <1>1, <2>1, <2>3 DEF Failing, Trying
    <3> QED  BY <1>7, <2>1, <3>1, <3>2, GuessedKept
  <2>4. CASE pc'[c] = "readLimit"
    <3>1. guesses' = [guesses EXCEPT ![r.user] = @ + 1] /\ req'[c] = r
      BY <1>3, <1>11, <2>4 DEF Authenticate
    <3>2. CASE r.user = u
      <4>1. /\ c \notin Failing(u) /\ c \in Failing(u)'
            /\ c \in Trying(u) /\ c \notin Trying(u)'
        BY <2>1, <2>4, <3>1, <3>2 DEF Failing, Trying
      <4>2. /\ Cardinality(Failing(u)') = Cardinality(Failing(u)) + 1
            /\ Cardinality(Trying(u)') = Cardinality(Trying(u)) - 1
        BY <1>1, <1>2, <4>1, OneApart
      <4>3. guesses'[u] = guesses[u] + 1 /\ limit'[u] = limit[u]
        BY <1>6, <2>1, <3>1, <3>2
      <4>4. Counted(limit[u]) \in Nat /\ guesses[u] \in Nat /\ MaxFailures \in Nat
        BY <1>6, LoginConstants DEF Counted, LimitRow
      <4> QED
        BY <1>2, <1>7, <2>1, <4>2, <4>3, <4>4 DEF Guessed
    <3>3. CASE r.user # u
      <4>1. Failing(u)' = Failing(u) /\ Trying(u)' \subseteq Trying(u)
        BY <1>1, <2>1, <2>4, <3>1, <3>3 DEF Failing, Trying
      <4>2. guesses'[u] = guesses[u]
        BY <1>6, <3>1, <3>3
      <4> QED  BY <1>7, <2>1, <4>1, <4>2, GuessedKept
    <3> QED  BY <3>2, <3>3
  <2> QED  BY <1>3, <1>11, <2>3, <2>4 DEF Authenticate
<1>12. CASE ReadLimit(c)
  <2>1. /\ pc[c] = "readLimit" /\ UNCHANGED limitVars
        /\ pc'[c] = "writeLimit" /\ req'[c] = [r EXCEPT !.row = limit[r.user]]
    BY <1>3, <1>12 DEF ReadLimit
  <2>2. req'[c].user = r.user
    BY <1>5, <2>1 DEF LoginLabels, LoginCall
  <2>3. \A d \in Clients : d \in Failing(u)' <=> d \in Failing(u)
    <3>1. c \in Failing(u)' <=> c \in Failing(u)
      BY <2>1, <2>2 DEF Failing
    <3>2. \A d \in Clients \ {c} : d \in Failing(u)' <=> d \in Failing(u)
      BY <1>1 DEF Failing
    <3> QED  BY <3>1, <3>2
  <2>4. Failing(u)' = Failing(u)
    BY <2>3 DEF Failing
  <2>5. Trying(u)' \subseteq Trying(u)
    BY <1>1, <2>1 DEF Trying
  <2> QED  BY <1>7, <2>1, <2>4, <2>5, GuessedKept DEF limitVars
<1>13. CASE WriteLimit(c)
  <2>1. pc[c] = "writeLimit" /\ guesses' = guesses /\ pc'[c] = "idle"
    BY <1>4, <1>13 DEF WriteLimit
  <2>2. Trying(u)' \subseteq Trying(u)
    BY <1>1, <2>1 DEF Trying
  <2>3. u \notin blurred
    BY <1>13 DEF WriteLimit
  <2>4. r.user \in Users
    BY <1>5, <2>1 DEF LoginLabels
  <2>5. CASE r.user = u
    <3>1. limit[u] = r.row
      BY <1>13, <2>5 DEF WriteLimit
    <3>2. Counted(limit'[u]) = Counted(limit[u]) + 1
      <4> DEFINE one == [count |-> 1, expired |-> FALSE]
      <4>1. one \in LimitRow
        BY DEF LimitRow
      <4>2. one # None
        BY <4>1, NullIsNoLimit
      <4>3. limit'[u] = IF limit[u] = None \/ limit[u].expired THEN one
                        ELSE [limit[u] EXCEPT !.count = limit[u].count + 1]
        BY <1>6, <1>13, <2>4, <2>5, <3>1 DEF WriteLimit
      <4>4. CASE limit[u] = None \/ limit[u].expired
        BY <4>2, <4>3, <4>4 DEF Counted
      <4>5. CASE ~(limit[u] = None \/ limit[u].expired)
        <5> DEFINE next == [limit[u] EXCEPT !.count = limit[u].count + 1]
        <5>1. limit[u] \in LimitRow
          BY <1>6, <4>5
        <5>2. next \in LimitRow /\ next.count = limit[u].count + 1
              /\ ~next.expired
          BY <4>5, <5>1 DEF LimitRow
        <5>3. next # None
          BY <5>2, NullIsNoLimit
        <5> HIDE DEF next
        <5>4. limit'[u] = next
          BY <4>3, <4>5 DEF next
        <5> QED  BY <4>5, <5>2, <5>3, <5>4 DEF Counted
      <4> QED  BY <4>4, <4>5
    <3>3. c \in Failing(u) /\ c \notin Failing(u)'
      BY <2>1, <2>5 DEF Failing
    <3>4. Cardinality(Failing(u)') = Cardinality(Failing(u)) - 1
      BY <1>1, <1>2, <3>3, OneApart
    <3>5. /\ Cardinality(Trying(u)') <= Cardinality(Trying(u))
          /\ Cardinality(Trying(u)') \in Nat
      BY <1>2, <2>2, FS_Subset, FS_CardinalityType
    <3>6. Counted(limit[u]) \in Nat /\ guesses[u] \in Nat /\ MaxFailures \in Nat
      BY <1>6, LoginConstants DEF Counted, LimitRow
    <3> QED
      BY <1>2, <1>7, <2>1, <2>3, <3>2, <3>4, <3>5, <3>6 DEF Guessed
  <2>6. CASE r.user # u
    <3>1. limit'[u] = limit[u]
      BY <1>6, <1>13, <2>6 DEF WriteLimit
    <3>2. Failing(u)' = Failing(u)
      BY <1>1, <2>1, <2>6 DEF Failing
    <3> QED  BY <1>7, <2>1, <2>2, <2>3, <3>1, <3>2, GuessedKept
  <2> QED  BY <2>5, <2>6
<1>14. CASE ClearLimit(c)
  <2>1. /\ pc[c] = "clearLimit" /\ pc'[c] = "createSession" /\ blurred' = blurred
        /\ limit' = [limit EXCEPT ![r.user] = None]
        /\ guesses' = [guesses EXCEPT ![r.user] = 0]
    BY <1>3, <1>14 DEF ClearLimit
  <2>2. CASE r.user = u
    BY <1>6, <2>1, <2>2, GuessedCleared
  <2>3. CASE r.user # u
    <3>1. limit'[u] = limit[u] /\ guesses'[u] = guesses[u]
      BY <1>6, <2>1, <2>3
    <3>2. Failing(u)' = Failing(u) /\ Trying(u)' \subseteq Trying(u)
      BY <1>1, <2>1 DEF Failing, Trying
    <3> QED  BY <1>7, <2>1, <3>1, <3>2, GuessedKept
  <2> QED  BY <2>2, <2>3
<1> QED
  BY <1>8, <1>9, <1>10, <1>11, <1>12, <1>13, <1>14 DEF SignInStep, LoginStep

\* Every step keeps that count: the inductive step of GuessesBounded.
LEMMA GuessStep ==
  ASSUME TypeInv, TypeInv', GuessInv, [Next]_vars
  PROVE  GuessInv'
<1>1. CASE UNCHANGED vars
  BY <1>1 DEF vars, apiVars, limitVars, GuessInv, Guessed, Failing, Trying
<1>2. ASSUME NEW c \in Clients, DirectoryStep(c) \/ ConfigPageStep(c)
      PROVE  GuessInv'
  <2> SUFFICES ASSUME NEW u \in Users, u \notin blurred'
               PROVE  Guessed(u)'
    BY DEF GuessInv
  <2>1. UNCHANGED limitVars
    BY <1>2 DEF DirectoryStep, ConfigPageStep, limitVars
  <2>2. Failing(u)' = Failing(u) /\ Trying(u)' = Trying(u)
    <3>1. /\ Failing(u) \ {c} = Failing(u)' \ {c}
          /\ Trying(u) \ {c} = Trying(u)' \ {c}
      BY <1>2, GuessersMove
    <3>2. c \notin Failing(u) \cup Failing(u)' \cup Trying(u) \cup Trying(u)'
      BY <1>2, LoginElsewhere DEF Failing, Trying
    <3> QED  BY <3>1, <3>2
  <2> QED  BY <2>1, <2>2, GuessedKept DEF GuessInv, limitVars
<1>3. ASSUME Dies \/ \E c \in Clients : RequestFails(c)
      PROVE  GuessInv'
  <2> SUFFICES ASSUME NEW u \in Users, u \notin blurred'
               PROVE  Guessed(u)'
    BY DEF GuessInv
  <2>1. PICK C \in SUBSET Clients :
           /\ Leave(C)
           /\ \A d \in C : pc'[d] = "idle"
           /\ \A d \in Clients \ C : pc'[d] = pc[d] /\ req'[d] = req[d]
    <3>1. CASE Dies
      BY <3>1 DEF Dies, ProcessDies
    <3>2. ASSUME NEW c \in Clients, RequestFails(c)
          PROVE  /\ Leave({c}) /\ pc'[c] = "idle"
                 /\ \A d \in Clients \ {c} : pc'[d] = pc[d] /\ req'[d] = req[d]
      BY <3>2, OthersStay
         DEF RequestFails, CallFails, Throws, TypeInv, DirInv, CallTypes
    <3> QED  BY <1>3, <3>1, <3>2
  <2>2. UNCHANGED <<limit, guesses>>
    BY <1>3 DEF Dies, RequestFails
  <2>3. /\ u \notin blurred
        /\ \A d \in C : pc[d] \in {"readLimit", "writeLimit"} => req[d].user # u
    BY <2>1 DEF Leave, Uncounted
  <2>4. Failing(u)' = Failing(u) /\ Trying(u)' \subseteq Trying(u)
    BY <2>1, <2>3 DEF Failing, Trying
  <2> QED  BY <2>2, <2>3, <2>4, GuessedKept DEF GuessInv
<1>4. ASSUME NEW w \in Users, WindowPasses(w)
      PROVE  GuessInv'
  <2> SUFFICES ASSUME NEW u \in Users, u \notin blurred'
               PROVE  Guessed(u)'
    BY DEF GuessInv
  <2>1. /\ blurred' = blurred /\ UNCHANGED <<pc, req>>
        /\ limit' = [limit EXCEPT ![w].expired = TRUE]
        /\ guesses' = [guesses EXCEPT ![w] = 0]
    BY <1>4 DEF WindowPasses, apiVars
  <2>2. CASE u = w
    BY <2>1, <2>2, GuessedCleared DEF TypeInv, LoginTypeOK
  <2>3. CASE u # w
    <3>1. limit'[u] = limit[u] /\ guesses'[u] = guesses[u]
      BY <2>1, <2>3 DEF TypeInv, LoginTypeOK
    <3>2. Failing(u)' = Failing(u) /\ Trying(u)' = Trying(u)
      BY <2>1 DEF Failing, Trying
    <3> QED  BY <2>1, <3>1, <3>2, GuessedKept DEF GuessInv
  <2> QED  BY <2>2, <2>3
<1>5. ASSUME NEW s \in session, SessionEnds(s) PROVE GuessInv'
  BY <1>5 DEF SessionEnds, apiVars, limitVars, GuessInv, Guessed, Failing, Trying
<1>6. ASSUME Boot, UNCHANGED limitVars PROVE GuessInv'
  BY <1>6 DEF Boot, limitVars, GuessInv, Guessed, Failing, Trying
<1> QED
  BY <1>1, <1>2, <1>3, <1>4, <1>5, <1>6, GuessRequests DEF Next, NextOnPage

\* While no write of the counter was stale or lost, a window lets no more
\* wrong passwords be tried than the limit and the logins in flight.
THEOREM GuessesBounded == Spec => []GuessesLimited
<1>1. Init => TypeInv /\ GuessInv
  <2> SUFFICES ASSUME Init, NEW u \in Users
               PROVE  Guessed(u)
    BY InitTyped DEF GuessInv
  <2>1. guesses[u] = 0 /\ limit[u] = None
    BY DEF Init, LoginInit
  <2>2. Trying(u) = {}
    BY DEF Init, ApiInit, Trying
  <2>3. Cardinality(Trying(u)) = 0
    BY <2>2, FS_EmptySet
  <2> QED
    BY <2>1, <2>3, FailingAndTrying, LoginConstants DEF Guessed, Counted
<1>2. TypeInv /\ GuessInv /\ [Next]_vars => (TypeInv /\ GuessInv)'
  BY NextTyped, GuessStep
<1>3. TypeInv /\ GuessInv => GuessesLimited
  <2> SUFFICES ASSUME TypeInv, NEW u \in Users \ blurred, Guessed(u)
               PROVE  guesses[u] <= MaxFailures + Cardinality(Clients) - 1
    BY DEF GuessInv, GuessesLimited
  <2>1. guesses[u] \in Nat /\ MaxFailures \in Nat
    BY LoginConstants DEF TypeInv, LoginTypeOK
  <2> QED  BY <2>1, FailingAndTrying DEF Guessed
<1> QED  BY <1>1, <1>2, <1>3, PTL DEF Spec

-----------------------------------------------------------------------------
(***************************************************************************)
(* Sessions and the account they were opened for.                          *)
(***************************************************************************)
\* What SessionsFollowAccount says of one session.
Follows(s) ==
    \/ user[s.user].state = "active" /\ s.pwd = user[s.user].pwd
    \/ s.late
    \/ \E c \in Clients : pc[c] = "clear" /\ req[c].user = s.user

\* Steps that open no session, disable nobody and change no password.
LEMMA FollowsKept ==
  ASSUME TypeInv, SessionsFollowAccount,
         session' \subseteq session,
         \A u \in Users : /\ user[u].state = "active" => user'[u].state = "active"
                          /\ user[u].state = "active" => user'[u].pwd = user[u].pwd,
         \A c \in Clients : pc[c] = "clear" => /\ pc'[c] = "clear"
                                               /\ req'[c] = req[c]
  PROVE  SessionsFollowAccount'
<1>1. \A s \in session : s.user \in Users
  BY DEF TypeInv, DirInv, DirTypeOK, Session
<1> QED  BY <1>1 DEF SessionsFollowAccount

\* A handler that disables or deletes a user, or resets the password, leaves
\* the sessions of that user only on its way to clear them.
LEMMA SessionUsers ==
  ASSUME TypeInv, SessionsFollowAccount, NEW c \in Clients, DirectoryStep(c)
  PROVE  SessionsFollowAccount'
<1> DEFINE r == req[c]
<1>1. \A d \in Clients \ {c} : pc'[d] = pc[d] /\ req'[d] = req[d]
  BY OthersStay DEF TypeInv, DirInv
<1>2. pc[c] # "clear" => \A d \in Clients : pc[d] = "clear" => /\ pc'[d] = "clear"
                                                               /\ req'[d] = req[d]
  BY <1>1
<1>3. /\ user \in [Users -> User] /\ session \subseteq Session
      /\ \A s \in session : s.user \in Users
  BY DEF TypeInv, DirInv, DirTypeOK, Session
<1>4. \A l, q : Goto(c, l, q) => pc'[c] = l /\ req'[c] = q
  BY DEF Goto, TypeInv, DirInv, CallTypes
<1>5. \A s \in session : Follows(s)
  BY DEF SessionsFollowAccount, Follows
<1>6. pc[c] \in UserLabels => UserFits(pc[c], r) /\ r \in UserCall /\ r.user \in Users
  BY FitsOf DEF TypeInv, DirInv, UserFits, UserCall
<1>7. CASE \/ AdminRequest(c) \/ RoleRequest(c) \/ LoadUser(c) \/ ResolveRole(c)
           \/ CountAdmins(c) \/ LoadRole(c) \/ CountUsers(c) \/ WriteRole(c)
  <2>1. UNCHANGED <<user, session>>
    BY <1>7 DEF AdminRequest, RoleRequest, LoadUser, ResolveRole, CountAdmins,
                LoadRole, CountUsers, WriteRole, dirVars
  <2>2. pc[c] # "clear"
    BY <1>7 DEF AdminRequest, RoleRequest, Arrive, LoadUser, ResolveRole,
                CountAdmins, LoadRole, CountUsers, WriteRole
  <2> QED  BY <1>2, <2>1, <2>2, FollowsKept
<1>8. CASE WriteUser(c)
  <2>1. pc[c] = "write" /\ user' = [user EXCEPT ![r.user] = Written(r)]
    BY <1>8 DEF WriteUser
  <2>2. /\ r \in UserCall /\ r.user \in Users /\ r.op \in {"update", "delete"}
        /\ r.seen \in Seen
    BY <1>6, <2>1 DEF UserLabels, UserFits
  <2>3. \A u \in Users \ {r.user} : user'[u] = user[u]
    BY <1>3, <2>1
  <2> SUFFICES ASSUME NEW s \in session'
               PROVE  Follows(s)'
    BY DEF SessionsFollowAccount, Follows
  <2>4. s \in session
    BY <1>8 DEF WriteUser
  <2>5. \A d \in Clients : pc[d] = "clear" => pc'[d] = "clear" /\ req'[d] = req[d]
    BY <1>2, <2>1
  <2>6. CASE s.user # r.user
    BY <1>3, <1>5, <2>3, <2>4, <2>5, <2>6 DEF Follows
  <2>7. CASE s.user = r.user
    <3>1. r.op = "update"
      BY <1>8, <2>2, <2>7 DEF WriteUser
    <3>2. NextState(r) \in {"active", "disabled"}
      BY <2>2, <3>1 DEF NextState, UserCall, Seen
    <3>3. CASE NextState(r) = "disabled"
      <4>1. pc'[c] = "clear" /\ req'[c] = r
        BY <1>4, <1>8, <3>1, <3>3 DEF WriteUser
      <4> QED  BY <2>7, <4>1 DEF Follows
    <3>4. CASE NextState(r) = "active"
      <4>1. user[r.user].state = "active" =>
               /\ user'[r.user].state = "active"
               /\ user'[r.user].pwd = user[r.user].pwd
        <5>1. user'[r.user] = Written(r) /\ user[r.user] \in User
          BY <1>3, <2>1, <2>2
        <5> QED  BY <3>1, <3>4, <5>1 DEF Written, User
      <4> QED  BY <1>5, <2>4, <2>5, <2>7, <4>1 DEF Follows
    <3> QED  BY <3>2, <3>3, <3>4
  <2> QED  BY <2>6, <2>7
<1>9. CASE InsertUser(c)
  <2>1. /\ pc[c] = "insert" /\ session' = session
        /\ \A u \in Users : user[u].state = "active" => user'[u] = user[u]
    BY <1>3, <1>9 DEF InsertUser
  <2> QED  BY <1>2, <2>1, FollowsKept
<1>10. CASE SetPassword(c)
  <2>1. /\ pc[c] = "setPassword" /\ session' = session
        /\ user' = [user EXCEPT ![r.user].pwd = @ + 1]
        /\ pc'[c] = "clear" /\ req'[c] = r
    BY <1>4, <1>10 DEF SetPassword
  <2>2. \A u \in Users \ {r.user} : user'[u] = user[u]
    BY <1>3, <2>1
  <2> SUFFICES ASSUME NEW s \in session
               PROVE  Follows(s)'
    BY <2>1 DEF SessionsFollowAccount, Follows
  <2>3. CASE s.user = r.user
    BY <2>1, <2>3 DEF Follows
  <2>4. CASE s.user # r.user
    BY <1>2, <1>3, <1>5, <2>1, <2>2, <2>4 DEF Follows
  <2> QED  BY <2>3, <2>4
<1>11. CASE ClearSessions(c)
  <2>1. /\ session' = {s \in session : s.user # r.user} /\ user' = user
    BY <1>11 DEF ClearSessions
  <2> SUFFICES ASSUME NEW s \in session, s.user # r.user
               PROVE  Follows(s)'
    BY <2>1 DEF SessionsFollowAccount, Follows
  <2> QED  BY <1>1, <1>5, <2>1 DEF Follows
<1>12. CASE DropRole(c)
  <2>1. /\ pc[c] = "dropRole" /\ session' = session
        /\ user' = [u \in Users |-> [user[u] EXCEPT !.roles = @ \ {r.row}]]
    BY <1>12 DEF DropRole
  <2>2. \A u \in Users : /\ user'[u].state = user[u].state
                         /\ user'[u].pwd = user[u].pwd
    BY <1>3, <2>1 DEF User
  <2> QED  BY <1>2, <2>1, <2>2, FollowsKept
<1> QED
  BY <1>7, <1>8, <1>9, <1>10, <1>11, <1>12 DEF DirectoryStep, AdminStep

\* A sign-in or a registration opens a session only of an account that follows.
LEMMA SessionSignIn ==
  ASSUME TypeInv, SessionsFollowAccount, NEW c \in Clients, SignInStep(c)
  PROVE  SessionsFollowAccount'
<1> DEFINE r == req[c]
<1>1. \A d \in Clients \ {c} : pc'[d] = pc[d] /\ req'[d] = req[d]
  BY OthersStay DEF TypeInv, DirInv
<1>2. pc[c] # "clear"
  BY DEF SignInStep, LoginStep, LoginRequest, RegisterRequest, PasswordRequest,
         Arrive, CheckLimit, DropLimit, Authenticate, ReadLimit, WriteLimit,
         ClearLimit, CreateSession, FindRole, FindName, Register,
         VerifyPassword, StorePassword
<1>3. \A d \in Clients : pc[d] = "clear" => pc'[d] = "clear" /\ req'[d] = req[d]
  BY <1>1, <1>2
<1>4. /\ user \in [Users -> User] /\ session \subseteq Session
      /\ \A s \in session : s.user \in Users
  BY DEF TypeInv, DirInv, DirTypeOK, Session
<1>5. \A s \in session : Follows(s)
  BY DEF SessionsFollowAccount, Follows
<1>6. CASE \/ LoginRequest(c) \/ RegisterRequest(c) \/ PasswordRequest(c)
           \/ CheckLimit(c) \/ DropLimit(c) \/ Authenticate(c) \/ ReadLimit(c)
           \/ WriteLimit(c) \/ ClearLimit(c) \/ FindRole(c) \/ FindName(c)
           \/ VerifyPassword(c)
  <2>1. UNCHANGED <<user, session>>
    BY <1>6 DEF LoginRequest, RegisterRequest, PasswordRequest, CheckLimit,
                DropLimit, Authenticate, ReadLimit, WriteLimit, ClearLimit,
                FindRole, FindName, VerifyPassword, dirVars
  <2> QED  BY <1>3, <2>1, FollowsKept
<1>7. CASE Register(c)
  <2>1. /\ session' = session
        /\ \A u \in Users : user[u].state = "active" => user'[u] = user[u]
    BY <1>4, <1>7 DEF Register
  <2> QED  BY <1>3, <2>1, FollowsKept
<1>8. CASE CreateSession(c)
  <2> DEFINE new == [user |-> r.user, pwd |-> r.pwd,
                     late |-> user[r.user].pwd # r.pwd
                               \/ user[r.user].state # "active"]
  <2>1. session' = session \cup {new} /\ user' = user
    BY <1>8 DEF CreateSession
  <2>2. ASSUME NEW s, s = new PROVE Follows(s)'
    BY <2>1, <2>2 DEF Follows
  <2>3. ASSUME NEW s \in session PROVE Follows(s)'
    BY <1>3, <1>5, <2>1 DEF Follows
  <2> QED  BY <2>1, <2>2, <2>3 DEF SessionsFollowAccount, Follows
<1>9. CASE StorePassword(c)
  <2>1. /\ user' = [user EXCEPT ![r.user].pwd = @ + 1]
        /\ session' = {IF s.user = r.user THEN [s EXCEPT !.late = TRUE]
                       ELSE s : s \in session}
    BY <1>9 DEF StorePassword
  <2> SUFFICES ASSUME NEW s \in session,
                      NEW t, t = IF s.user = r.user THEN [s EXCEPT !.late = TRUE]
                                 ELSE s
               PROVE  Follows(t)'
    BY <2>1 DEF SessionsFollowAccount, Follows
  <2>2. CASE s.user = r.user
    <3>1. t.late
      BY <1>4, <2>2 DEF Session
    <3> QED  BY <3>1 DEF Follows
  <2>3. CASE s.user # r.user
    <3>1. t = s /\ user'[s.user] = user[s.user]
      BY <1>4, <2>1, <2>3
    <3> QED  BY <1>3, <1>5, <3>1 DEF Follows
  <2> QED  BY <2>2, <2>3
<1> QED
  BY <1>6, <1>7, <1>8, <1>9 DEF SignInStep, LoginStep

\* Every step keeps sessions with their accounts: the inductive step of
\* SessionsFollow.
LEMMA SessionStep ==
  ASSUME TypeInv, SessionsFollowAccount, [Next]_vars
  PROVE  SessionsFollowAccount'
<1>1. CASE UNCHANGED vars
  BY <1>1 DEF vars, apiVars, dirVars, SessionsFollowAccount
<1>2. ASSUME NEW c \in Clients, ConfigPageStep(c)
      PROVE  SessionsFollowAccount'
  <2>1. UNCHANGED dirVars
    BY <1>2 DEF ConfigPageStep
  <2>2. pc[c] # "clear"
    BY <1>2
       DEF ConfigPageStep, ConfigStep, EditRequest, MarketRequest, Arrive,
           SeedConfig, InsertItems, FindBuiltin, InsertBuiltin, ReviseSeed,
           ReadVersion, FirstVersion,
           ReadItems, CheckVersion, WriteItem, NothingToWrite, WriteMarket,
           CreateRevision
  <2>3. \A d \in Clients : pc[d] = "clear" => pc'[d] = "clear" /\ req'[d] = req[d]
    BY <1>2, <2>2, OthersStay DEF TypeInv, DirInv
  <2> QED  BY <2>1, <2>3, FollowsKept DEF dirVars
<1>3. ASSUME Dies \/ \E c \in Clients : RequestFails(c)
      PROVE  SessionsFollowAccount'
  <2>1. PICK C \in SUBSET Clients :
           /\ Leave(C)
           /\ \A d \in Clients \ C : pc'[d] = pc[d] /\ req'[d] = req[d]
    <3>1. CASE Dies
      BY <3>1 DEF Dies
    <3>2. ASSUME NEW c \in Clients, RequestFails(c)
          PROVE  /\ Leave({c})
                 /\ \A d \in Clients \ {c} : pc'[d] = pc[d] /\ req'[d] = req[d]
      BY <3>2, OthersStay DEF RequestFails, TypeInv, DirInv
    <3> QED  BY <1>3, <3>1, <3>2
  <2>2. user' = user
    BY <1>3 DEF Dies, RequestFails
  <2>3. session' = {IF \E c \in C : pc[c] = "clear" /\ req[c].user = s.user
                    THEN [s EXCEPT !.late = TRUE] ELSE s : s \in session}
    BY <2>1 DEF Leave, Abandon
  <2> SUFFICES ASSUME NEW s \in session,
                      NEW t, t = IF \E c \in C : /\ pc[c] = "clear"
                                                 /\ req[c].user = s.user
                                 THEN [s EXCEPT !.late = TRUE] ELSE s
               PROVE  Follows(t)'
    BY <2>3 DEF SessionsFollowAccount, Follows
  <2>4. CASE \E c \in C : pc[c] = "clear" /\ req[c].user = s.user
    <3>1. t.late
      BY <2>4 DEF TypeInv, DirInv, DirTypeOK, Session
    <3> QED  BY <3>1 DEF Follows
  <2>5. CASE ~\E c \in C : pc[c] = "clear" /\ req[c].user = s.user
    <3>1. t = s
      BY <2>5
    <3>2. Follows(s)
      BY DEF SessionsFollowAccount, Follows
    <3> QED  BY <2>1, <2>2, <2>5, <3>1, <3>2 DEF Follows
  <2> QED  BY <2>4, <2>5
<1>4. ASSUME NEW u \in Users, WindowPasses(u)
      PROVE  SessionsFollowAccount'
  BY <1>4 DEF WindowPasses, apiVars, dirVars, SessionsFollowAccount
<1>5. ASSUME NEW s \in session, SessionEnds(s)
      PROVE  SessionsFollowAccount'
  BY <1>5, FollowsKept DEF SessionEnds, apiVars
<1>6. ASSUME Boot PROVE SessionsFollowAccount'
  <2>1. /\ session' \subseteq session
        /\ \A u \in Users : user[u].state = "active" =>
              /\ user'[u].state = user[u].state /\ user'[u].pwd = user[u].pwd
    <3>1. user \in [Users -> User]
      BY DEF TypeInv, DirInv, DirTypeOK
    <3>2. CASE ~authOn'
      BY <1>6, <3>2 DEF Boot
    <3>3. CASE authOn' /\ \E u \in Users : Present(u)
      <4>1. user' = Migrated(BuiltinRoles) /\ session' \subseteq session
        BY <1>6, <3>3 DEF Boot, Seed
      <4> QED  BY <3>1, <4>1 DEF Migrated, User
    <3>4. CASE authOn' /\ ~\E u \in Users : Present(u)
      <4>1. /\ session' = session
            /\ \A u \in Users : user[u].state # "active"
        BY <1>6, <3>4 DEF Boot, Seed, Present
      <4> QED  BY <4>1
    <3> QED  BY <3>2, <3>3, <3>4
  <2>2. UNCHANGED <<pc, req>>
    BY <1>6 DEF Boot
  <2> QED  BY <2>1, <2>2, FollowsKept
<1> QED
  BY <1>1, <1>2, <1>3, <1>4, <1>5, <1>6, SessionUsers, SessionSignIn
     DEF Next, NextOnPage

\* Disabling or deleting a user and a reset of the password end the sessions
\* opened before, but those of a login that was under way, of a user who
\* changed the password, and of a request that failed before it cleared them.
THEOREM SessionsFollow == Spec => []SessionsFollowAccount
<1>1. Init => TypeInv /\ SessionsFollowAccount
  BY InitTyped DEF Init, DirInit, SessionsFollowAccount
<1>2. TypeInv /\ SessionsFollowAccount /\ [Next]_vars
         => (TypeInv /\ SessionsFollowAccount)'
  BY NextTyped, SessionStep
<1> QED  BY <1>1, <1>2, PTL DEF Spec

=============================================================================
