------------------------------ MODULE AdminConsole ------------------------------
(***************************************************************************)
(* The API process as its administrators see it: the user and role pages,  *)
(* signing in, and the configuration page, all requests of one process     *)
(* over one database, with calls that fail, deaths and restarts.           *)
(***************************************************************************)
EXTENDS AdminDirectory, LoginSessions, SystemConfig

VARIABLE page   \* bound: a behaviour makes requests of one kind, to the
                \* "accounts" or the "config" pages, which share no table

Requests == UserCall \cup RoleCall \cup LoginCall \cup RegisterCall
            \cup PasswordCall \cup EditCall \cup MarketCall

\* Null is not a request.
ASSUME RequestConstants == None \notin Requests

vars == <<apiVars, dirVars, limitVars, configVars, page>>

Init ==
    /\ ApiInit /\ up = FALSE /\ DirInit /\ LoginInit /\ ConfigInit
    /\ page \in {"accounts", "config"}
    /\ page = "config" => \A u \in Users : user[u] = NoUser
    /\ page = "accounts" => envKeys = {}

\* What requests C leave undone when they fail: see each component.
Leave(C) == Abandon(C) /\ Uncounted(C) /\ Tears(C)

RequestFails(c) ==
    /\ CallFails(c)
    /\ Leave({c})
    /\ UNCHANGED <<authOn, user, role, overtaken, limit, guesses,
                   envKeys, item, version, published>>

Dies ==
    /\ ProcessDies
    /\ Leave(Clients)
    /\ UNCHANGED <<authOn, user, role, overtaken, limit, guesses,
                   envKeys, item, version, published>>

DirectoryStep(c) ==
    /\ page = "accounts"
    /\ AdminRequest(c) \/ RoleRequest(c) \/ AdminStep(c)
    /\ UNCHANGED <<limitVars, configVars>>

SignInStep(c) ==
    /\ page = "accounts"
    /\ LoginRequest(c) \/ RegisterRequest(c) \/ PasswordRequest(c)
       \/ LoginStep(c)
    /\ UNCHANGED configVars

ConfigPageStep(c) ==
    /\ page = "config"
    /\ EditRequest(c) \/ MarketRequest(c) \/ ConfigStep(c)
    /\ UNCHANGED <<dirVars, limitVars>>

NextOnPage ==
    \/ \E c \in Clients : \/ DirectoryStep(c) \/ SignInStep(c)
                          \/ ConfigPageStep(c) \/ RequestFails(c)
    \/ \E u \in Users : WindowPasses(u) /\ UNCHANGED configVars
    \/ \E s \in session : SessionEnds(s) /\ UNCHANGED configVars
    \/ Boot /\ UNCHANGED <<limitVars, configVars>>
    \/ Dies

Next == NextOnPage /\ UNCHANGED page

Spec == Init /\ [][Next]_vars

(***************************************************************************)
(* Properties.                                                             *)
(***************************************************************************)
\* Types of the tables and of the requests in progress.
TypeOK ==
    /\ \A c \in Clients : /\ req[c] \in Requests \cup {None}
                          /\ pc[c] = "idle" <=> req[c] = None
    /\ up \in BOOLEAN
    /\ requests \in 0 .. MaxRequests
    /\ faults \in 0 .. MaxFaults
    /\ DirTypeOK /\ LoginTypeOK /\ ConfigTypeOK

\* ensureNotLastAdmin: the last active administrator is lost only by a request
\* that was overtaken, between loading its user and writing it, by another
\* commit to the users.
LastAdminKept ==
    [][authOn /\ authOn' /\ ActiveAdmins # {} /\ ActiveAdmins' = {}
       => \E c \in overtaken : pc[c] = "write"]_vars

\* A disabled user becomes active only by a request that says so, or by one
\* that was overtaken and writes back the status it had read.
EnabledAsAsked ==
    [][\A u \in Users :
          user[u].state = "disabled" /\ user'[u].state = "active"
          => \E c \in Clients : /\ pc[c] = "write" /\ req[c].user = u
                                /\ req[c].status = "active" \/ c \in overtaken
      ]_vars

\* While authentication is on, every user that is not deleted holds one role,
\* which is live and is admin or user: the guard, which reads the roles of a
\* session whether live or not, and the admin handlers, which read live ones,
\* agree on who is an administrator.
OneRoleEach ==
    up /\ authOn =>
        \A u \in Users : Present(u) =>
            \E r \in RoleRows : /\ user[u].roles = {r}
                                /\ LiveRole(role, r)
                                /\ role[r].code \in {"admin", "user"}

\* softDelete of a role takes it from nobody who had it when its users were
\* counted: whoever loses it was given it by a commit in between.
RoleDeletionSpares ==
    [][\A c \in Clients, u \in Users :
          /\ pc[c] = "dropRole" /\ pc'[c] = "idle"
          /\ Present(u) /\ user'[u].roles # user[u].roles
          => c \in overtaken]_vars

\* Disabling, deleting and resetting the password of a user end the sessions
\* opened before.  Those that stay are of a login that was under way, of a
\* user who changed the password himself, or of a request that failed before
\* it cleared them.
SessionsFollowAccount ==
    \A s \in session :
        \/ user[s.user].state = "active" /\ s.pwd = user[s.user].pwd
        \/ s.late
        \/ \E c \in Clients : pc[c] = "clear" /\ req[c].user = s.user

\* While no write of the counter was based on a stale read or lost with its
\* request, a window lets no more wrong passwords be tried than the limit and
\* the logins in flight.
GuessesLimited ==
    \A u \in Users \ blurred :
        guesses[u] <= MaxFailures + Cardinality(Clients) - 1

\* A version stands for the items that were there when it was created, unless
\* a writer is between its first item and its revision or failed there: that
\* is what makes the version check of updateConfig worth something.
VersionNamesContent ==
    \/ item = published
    \/ torn
    \/ \E c \in Clients : Unversioned(c)

=============================================================================
