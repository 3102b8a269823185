---------------------------- MODULE AnalysisQueue ----------------------------
(***************************************************************************)
(* The analysis task queue: the analysis_tasks and analysis_schedules      *)
(* tables, the API requests that submit tasks and edit schedules, and the  *)
(* worker loops that trigger due schedules, recover stale tasks, claim a   *)
(* pending task and drive it through the Agent to a terminal status.       *)
(*                                                                         *)
(* One action is one database statement, one short transaction, or one     *)
(* await on an outside service: everything between two awaits of the       *)
(* TypeScript runs alone in its process, and two processes meet only in    *)
(* the database.  The trigger transaction stays open across an await, so   *)
(* its row lock on the schedule is state (rowLock) and its writes appear   *)
(* at its commit.                                                          *)
(*                                                                         *)
(* A definition whose name has an underscore is the next definition with a *)
(* mistake in it: no specification uses it, and a property that TLC does   *)
(* not find violated when the one replaces the other would be idle.        *)
(***************************************************************************)
EXTENDS Integers, FiniteSets

CONSTANTS
    Workers,        \* worker processes (worker.ts, or embedded in the API)
    Clients,        \* API requests that may be in flight at once
    Keys,           \* (owner, stock) pairs
    Schedules,      \* schedule ids, each used once (a UUID)
    Variants,       \* (interval, execution mode) pairs of a schedule
    IntervalOf,     \* IntervalOf[v]: the interval of v, in ticks
    None,           \* the null of the tables
    StaleTimeout,   \* ANALYSIS_TASK_STALE_TIMEOUT_MS, in ticks
    MaxTask,        \* bound: rows ever inserted in analysis_tasks
    MaxTime,        \* bound: ticks of the clock
    MaxFaults,      \* bound: crashes and failed database calls
    MaxStops        \* bound: SIGTERM/SIGINT received by workers

ASSUME ConstantsAssumption ==
    /\ IntervalOf \in [Variants -> Nat \ {0}]
    /\ StaleTimeout \in Nat \ {0}
    /\ {MaxTask, MaxTime, MaxFaults, MaxStops} \subseteq Nat
    /\ None \notin Workers \cup Keys \cup Schedules \cup Variants \cup BOOLEAN

VARIABLES
    now,        \* the wall clock the processes share
    created,    \* rows inserted so far: ids 1..created, in creation order
    task,       \* task[t]: a row of analysis_tasks
    history,    \* history[t]: analysis_history rows with query_id = t
    sched,      \* sched[s]: a row of analysis_schedules
    rowLock,    \* rowLock[s]: the worker whose open transaction locks row s
    pc,         \* pc[w]: the await at which worker w is suspended
    cur,        \* cur[w]: the task in the hands of w, 0 for none
    stale,      \* stale[w]: rows w read as stale and has not yet visited
    cand,       \* cand[w]: the due schedule w read, as it read it
    req,        \* req[c]: the in-flight API request of client c
    faults, stops   \* faults and stops so far

tables == <<created, task, history, sched, rowLock>>
local  == <<pc, cur, stale, cand>>
budget == <<faults, stops>>
vars   == <<now, tables, local, req, budget>>

TaskId == 1 .. MaxTask
NotStarted == -1

Terminal == {"completed", "failed"}
Active   == {"pending", "processing"}

Task == [status    : {"absent"} \cup Active \cup Terminal,
         key       : Keys \cup {None},
         sched     : Schedules \cup {None},
         startedAt : Nat \cup {NotStarted}]

Sched == [state      : {"unborn", "live", "deleted"},
          key        : Keys \cup {None},
          variant    : Variants \cup {None},
          enabled    : BOOLEAN,
          nextRunAt  : Nat,
          lastTask   : 0 .. MaxTask,
          lastStatus : {"idle", "pending", "processing", "completed",
                        "failed", "skipped"}]

Cand == [sched : Schedules \cup {None}, key : Keys \cup {None},
         slot : Nat, next : Nat, active : 0 .. MaxTask]

Req == [op : {"idle", "submit", "patch"}, key : Keys \cup {None},
        sched : Schedules \cup {None}, variant : Variants \cup {None},
        enabled : BOOLEAN, nextRunAt : Nat]

NoTask  == [status |-> "absent", key |-> None, sched |-> None,
            startedAt |-> NotStarted]
NoSched == [state |-> "unborn", key |-> None, variant |-> None,
            enabled |-> FALSE, nextRunAt |-> 0, lastTask |-> 0,
            lastStatus |-> "idle"]
NoCand  == [sched |-> None, key |-> None, slot |-> 0, next |-> 0, active |-> 0]
NoReq   == [op |-> "idle", key |-> None, sched |-> None, variant |-> None,
            enabled |-> FALSE, nextRunAt |-> 0]

(***************************************************************************)
(* Where a worker can be suspended.  A worker at a LoopPc owns no task; a  *)
(* worker at a HandlerPc runs handleTask for cur[w].                       *)
(***************************************************************************)
LoopPcs    == {"recover", "reap", "trigger", "claim", "active", "skip",
               "payload", "pick", "lock"}
TxPcs      == {"active", "skip", "payload"}
HandlerPcs == {"syncStart", "run", "history", "complete", "fail",
               "syncCompleted", "syncFailed"}
SyncPcs    == {"reapSync", "syncStart", "syncCompleted", "syncFailed"}
Pcs        == {"down", "reapSync"} \cup LoopPcs \cup HandlerPcs

Handling(w) == pc[w] \in HandlerPcs

Goto(w, label) == pc' = [pc EXCEPT ![w] = label]
Hold(w, t)     == cur' = [cur EXCEPT ![w] = t]

InitWith(rows) ==
    /\ now = 0
    /\ created = 0
    /\ task = [t \in TaskId |-> NoTask]
    /\ history = [t \in TaskId |-> 0]
    /\ sched = rows
    /\ rowLock = [s \in Schedules |-> None]
    /\ pc = [w \in Workers |-> "recover"]
    /\ cur = [w \in Workers |-> 0]
    /\ stale = [w \in Workers |-> {}]
    /\ cand = [w \in Workers |-> NoCand]
    /\ req = [c \in Clients |-> NoReq]
    /\ faults = 0
    /\ stops = 0

Init == InitWith([s \in Schedules |-> NoSched])

(***************************************************************************)
(* Rows.                                                                   *)
(***************************************************************************)
NewTask(k, s, st) ==
    [status |-> st, key |-> k, sched |-> s, startedAt |-> NotStarted]

Insert(row) ==
    /\ created < MaxTask
    /\ created' = created + 1
    /\ task' = [task EXCEPT ![created + 1] = row]

\* findActiveTaskForOwnerStock: the pending and processing rows of k.
ActiveTasks(k) ==
    {t \in TaskId : task[t].key = k /\ task[t].status \in Active}

IsStale_AnyAge(t) == task[t].status = "processing"

IsStale_Reversed(t) ==
    /\ task[t].status = "processing"
    /\ now + StaleTimeout <= task[t].startedAt

IsStale(t) ==
    /\ task[t].status = "processing"
    /\ task[t].startedAt + StaleTimeout <= now

\* An insert in progress has its row of the bounded table reserved.
Inserting ==
    {c \in Clients : req[c].op = "submit"}
        \cup {w \in Workers : pc[w] \in {"claim", "active", "payload"}}

Room == created + Cardinality(Inserting) < MaxTask

(***************************************************************************)
(* recordScheduleTaskState: only the schedule whose last task is t hears   *)
(* of it.  The statement waits for a row it matches that is locked.        *)
(***************************************************************************)
Hears_AnyTask(s, t) ==
    /\ s = task[t].sched
    /\ sched[s].state = "live"

Hears(s, t) ==
    /\ s = task[t].sched
    /\ sched[s].state = "live"
    /\ sched[s].lastTask = t

RecordScheduleTaskState(t, st) ==
    /\ \A s \in Schedules : Hears(s, t) => rowLock[s] = None
    /\ sched' = [s \in Schedules |->
                    IF Hears(s, t) THEN [sched[s] EXCEPT !.lastStatus = st]
                                   ELSE sched[s]]

-----------------------------------------------------------------------------
(***************************************************************************)
(* API requests.                                                           *)
(***************************************************************************)

\* POST /analyze with async_mode: no active task for the pair was found.
\* (When one is, the request ends in 409 and changes nothing.)
SubmitCheck(c, k) ==
    /\ req[c].op = "idle"
    /\ ActiveTasks(k) = {}
    /\ Room
    /\ req' = [req EXCEPT ![c] = [NoReq EXCEPT !.op = "submit", !.key = k]]
    /\ UNCHANGED <<now, tables, local, budget>>

\* The payload is built by now; the row is inserted without a second check.
SubmitInsert(c) ==
    /\ req[c].op = "submit"
    /\ Insert(NewTask(req[c].key, None, "pending"))
    /\ req' = [req EXCEPT ![c] = NoReq]
    /\ UNCHANGED <<now, history, sched, rowLock, local, budget>>

\* Building the payload throws, or the request dies with its process.
RequestAborts(c) ==
    /\ req[c].op # "idle"
    /\ req' = [req EXCEPT ![c] = NoReq]
    /\ UNCHANGED <<now, tables, local, budget>>

\* The unique index over owner, stock, interval and mode.
Duplicate(k, v, except) ==
    \E s \in Schedules \ {except} :
        sched[s].state = "live" /\ sched[s].key = k /\ sched[s].variant = v

CreateSchedule(s, k, v) ==
    /\ sched[s].state = "unborn"
    /\ ~Duplicate(k, v, s)
    /\ sched' = [sched EXCEPT ![s] =
            [NoSched EXCEPT !.state = "live", !.key = k, !.variant = v,
                            !.enabled = TRUE, !.nextRunAt = now]]
    /\ UNCHANGED <<now, created, task, history, rowLock, local, req, budget>>

\* updateSchedule reads the row and computes the whole new row from it;
\* k, v and e are the fields the request gives, None for those it omits.
PatchRead(c, s, k, v, e) ==
    LET row     == sched[s]
        enabled == IF e = None THEN row.enabled ELSE e
        changed == k # None \/ v # None
        resumed == enabled /\ ~row.enabled
    IN
    /\ req[c].op = "idle"
    /\ row.state = "live"
    /\ <<k, v, e>> # <<None, None, None>>
    /\ req' = [req EXCEPT ![c] =
            [op        |-> "patch",
             sched     |-> s,
             key       |-> IF k = None THEN row.key ELSE k,
             variant   |-> IF v = None THEN row.variant ELSE v,
             enabled   |-> enabled,
             nextRunAt |-> IF enabled /\ (changed \/ resumed)
                           THEN now ELSE row.nextRunAt]]
    /\ UNCHANGED <<now, tables, local, budget>>

PatchWrite(c) ==
    LET r == req[c] IN
    /\ r.op = "patch"
    /\ sched[r.sched].state = "live"
    /\ rowLock[r.sched] = None
    /\ ~Duplicate(r.key, r.variant, r.sched)
    /\ sched' = [sched EXCEPT ![r.sched] =
            [@ EXCEPT !.key = r.key, !.variant = r.variant,
                      !.enabled = r.enabled, !.nextRunAt = r.nextRunAt]]
    /\ req' = [req EXCEPT ![c] = NoReq]
    /\ UNCHANGED <<now, created, task, history, rowLock, local, budget>>

\* The foreign key of analysis_tasks is ON DELETE SET NULL.
DeleteSchedule(s) ==
    /\ sched[s].state = "live"
    /\ rowLock[s] = None
    /\ sched' = [sched EXCEPT ![s] = [NoSched EXCEPT !.state = "deleted"]]
    /\ task' = [t \in TaskId |->
            IF task[t].sched = s THEN [task[t] EXCEPT !.sched = None]
                                 ELSE task[t]]
    /\ UNCHANGED <<now, created, history, rowLock, local, req, budget>>

-----------------------------------------------------------------------------
(***************************************************************************)
(* The worker loop: recover stale tasks, then trigger one due schedule,    *)
(* and only if none was triggered process one task.                        *)
(***************************************************************************)

FindStale(w) ==
    /\ pc[w] = "recover"
    /\ stale' = [stale EXCEPT ![w] = {t \in TaskId : IsStale(t)}]
    /\ Goto(w, IF stale'[w] = {} THEN "trigger" ELSE "reap")
    /\ UNCHANGED <<now, tables, cur, cand, req, budget>>

\* The rows are visited oldest start first.
NextStale(w, t) ==
    /\ t \in stale[w]
    /\ \A u \in stale[w] : task[t].startedAt <= task[u].startedAt

Reap_ById(w, t) ==
    /\ pc[w] = "reap"
    /\ NextStale(w, t)
    /\ stale' = [stale EXCEPT ![w] = @ \ {t}]
    /\ task' = [task EXCEPT ![t] = [@ EXCEPT !.status = "failed"]]
    /\ Goto(w, "reapSync")
    /\ Hold(w, t)
    /\ UNCHANGED <<now, created, history, sched, rowLock, cand, req, budget>>

Reap_Requeues(w, t) ==
    /\ pc[w] = "reap"
    /\ NextStale(w, t)
    /\ IsStale(t)
    /\ stale' = [stale EXCEPT ![w] = @ \ {t}]
    /\ task' = [task EXCEPT ![t] = [@ EXCEPT !.status = "pending"]]
    /\ Goto(w, "trigger")
    /\ UNCHANGED <<now, created, history, sched, rowLock, cur, cand, req,
                   budget>>

\* The conditional update of a stale row.  completedAt is null exactly while
\* a row is not terminal, so the status condition covers it.
Reap(w, t) ==
    /\ pc[w] = "reap"
    /\ NextStale(w, t)
    /\ stale' = [stale EXCEPT ![w] = @ \ {t}]
    /\ IF IsStale(t)
       THEN /\ task' = [task EXCEPT ![t] = [@ EXCEPT !.status = "failed"]]
            /\ Goto(w, "reapSync")
            /\ Hold(w, t)
       ELSE /\ Goto(w, IF stale'[w] = {} THEN "trigger" ELSE "reap")
            /\ UNCHANGED <<task, cur>>
    /\ UNCHANGED <<now, created, history, sched, rowLock, cand, req, budget>>

AfterSync(w) ==
    /\ Goto(w, CASE pc[w] = "syncStart" -> "run"
                 [] pc[w] = "reapSync" /\ stale[w] # {} -> "reap"
                 [] pc[w] = "reapSync" /\ stale[w] = {} -> "trigger"
                 [] OTHER -> "recover")
    /\ IF pc[w] = "syncStart" THEN UNCHANGED cur ELSE Hold(w, 0)
    /\ UNCHANGED <<now, created, task, history, rowLock, stale, cand, req>>

SyncedStatus_Reason(w) ==
    CASE pc[w] = "syncStart" -> "processing"
      [] pc[w] = "syncCompleted" -> "completed"
      [] pc[w] = "reapSync" -> "stale"
      [] OTHER -> "failed"

SyncedStatus(w) ==
    CASE pc[w] = "syncStart" -> "processing"
      [] pc[w] = "syncCompleted" -> "completed"
      [] OTHER -> "failed"

SyncScheduleState(w) ==
    /\ pc[w] \in SyncPcs
    /\ RecordScheduleTaskState(cur[w], SyncedStatus(w))
    /\ AfterSync(w)
    /\ UNCHANGED budget

\* syncScheduleState swallows the error of a failed update.
SyncLost(w) ==
    /\ pc[w] \in SyncPcs
    /\ faults < MaxFaults
    /\ faults' = faults + 1
    /\ AfterSync(w)
    /\ UNCHANGED <<sched, stops>>

(***************************************************************************)
(* triggerNextDueSchedule.                                                 *)
(***************************************************************************)
Due(s) ==
    /\ sched[s].state = "live"
    /\ sched[s].enabled
    /\ sched[s].nextRunAt <= now

DueFirst_WhenSettled(s) ==
    Due(s) /\ sched[s].lastStatus \notin {"pending", "processing"}

DueFirst(s) == Due(s) /\ \A u \in Schedules :
                            Due(u) => sched[s].nextRunAt <= sched[u].nextRunAt

FindDue(w, s) ==
    /\ pc[w] = "trigger"
    /\ DueFirst(s)
    /\ Room
    /\ cand' = [cand EXCEPT ![w] =
            [sched |-> s, key |-> sched[s].key, slot |-> sched[s].nextRunAt,
             next |-> now + IntervalOf[sched[s].variant], active |-> 0]]
    /\ Goto(w, "claim")
    /\ UNCHANGED <<now, tables, cur, stale, req, budget>>

NoneDue(w) ==
    /\ pc[w] = "trigger"
    /\ ~(Room /\ \E s \in Schedules : DueFirst(s))
    /\ Goto(w, "pick")
    /\ UNCHANGED <<now, tables, cur, stale, cand, req, budget>>

Claim_ById(w) ==
    /\ pc[w] = "claim"
    /\ rowLock[cand[w].sched] = None
    /\ rowLock' = [rowLock EXCEPT ![cand[w].sched] = w]
    /\ Goto(w, "active")
    /\ UNCHANGED <<now, created, task, history, sched, cur, stale, cand, req,
                   budget>>

\* The transaction opens: the claim holds if the schedule is still enabled
\* and still at the slot that was read.  It keeps the row locked.
Claim(w) ==
    LET s == cand[w].sched IN
    /\ pc[w] = "claim"
    /\ rowLock[s] = None
    /\ IF /\ sched[s].state = "live"
          /\ sched[s].enabled
          /\ sched[s].nextRunAt = cand[w].slot
       THEN /\ rowLock' = [rowLock EXCEPT ![s] = w]
            /\ Goto(w, "active")
            /\ UNCHANGED cand
       ELSE /\ Goto(w, "pick")
            /\ cand' = [cand EXCEPT ![w] = NoCand]
            /\ UNCHANGED rowLock
    /\ UNCHANGED <<now, created, task, history, sched, cur, stale, req, budget>>

\* The newest active task of the pair the schedule had when it was read.
FindActive(w, t) ==
    /\ pc[w] = "active"
    /\ t \in ActiveTasks(cand[w].key)
    /\ \A u \in ActiveTasks(cand[w].key) : u <= t
    /\ cand' = [cand EXCEPT ![w].active = t]
    /\ Goto(w, "skip")
    /\ UNCHANGED <<now, tables, cur, stale, req, budget>>

NoActive(w) ==
    /\ pc[w] = "active"
    /\ ActiveTasks(cand[w].key) = {}
    /\ Goto(w, "payload")
    /\ UNCHANGED <<now, tables, cur, stale, cand, req, budget>>

\* COMMIT of the trigger transaction: its writes to the schedule appear.
CommitTrigger(w, t, st) ==
    LET s == cand[w].sched IN
    /\ sched' = [sched EXCEPT ![s] =
            [@ EXCEPT !.nextRunAt = cand[w].next,
                      !.lastTask = t, !.lastStatus = st]]
    /\ rowLock' = [rowLock EXCEPT ![s] = None]
    /\ cand' = [cand EXCEPT ![w] = NoCand]
    /\ Goto(w, "recover")

SkipSlot(w) ==
    /\ pc[w] = "skip"
    /\ CommitTrigger(w, cand[w].active, "skipped")
    /\ UNCHANGED <<now, created, task, history, cur, stale, req, budget>>

\* The payload was built (pending), or building it threw (failed).
FireSlot(w, st) ==
    /\ pc[w] = "payload"
    /\ Insert(NewTask(cand[w].key, cand[w].sched, st))
    /\ CommitTrigger(w, created + 1, st)
    /\ UNCHANGED <<now, history, cur, stale, req, budget>>

(***************************************************************************)
(* processOne and handleTask.                                              *)
(***************************************************************************)
Pending == {t \in TaskId : task[t].status = "pending"}

\* Every creator leaves priority and run_after at their defaults, so the
\* order of the queue is the order of creation.
PickPending(w, t) ==
    /\ pc[w] = "pick"
    /\ t \in Pending
    /\ \A u \in Pending : t <= u
    /\ Hold(w, t)
    /\ Goto(w, "lock")
    /\ UNCHANGED <<now, tables, stale, cand, req, budget>>

\* Nothing to do: sleep, then loop.
Idle(w) ==
    /\ pc[w] = "pick"
    /\ Pending = {}
    /\ Goto(w, "recover")
    /\ UNCHANGED <<now, tables, cur, stale, cand, req, budget>>

LockTask_ById(w) ==
    /\ pc[w] = "lock"
    /\ task' = [task EXCEPT ![cur[w]] =
            [@ EXCEPT !.status = "processing", !.startedAt = now]]
    /\ Goto(w, "syncStart")
    /\ UNCHANGED <<now, created, history, sched, rowLock, cur, stale, cand,
                   req, budget>>

LockTask(w) ==
    LET t == cur[w] IN
    /\ pc[w] = "lock"
    /\ IF task[t].status = "pending"
       THEN /\ task' = [task EXCEPT ![t] =
                            [@ EXCEPT !.status = "processing",
                                      !.startedAt = now]]
            /\ Goto(w, "syncStart")
            /\ UNCHANGED cur
       ELSE /\ Goto(w, "recover")
            /\ Hold(w, 0)
            /\ UNCHANGED task
    /\ UNCHANGED <<now, created, history, sched, rowLock, stale, cand, req,
                   budget>>

RunSucceeds_CompletesFirst(w) ==
    /\ pc[w] = "run"
    /\ Goto(w, "complete")
    /\ UNCHANGED <<now, tables, cur, stale, cand, req, budget>>

\* The Agent run, the mapping of its result and the auto order succeed.
RunSucceeds(w) ==
    /\ pc[w] = "run"
    /\ Goto(w, "history")
    /\ UNCHANGED <<now, tables, cur, stale, cand, req, budget>>

WriteHistory(w) ==
    /\ pc[w] = "history"
    /\ history' = [history EXCEPT ![cur[w]] = @ + 1]
    /\ Goto(w, "complete")
    /\ UNCHANGED <<now, created, task, sched, rowLock, cur, stale, cand, req,
                   budget>>

\* The update names the row by id only: it does not ask who finished it.
MarkCompleted(w) ==
    /\ pc[w] = "complete"
    /\ task' = [task EXCEPT ![cur[w]] = [@ EXCEPT !.status = "completed"]]
    /\ Goto(w, "syncCompleted")
    /\ UNCHANGED <<now, created, history, sched, rowLock, cur, stale, cand,
                   req, budget>>

\* Anything in the try block throws: the Agent bridge, the auto order, the
\* history insert, the news insert or the completing update.
HandlerThrows(w) ==
    /\ pc[w] \in {"run", "history", "complete"}
    /\ Goto(w, "fail")
    /\ UNCHANGED <<now, tables, cur, stale, cand, req, budget>>

MarkFailed(w) ==
    /\ pc[w] = "fail"
    /\ task' = [task EXCEPT ![cur[w]] = [@ EXCEPT !.status = "failed"]]
    /\ Goto(w, "syncFailed")
    /\ UNCHANGED <<now, created, history, sched, rowLock, cur, stale, cand,
                   req, budget>>

-----------------------------------------------------------------------------
(***************************************************************************)
(* Faults.                                                                 *)
(***************************************************************************)

\* A worker lets go of everything it holds in memory and in a transaction.
Forget(w) ==
    /\ cur' = [cur EXCEPT ![w] = 0]
    /\ stale' = [stale EXCEPT ![w] = {}]
    /\ cand' = [cand EXCEPT ![w] = NoCand]
    /\ rowLock' = [s \in Schedules |->
                      IF rowLock[s] = w THEN None ELSE rowLock[s]]
    /\ UNCHANGED <<now, created, task, history, sched, req>>

\* An orphan of a fault becomes stale before the bounded clock stops.
FaultAllowed ==
    /\ faults < MaxFaults
    /\ now + StaleTimeout <= MaxTime
    /\ faults' = faults + 1

\* A database call throws out of the iteration: an open trigger transaction
\* is rolled back, handleTask cannot read its row, or the update of its catch
\* fails as well.
LoopThrows(w) ==
    /\ pc[w] \in LoopPcs \cup {"run", "fail"}
    /\ FaultAllowed
    /\ Goto(w, "recover")
    /\ Forget(w)
    /\ UNCHANGED stops

Crash(w) ==
    /\ pc[w] # "down"
    /\ FaultAllowed
    /\ Goto(w, "down")
    /\ Forget(w)
    /\ UNCHANGED stops

\* SIGTERM: stop() clears the loop flag, nobody awaits the iteration under
\* way, and process.exit ends it wherever it is.
Terminate(w) ==
    /\ pc[w] # "down"
    /\ stops < MaxStops
    /\ now + StaleTimeout <= MaxTime
    /\ stops' = stops + 1
    /\ Goto(w, "down")
    /\ Forget(w)
    /\ UNCHANGED faults

\* restart: unless-stopped
Restart(w) ==
    /\ pc[w] = "down"
    /\ Goto(w, "recover")
    /\ UNCHANGED <<now, tables, cur, stale, cand, req, budget>>

Tick ==
    /\ now < MaxTime
    /\ now' = now + 1
    /\ UNCHANGED <<tables, local, req, budget>>

-----------------------------------------------------------------------------
ClientStep(c) ==
    \/ \E k \in Keys : SubmitCheck(c, k)
    \/ SubmitInsert(c)
    \/ RequestAborts(c)
    \/ \E s \in Schedules, k \in Keys \cup {None}, v \in Variants \cup {None},
          e \in BOOLEAN \cup {None} : PatchRead(c, s, k, v, e)
    \/ PatchWrite(c)

LoopStep(w) ==
    \/ FindStale(w)
    \/ \E t \in TaskId : Reap(w, t)
    \/ \E s \in Schedules : FindDue(w, s)
    \/ NoneDue(w)
    \/ Claim(w)
    \/ \E t \in TaskId : FindActive(w, t)
    \/ NoActive(w)
    \/ SkipSlot(w)
    \/ \E st \in {"pending", "failed"} : FireSlot(w, st)
    \/ \E t \in TaskId : PickPending(w, t)
    \/ Idle(w)
    \/ LockTask(w)

HandlerStep(w) ==
    \/ RunSucceeds(w)
    \/ WriteHistory(w)
    \/ MarkCompleted(w)
    \/ HandlerThrows(w)
    \/ MarkFailed(w)

WorkerStep(w) == LoopStep(w) \/ SyncScheduleState(w) \/ HandlerStep(w)

FaultStep(w) == SyncLost(w) \/ LoopThrows(w) \/ Crash(w) \/ Terminate(w)

Next ==
    \/ \E c \in Clients : ClientStep(c)
    \/ \E s \in Schedules : DeleteSchedule(s)
    \/ \E s \in Schedules, k \in Keys, v \in Variants : CreateSchedule(s, k, v)
    \/ \E w \in Workers : WorkerStep(w) \/ FaultStep(w) \/ Restart(w)
    \/ Tick

Spec == Init /\ [][Next]_vars

\* A live process keeps executing, a dead one is restarted, and time passes.
\* Nothing is assumed of users, of faults, or of the Agent's answers except
\* that the bridge's poll budget makes each run end.
Fairness ==
    /\ \A w \in Workers : WF_vars(WorkerStep(w)) /\ WF_vars(Restart(w))
    /\ WF_vars(Tick)

FairSpec == Spec /\ Fairness

-----------------------------------------------------------------------------
TaskTypes ==
    /\ created \in 0 .. MaxTask
    /\ task \in [TaskId -> Task]
    /\ history \in [TaskId -> Nat]

ScheduleTypes ==
    /\ sched \in [Schedules -> Sched]
    /\ rowLock \in [Schedules -> Workers \cup {None}]

WorkerTypes ==
    /\ pc \in [Workers -> Pcs]
    /\ cur \in [Workers -> 0 .. MaxTask]
    /\ stale \in [Workers -> SUBSET TaskId]
    /\ cand \in [Workers -> Cand]

OtherTypes ==
    /\ now \in Nat
    /\ req \in [Clients -> Req]
    /\ faults \in Nat
    /\ stops \in Nat

TypeOK == TaskTypes /\ ScheduleTypes /\ WorkerTypes /\ OtherTypes

(***************************************************************************)
(* Safety.                                                                 *)
(***************************************************************************)

\* Two workers never run handleTask for the same task: what the conditional
\* lock of processOne is for (task-worker.service.ts:682).
SingleConsumer ==
    \A v, w \in Workers :
        (v # w /\ Handling(v) /\ Handling(w)) => cur[v] # cur[w]

\* A task publishes at most one analysis_history row, and a completed one has
\* its row, whatever crashed, was reaped or was restarted on the way.
HistoryMatchesTask ==
    \A t \in TaskId :
        /\ history[t] <= 1
        /\ task[t].status = "completed" => history[t] = 1
        /\ task[t].startedAt = NotStarted => history[t] = 0

\* What a schedule reports of its last task is never ahead of that task: it
\* says completed only of a completed task, failed only of a finished one and
\* processing only of one that was taken, although the two rows are written
\* by separate statements, possibly of two workers, in any order.
ScheduleNeverAhead ==
    \A s \in Schedules : sched[s].state = "live" =>
        LET t == sched[s].lastTask IN
        /\ sched[s].lastStatus = "idle" <=> t = 0
        /\ t # 0 => /\ task[t].status # "absent"
                    /\ CASE sched[s].lastStatus = "completed" ->
                                task[t].status = "completed"
                         [] sched[s].lastStatus = "failed" ->
                                task[t].status \in Terminal
                         [] sched[s].lastStatus = "processing" ->
                                task[t].status # "pending"
                         [] OTHER -> TRUE

(***************************************************************************)
(* Action properties.                                                      *)
(***************************************************************************)

\* A completed task stays completed: the stale sweep of another worker, which
\* read the row while it was processing, must not turn it into a failure.
CompletedIsFinal ==
    [][\A t \in TaskId : task[t].status = "completed"
                            => task'[t].status = "completed"]_vars

\* A processing task fails only by its own handler or after the timeout.
FailsForAReason ==
    [][\A t \in TaskId :
         (task[t].status = "processing" /\ task'[t].status = "failed") =>
            \/ \E w \in Workers : pc[w] = "fail" /\ cur[w] = t
            \/ task[t].startedAt + StaleTimeout <= now]_vars

\* A schedule fires only a slot that is due and enabled at the commit, and
\* the commit moves it on: two workers never fire one slot twice, and a
\* schedule paused or moved while a worker was on its way does not fire.
FiresDueSlotOnce ==
    [][\A s \in Schedules :
         (created' = created + 1 /\ task'[created'].sched = s) =>
            /\ Due(s)
            /\ sched'[s].nextRunAt > sched[s].nextRunAt]_vars

(***************************************************************************)
(* The abstract promise about every task.                                  *)
(***************************************************************************)
Lifecycle ==
    INSTANCE TaskLifecycle WITH
        status    <- [t \in TaskId |-> task[t].status],
        started   <- {t \in TaskId : task[t].startedAt # NotStarted},
        published <- history

ImplementsLifecycle == Lifecycle!Spec

(***************************************************************************)
(* Liveness.                                                               *)
(***************************************************************************)

\* Every queued task reaches a terminal status, through crashes too: its own
\* handler finishes it or some worker's sweep does.
EveryTaskSettles ==
    \A t \in TaskId :
        task[t].status \in Active ~> task[t].status \in Terminal

\* No due slot waits for ever, neither behind the other due schedules, the
\* sweep and the claims of other workers nor behind an active task of its
\* stock: the slot is fired, skipped or edited away, by a commit that moves the
\* row on, or the bounded table is full.  A claim that is rolled back leaves
\* the slot where it was (triggerNextDueSchedule).
DueScheduleAttended ==
    \A s \in Schedules, slot \in 0 .. MaxTime :
        (Due(s) /\ sched[s].nextRunAt = slot)
            ~> (~Due(s) \/ sched[s].nextRunAt # slot \/ created = MaxTask)

(***************************************************************************)
(* Two things the repository says of the queue that its code does not      *)
(* ensure; each is the property of a run that finds a counterexample.      *)
(***************************************************************************)

\* worker.ts:39: stopping a worker leaves no half-processed task behind.
NoHalfProcessedTask ==
    \A t \in TaskId : task[t].status = "processing" =>
        \E w \in Workers : Handling(w) /\ cur[w] = t

\* One active task for an owner and a stock (the 409 duplicate guard).
NoDuplicateActiveTask ==
    \A k \in Keys : Cardinality(ActiveTasks(k)) <= 1

=============================================================================
