------------------------- MODULE AnalysisQueueProofs -------------------------
(***************************************************************************)
(* Theorems about AnalysisQueue, for any number of workers, clients,       *)
(* schedules, keys and tasks, any timeout and any bounds.                  *)
(***************************************************************************)
EXTENDS AnalysisQueue, TLAPS

-----------------------------------------------------------------------------
(***************************************************************************)
(* Who writes what.  A proof about one table has a case for each action    *)
(* that writes it and one for all the others together.                     *)
(***************************************************************************)
WritesTasks ==
    \/ \E c \in Clients : SubmitInsert(c)
    \/ \E s \in Schedules : DeleteSchedule(s)
    \/ \E w \in Workers :
          \/ \E t \in TaskId : Reap(w, t)
          \/ \E st \in {"pending", "failed"} : FireSlot(w, st)
          \/ LockTask(w)
          \/ WriteHistory(w)
          \/ MarkCompleted(w)
          \/ MarkFailed(w)

WritesSchedules ==
    \/ \E s \in Schedules : DeleteSchedule(s)
    \/ \E s \in Schedules, k \in Keys, v \in Variants :
          CreateSchedule(s, k, v)
    \/ \E c \in Clients : PatchWrite(c)
    \/ \E w \in Workers :
          \/ Claim(w)
          \/ SkipSlot(w)
          \/ \E st \in {"pending", "failed"} : FireSlot(w, st)
          \/ SyncScheduleState(w)
          \/ LoopThrows(w) \/ Crash(w) \/ Terminate(w)

\* Reading a schedule for a patch writes no table and no worker's state.
LEMMA PatchReadFrame ==
  ASSUME NEW c \in Clients, NEW s, NEW k, NEW v, NEW e,
         PatchRead(c, s, k, v, e)
  PROVE  UNCHANGED <<now, created, task, history, sched, rowLock,
                     pc, cur, stale, cand, faults, stops>>
  BY DEF PatchRead, tables, local, budget

\* Every action that writes a table of tasks is one of WritesTasks.
LEMMA TaskFrame ==
  [Next]_vars => WritesTasks \/ UNCHANGED <<created, task, history>>
<1> SUFFICES ASSUME [Next]_vars, ~WritesTasks
             PROVE  UNCHANGED <<created, task, history>>
  OBVIOUS
<1>1. CASE \E c \in Clients : ClientStep(c)
  BY <1>1, PatchReadFrame
     DEF ClientStep, WritesTasks, SubmitCheck, RequestAborts, PatchWrite,
         tables
<1>2. CASE \E s \in Schedules : DeleteSchedule(s)
  BY <1>2 DEF WritesTasks
<1>3. CASE \E s \in Schedules, k \in Keys, v \in Variants :
              CreateSchedule(s, k, v)
  BY <1>3 DEF CreateSchedule
<1>4. CASE \E w \in Workers : WorkerStep(w)
  BY <1>4
     DEF WorkerStep, LoopStep, HandlerStep, WritesTasks, FindStale, FindDue,
         NoneDue, Claim, FindActive, NoActive, SkipSlot, PickPending, Idle,
         SyncScheduleState, AfterSync, RunSucceeds, HandlerThrows, tables
<1>5. CASE \E w \in Workers : FaultStep(w) \/ Restart(w)
  BY <1>5
     DEF FaultStep, SyncLost, AfterSync, LoopThrows, Crash, Terminate, Forget,
         Restart, tables
<1>6. CASE Tick \/ UNCHANGED vars
  BY <1>6 DEF Tick, vars, tables
<1> QED  BY <1>1, <1>2, <1>3, <1>4, <1>5, <1>6 DEF Next

\* Every action that writes a schedule or its lock is one of WritesSchedules.
LEMMA ScheduleFrame ==
  [Next]_vars => WritesSchedules \/ UNCHANGED <<sched, rowLock>>
<1> SUFFICES ASSUME [Next]_vars, ~WritesSchedules
             PROVE  UNCHANGED <<sched, rowLock>>
  OBVIOUS
<1>1. CASE \E c \in Clients : ClientStep(c)
  BY <1>1, PatchReadFrame
     DEF ClientStep, WritesSchedules, SubmitCheck, SubmitInsert, RequestAborts,
         tables
<1>2. CASE \/ \E s \in Schedules : DeleteSchedule(s)
           \/ \E s \in Schedules, k \in Keys, v \in Variants :
                 CreateSchedule(s, k, v)
  BY <1>2 DEF WritesSchedules
<1>3. CASE \E w \in Workers : LoopStep(w)
  BY <1>3
     DEF LoopStep, WritesSchedules, FindStale, Reap, FindDue, NoneDue,
         FindActive, NoActive, PickPending, Idle, LockTask, tables
<1>4. CASE \E w \in Workers : SyncScheduleState(w) \/ HandlerStep(w)
  BY <1>4
     DEF HandlerStep, WritesSchedules, RunSucceeds, WriteHistory,
         MarkCompleted, HandlerThrows, MarkFailed, tables
<1>5. CASE \E w \in Workers : FaultStep(w) \/ Restart(w)
  BY <1>5 DEF FaultStep, WritesSchedules, SyncLost, AfterSync, Restart, tables
<1>6. CASE Tick \/ UNCHANGED vars
  BY <1>6 DEF Tick, vars, tables
<1> QED  BY <1>1, <1>2, <1>3, <1>4, <1>5, <1>6 DEF Next, WorkerStep

Moves(w) == WorkerStep(w) \/ FaultStep(w) \/ Restart(w)

\* A step moves one worker, or none.
LEMMA WorkerFrame ==
  [Next]_vars => (\E w \in Workers : Moves(w)) \/ UNCHANGED local
<1> SUFFICES ASSUME [Next]_vars
             PROVE  (\E w \in Workers : Moves(w)) \/ UNCHANGED local
  OBVIOUS
<1>1. CASE \E c \in Clients : ClientStep(c)
  BY <1>1, PatchReadFrame
     DEF ClientStep, SubmitCheck, SubmitInsert, RequestAborts, PatchWrite,
         local
<1>2. CASE \/ \E s \in Schedules : DeleteSchedule(s)
           \/ \E s \in Schedules, k \in Keys, v \in Variants :
                 CreateSchedule(s, k, v)
  BY <1>2 DEF DeleteSchedule, CreateSchedule
<1>3. CASE Tick \/ UNCHANGED vars
  BY <1>3 DEF Tick, vars
<1> QED  BY <1>1, <1>2, <1>3 DEF Next, Moves

-----------------------------------------------------------------------------
(***************************************************************************)
(* Types.  TypeOK alone is not inductive: the trigger reads the interval   *)
(* of the schedule it found, a patch writes what its request holds, and    *)
(* both records have null fields when nothing is in flight.                *)
(***************************************************************************)
LiveSchedulesFilled ==
    \A s \in Schedules : sched[s].state = "live" =>
        sched[s].key \in Keys /\ sched[s].variant \in Variants

RequestsFilled ==
    \A c \in Clients :
        /\ req[c].op = "patch" => /\ req[c].sched \in Schedules
                                  /\ req[c].key \in Keys
                                  /\ req[c].variant \in Variants
        /\ req[c].op = "submit" => req[c].key \in Keys

CandidatesFilled ==
    \A w \in Workers : pc[w] \in {"claim"} \cup TxPcs =>
        cand[w].sched \in Schedules /\ cand[w].key \in Keys

ScheduleInv == ScheduleTypes /\ LiveSchedulesFilled
WorkerInv   == WorkerTypes /\ CandidatesFilled
RequestInv  == OtherTypes /\ RequestsFilled

TypeInv == TaskTypes /\ ScheduleInv /\ WorkerInv /\ RequestInv

\* Every table is well-formed before the first request.
LEMMA TypeInvInit == Init => TypeInv
  BY ConstantsAssumption
     DEF Init, InitWith, TypeInv, TaskTypes, ScheduleInv, WorkerInv, RequestInv,
         ScheduleTypes, WorkerTypes, OtherTypes, LiveSchedulesFilled,
         RequestsFilled, CandidatesFilled, TaskId, Task, Sched, Cand, Req,
         NoTask, NoSched, NoCand, NoReq, Pcs, LoopPcs, HandlerPcs, TxPcs,
         NotStarted, Active, Terminal

\* Updating one entry of a table keeps its type if the new row has it.
LEMMA UpdateTyped ==
  ASSUME NEW S, NEW T, NEW f \in [S -> T], NEW x, NEW v, x \in S => v \in T
  PROVE  [f EXCEPT ![x] = v] \in [S -> T]
  OBVIOUS

\* The row a handler or the sweep writes at the end of a task is a task row.
LEMMA TaskFinishTyped ==
  ASSUME NEW r \in Task, NEW st \in Terminal
  PROVE  [r EXCEPT !.status = st] \in Task
  BY DEF Task

\* So is the row that the lock of processOne writes.
LEMMA TaskStartTyped ==
  ASSUME NEW r \in Task, NEW n \in Nat
  PROVE  [r EXCEPT !.status = "processing", !.startedAt = n] \in Task
  BY DEF Task, Active

\* Likewise for schedules: the row before its creation is typed,
LEMMA NoSchedTyped == NoSched \in Sched
  BY ConstantsAssumption DEF Sched, NoSched

\* ... the row of createSchedule,
LEMMA SchedCreateTyped ==
  ASSUME NEW k \in Keys, NEW v \in Variants, NEW n \in Nat
  PROVE  [NoSched EXCEPT !.state = "live", !.key = k, !.variant = v,
                         !.enabled = TRUE, !.nextRunAt = n] \in Sched
  BY NoSchedTyped DEF Sched

\* ... the empty row deleteSchedule leaves,
LEMMA SchedDeleteTyped == [NoSched EXCEPT !.state = "deleted"] \in Sched
  BY NoSchedTyped DEF Sched

\* ... the row of updateSchedule,
LEMMA SchedPatchTyped ==
  ASSUME NEW r \in Sched, NEW k \in Keys, NEW v \in Variants,
         NEW e \in BOOLEAN, NEW n \in Nat
  PROVE  [r EXCEPT !.key = k, !.variant = v, !.enabled = e, !.nextRunAt = n]
            \in Sched
  BY DEF Sched

\* ... and the row a trigger commits.
LEMMA SchedTriggerTyped ==
  ASSUME NEW r \in Sched, NEW n \in Nat, NEW t \in 0 .. MaxTask,
         NEW st \in {"pending", "failed", "skipped"}
  PROVE  [r EXCEPT !.nextRunAt = n, !.lastTask = t, !.lastStatus = st]
            \in Sched
  BY DEF Sched

\* No step writes an ill-formed task row.
LEMMA TaskTypesStep ==
  ASSUME TypeInv, [Next]_vars
  PROVE  TaskTypes'
<1> USE DEF TypeInv
<1>1. CASE UNCHANGED <<created, task, history>>
  BY <1>1 DEF TaskTypes
<1>2. ASSUME NEW c \in Clients, SubmitInsert(c) PROVE TaskTypes'
  BY <1>2, ConstantsAssumption
     DEF SubmitInsert, Insert, NewTask, TaskTypes, TaskId, Task, NotStarted,
         Active, RequestInv, RequestsFilled
<1>3. ASSUME NEW s \in Schedules, DeleteSchedule(s) PROVE TaskTypes'
  BY <1>3 DEF DeleteSchedule, TaskTypes, Task
<1>4. ASSUME NEW w \in Workers, NEW st \in {"pending", "failed"},
             FireSlot(w, st)
      PROVE  TaskTypes'
  BY <1>4, ConstantsAssumption
     DEF FireSlot, Insert, NewTask, TaskTypes, TaskId, Task, NotStarted,
         Active, Terminal, WorkerInv, CandidatesFilled, TxPcs
<1>5. ASSUME NEW w \in Workers, NEW t \in TaskId, Reap(w, t)
      PROVE  TaskTypes'
  <2>1. [task[t] EXCEPT !.status = "failed"] \in Task
    BY TaskFinishTyped DEF TaskTypes, Terminal
  <2>2. task' \in [TaskId -> Task]
    BY <1>5, <2>1, UpdateTyped DEF Reap, TaskTypes
  <2> QED  BY <1>5, <2>2 DEF Reap, TaskTypes
<1>6. ASSUME NEW w \in Workers, LockTask(w) PROVE TaskTypes'
  <2>1. task \in [TaskId -> Task] /\ now \in Nat
    BY DEF TaskTypes, RequestInv, OtherTypes
  <2>2. cur[w] \in TaskId =>
            [task[cur[w]] EXCEPT !.status = "processing", !.startedAt = now]
                \in Task
    BY <2>1, TaskStartTyped
  <2>3. task' \in [TaskId -> Task]
    BY <1>6, <2>1, <2>2, UpdateTyped DEF LockTask
  <2> QED  BY <1>6, <2>3 DEF LockTask, TaskTypes
<1>7. ASSUME NEW w \in Workers, WriteHistory(w) PROVE TaskTypes'
  <2>1. cur[w] \in TaskId => history[cur[w]] + 1 \in Nat
    BY DEF TaskTypes
  <2>2. history' \in [TaskId -> Nat]
    BY <1>7, <2>1, UpdateTyped DEF WriteHistory, TaskTypes
  <2> QED  BY <1>7, <2>2 DEF WriteHistory, TaskTypes
<1>8. ASSUME NEW w \in Workers, MarkCompleted(w) \/ MarkFailed(w)
      PROVE  TaskTypes'
  BY <1>8, TaskFinishTyped, UpdateTyped
     DEF MarkCompleted, MarkFailed, TaskTypes, Terminal
<1> QED
  BY <1>1, <1>2, <1>3, <1>4, <1>5, <1>6, <1>7, <1>8, TaskFrame DEF WritesTasks

\* No step writes an ill-formed schedule.
LEMMA ScheduleInvStep ==
  ASSUME TypeInv, [Next]_vars
  PROVE  ScheduleInv'
<1> USE DEF TypeInv
<1>1. CASE UNCHANGED <<sched, rowLock>>
  BY <1>1 DEF ScheduleInv, ScheduleTypes, LiveSchedulesFilled
<1>2. ASSUME NEW s \in Schedules, DeleteSchedule(s) PROVE ScheduleInv'
  <2>1. sched' \in [Schedules -> Sched]
    BY <1>2, SchedDeleteTyped, UpdateTyped
       DEF DeleteSchedule, ScheduleInv, ScheduleTypes
  <2> QED
    BY <1>2, <2>1 DEF DeleteSchedule, ScheduleInv, ScheduleTypes,
                      LiveSchedulesFilled, NoSched
<1>3. ASSUME NEW s \in Schedules, NEW k \in Keys, NEW v \in Variants,
             CreateSchedule(s, k, v)
      PROVE  ScheduleInv'
  <2>1. now \in Nat
    BY DEF RequestInv, OtherTypes
  <2>2. sched' \in [Schedules -> Sched]
    BY <1>3, <2>1, SchedCreateTyped, UpdateTyped
       DEF CreateSchedule, ScheduleInv, ScheduleTypes
  <2> QED
    BY <1>3, <2>2 DEF CreateSchedule, ScheduleInv, ScheduleTypes,
                      LiveSchedulesFilled, NoSched
<1>4. ASSUME NEW c \in Clients, PatchWrite(c) PROVE ScheduleInv'
  <2>1. PICK r \in Req : /\ r = req[c]
                         /\ r.sched \in Schedules
                         /\ r.key \in Keys /\ r.variant \in Variants
                         /\ r.enabled \in BOOLEAN /\ r.nextRunAt \in Nat
    BY <1>4 DEF PatchWrite, RequestInv, OtherTypes, RequestsFilled, Req
  <2>2. [sched[r.sched] EXCEPT !.key = r.key, !.variant = r.variant,
            !.enabled = r.enabled, !.nextRunAt = r.nextRunAt] \in Sched
    BY <2>1, SchedPatchTyped DEF ScheduleInv, ScheduleTypes
  <2>3. sched' \in [Schedules -> Sched]
    BY <1>4, <2>1, <2>2, UpdateTyped DEF PatchWrite, ScheduleInv, ScheduleTypes
  <2>4. /\ sched'[r.sched].key = r.key /\ sched'[r.sched].variant = r.variant
        /\ \A s \in Schedules \ {r.sched} : sched'[s] = sched[s]
    BY <1>4, <2>1 DEF PatchWrite, ScheduleInv, ScheduleTypes, Sched
  <2>5. LiveSchedulesFilled'
    BY <2>1, <2>4 DEF ScheduleInv, LiveSchedulesFilled
  <2> QED
    BY <1>4, <2>3, <2>5 DEF PatchWrite, ScheduleInv, ScheduleTypes
<1>5. ASSUME NEW w \in Workers, Claim(w) PROVE ScheduleInv'
  BY <1>5 DEF Claim, ScheduleInv, ScheduleTypes, LiveSchedulesFilled
<1>6. ASSUME NEW w \in Workers, NEW t \in 0 .. MaxTask,
             NEW st \in {"pending", "failed", "skipped"},
             pc[w] \in TxPcs, CommitTrigger(w, t, st)
      PROVE  ScheduleInv'
  <2>1. cand[w].next \in Nat /\ cand[w].sched \in Schedules
    BY <1>6 DEF WorkerInv, WorkerTypes, CandidatesFilled, Cand
  <2>2. [sched[cand[w].sched] EXCEPT !.nextRunAt = cand[w].next,
            !.lastTask = t, !.lastStatus = st] \in Sched
    BY <2>1, SchedTriggerTyped DEF ScheduleInv, ScheduleTypes
  <2>3. sched' \in [Schedules -> Sched]
    BY <1>6, <2>2, UpdateTyped DEF CommitTrigger, ScheduleInv, ScheduleTypes
  <2>4. \A s \in Schedules :
           /\ sched'[s].key = sched[s].key /\ sched'[s].variant = sched[s].variant
           /\ sched'[s].state = sched[s].state
    BY <1>6, <2>1 DEF CommitTrigger, ScheduleInv, ScheduleTypes, Sched
  <2>5. LiveSchedulesFilled'
    BY <2>4 DEF ScheduleInv, LiveSchedulesFilled
  <2> QED
    BY <1>6, <2>1, <2>3, <2>5 DEF CommitTrigger, ScheduleInv, ScheduleTypes
<1>7. ASSUME NEW w \in Workers, SkipSlot(w) PROVE ScheduleInv'
  <2>1. cand[w].active \in 0 .. MaxTask
    BY DEF WorkerInv, WorkerTypes, Cand
  <2> QED  BY <1>6, <1>7, <2>1 DEF SkipSlot, TxPcs
<1>8. ASSUME NEW w \in Workers, NEW st \in {"pending", "failed"},
             FireSlot(w, st)
      PROVE  ScheduleInv'
  <2>1. created + 1 \in 0 .. MaxTask
    BY <1>8, ConstantsAssumption DEF FireSlot, Insert, TaskTypes
  <2> QED  BY <1>6, <1>8, <2>1 DEF FireSlot, TxPcs
<1>9. ASSUME NEW w \in Workers, SyncScheduleState(w) PROVE ScheduleInv'
  BY <1>9 DEF SyncScheduleState, RecordScheduleTaskState, SyncedStatus,
              AfterSync, Hears, ScheduleInv, ScheduleTypes,
              LiveSchedulesFilled, Sched
<1>10. ASSUME NEW w \in Workers, LoopThrows(w) \/ Crash(w) \/ Terminate(w)
       PROVE  ScheduleInv'
  BY <1>10 DEF LoopThrows, Crash, Terminate, Forget, ScheduleInv,
               ScheduleTypes, LiveSchedulesFilled
<1> QED
  BY <1>1, <1>2, <1>3, <1>4, <1>5, <1>7, <1>8, <1>9, <1>10, ScheduleFrame
     DEF WritesSchedules

\* A worker without a candidate schedule is well-formed.
LEMMA NoCandTyped == NoCand \in Cand
  BY ConstantsAssumption DEF NoCand, Cand

\* No step leaves a worker somewhere unknown or with an ill-formed candidate.
LEMMA WorkerInvStep ==
  ASSUME TypeInv, [Next]_vars
  PROVE  WorkerInv'
<1> USE DEF TypeInv, WorkerInv, WorkerTypes, CandidatesFilled, TxPcs
<1>1. CASE UNCHANGED local
  BY <1>1 DEF local
<1>2. ASSUME NEW w \in Workers,
             \/ NoneDue(w) \/ NoActive(w) \/ Idle(w)
             \/ RunSucceeds(w) \/ WriteHistory(w) \/ MarkCompleted(w)
             \/ HandlerThrows(w) \/ MarkFailed(w) \/ Restart(w)
      PROVE  WorkerInv'
  BY <1>2 DEF NoneDue, NoActive, Idle, RunSucceeds, WriteHistory,
              MarkCompleted, HandlerThrows, MarkFailed, Restart, Goto,
              Pcs, LoopPcs, HandlerPcs
<1>3. ASSUME NEW w \in Workers, NEW t \in TaskId,
             FindActive(w, t) \/ PickPending(w, t)
      PROVE  WorkerInv'
  <2>1. t \in 0 .. MaxTask
    BY ConstantsAssumption DEF TaskId
  <2>2. CASE FindActive(w, t)
    BY <2>1, <2>2 DEF FindActive, Goto, Cand, Pcs, LoopPcs
  <2>3. CASE PickPending(w, t)
    BY <2>1, <2>3 DEF PickPending, Goto, Hold, Pcs, LoopPcs
  <2> QED  BY <1>3, <2>2, <2>3
<1>4. ASSUME NEW w \in Workers, FindStale(w) PROVE WorkerInv'
  BY <1>4 DEF FindStale, Goto, Pcs, LoopPcs
<1>5. ASSUME NEW w \in Workers, NEW t \in TaskId, Reap(w, t)
      PROVE  WorkerInv'
  <2>1. stale' \in [Workers -> SUBSET TaskId]
    BY <1>5 DEF Reap
  <2>2. cur' \in [Workers -> 0 .. MaxTask]
    BY <1>5, ConstantsAssumption DEF Reap, Hold, TaskId
  <2>3. pc' \in [Workers -> Pcs]
    BY <1>5 DEF Reap, Goto, Pcs, LoopPcs
  <2> QED  BY <1>5, <2>1, <2>2, <2>3 DEF Reap, Goto
<1>6. ASSUME NEW w \in Workers, NEW s \in Schedules, FindDue(w, s)
      PROVE  WorkerInv'
  BY <1>6, ConstantsAssumption
     DEF FindDue, DueFirst, Due, Goto, Cand, Sched, ScheduleInv,
         ScheduleTypes, LiveSchedulesFilled, RequestInv, OtherTypes,
         Pcs, LoopPcs
<1>7. ASSUME NEW w \in Workers, Claim(w) PROVE WorkerInv'
  <2>1. cand' \in [Workers -> Cand]
    BY <1>7, NoCandTyped DEF Claim
  <2>2. pc' \in [Workers -> Pcs]
    BY <1>7 DEF Claim, Goto, Pcs, LoopPcs
  <2>3. CandidatesFilled'
    BY <1>7 DEF Claim, Goto
  <2> QED  BY <1>7, <2>1, <2>2, <2>3 DEF Claim
<1>8. ASSUME NEW w \in Workers, SkipSlot(w) PROVE WorkerInv'
  BY <1>8, NoCandTyped DEF SkipSlot, CommitTrigger, Goto, Pcs, LoopPcs
<1>9. ASSUME NEW w \in Workers, NEW st \in {"pending", "failed"},
             FireSlot(w, st)
      PROVE  WorkerInv'
  BY <1>9, NoCandTyped DEF FireSlot, CommitTrigger, Goto, Pcs, LoopPcs
<1>10. ASSUME NEW w \in Workers, LockTask(w) PROVE WorkerInv'
  BY <1>10, ConstantsAssumption
     DEF LockTask, Goto, Hold, Pcs, LoopPcs, HandlerPcs
<1>11. ASSUME NEW w \in Workers, SyncScheduleState(w) \/ SyncLost(w)
       PROVE  WorkerInv'
  <2>1. pc' \in [Workers -> Pcs]
    BY <1>11 DEF SyncScheduleState, SyncLost, AfterSync, Goto, Pcs, LoopPcs,
                 HandlerPcs
  <2>2. cur' \in [Workers -> 0 .. MaxTask]
    BY <1>11, ConstantsAssumption
       DEF SyncScheduleState, SyncLost, AfterSync, Hold
  <2>3. CandidatesFilled'
    BY <1>11 DEF SyncScheduleState, SyncLost, AfterSync, Goto
  <2> QED
    BY <1>11, <2>1, <2>2, <2>3 DEF SyncScheduleState, SyncLost, AfterSync
<1>12. ASSUME NEW w \in Workers, LoopThrows(w) \/ Crash(w) \/ Terminate(w)
       PROVE  WorkerInv'
  <2>1. Forget(w) /\ (Goto(w, "recover") \/ Goto(w, "down"))
    BY <1>12 DEF LoopThrows, Crash, Terminate
  <2> QED
    BY <2>1, NoCandTyped, ConstantsAssumption DEF Forget, Goto, Pcs, LoopPcs
<1> QED
  BY <1>1, <1>2, <1>3, <1>4, <1>5, <1>6, <1>7, <1>8, <1>9, <1>10, <1>11,
     <1>12, WorkerFrame
     DEF Moves, WorkerStep, LoopStep, HandlerStep, FaultStep

\* No step leaves a request, the clock or a counter ill-formed.
LEMMA RequestInvStep ==
  ASSUME TypeInv, [Next]_vars
  PROVE  RequestInv'
<1> USE DEF TypeInv, RequestInv, OtherTypes, RequestsFilled
<1>1. ASSUME NEW c \in Clients, NEW k \in Keys, SubmitCheck(c, k)
      PROVE  RequestInv'
  BY <1>1, ConstantsAssumption DEF SubmitCheck, Req, NoReq, budget
<1>2. ASSUME NEW c \in Clients,
             SubmitInsert(c) \/ RequestAborts(c) \/ PatchWrite(c)
      PROVE  RequestInv'
  <2>1. NoReq \in Req /\ NoReq.op = "idle"
    BY ConstantsAssumption DEF Req, NoReq
  <2>2. req' = [req EXCEPT ![c] = NoReq] /\ UNCHANGED <<now, faults, stops>>
    BY <1>2 DEF SubmitInsert, RequestAborts, PatchWrite, budget
  <2> QED  BY <2>1, <2>2
<1>3. ASSUME NEW c \in Clients, NEW s \in Schedules,
             NEW k \in Keys \cup {None}, NEW v \in Variants \cup {None},
             NEW e \in BOOLEAN \cup {None}, PatchRead(c, s, k, v, e)
      PROVE  RequestInv'
  BY <1>3, ConstantsAssumption
     DEF PatchRead, Req, Sched, ScheduleInv, ScheduleTypes,
         LiveSchedulesFilled, budget
<1>4. CASE UNCHANGED req /\ now' \in {now, now + 1}
              /\ faults' \in {faults, faults + 1}
              /\ stops' \in {stops, stops + 1}
  BY <1>4
<1>5. CASE (\E c \in Clients : ClientStep(c)) \/ UNCHANGED <<now, req, budget>>
  BY <1>1, <1>2, <1>3, <1>4, <1>5 DEF ClientStep, budget
<1>6. CASE Tick \/ \E s \in Schedules : DeleteSchedule(s)
  BY <1>4, <1>6 DEF Tick, DeleteSchedule, budget
<1>7. CASE \E s \in Schedules, k \in Keys, v \in Variants :
              CreateSchedule(s, k, v)
  BY <1>5, <1>7 DEF CreateSchedule
<1>8. CASE \E w \in Workers : LoopStep(w)
  BY <1>5, <1>8 DEF LoopStep, FindStale, Reap, FindDue, NoneDue, Claim,
       FindActive, NoActive, SkipSlot, FireSlot, PickPending, Idle, LockTask
<1>9. CASE \E w \in Workers : HandlerStep(w) \/ SyncScheduleState(w)
                                \/ Restart(w)
  BY <1>5, <1>9 DEF HandlerStep, SyncScheduleState, AfterSync, RunSucceeds,
       WriteHistory, MarkCompleted, HandlerThrows, MarkFailed, Restart
<1>10. CASE \E w \in Workers : FaultStep(w)
  BY <1>4, <1>10 DEF FaultStep, SyncLost, AfterSync, LoopThrows, Crash,
       Terminate, FaultAllowed, Forget
<1> QED
  BY <1>5, <1>6, <1>7, <1>8, <1>9, <1>10 DEF Next, WorkerStep, vars

\* The strengthened type invariant is inductive.
LEMMA TypeInvStep == TypeInv /\ [Next]_vars => TypeInv'
  BY TaskTypesStep, ScheduleInvStep, WorkerInvStep, RequestInvStep DEF TypeInv

\* TypeOK holds in every reachable state: no statement of a worker or of a
\* request, in whatever order they meet in the database, leaves a row,
\* a lock, a request or a worker outside the states the code knows.
THEOREM TypeCorrect == Spec => []TypeOK
<1>1. TypeInv => TypeOK
  BY DEF TypeInv, TypeOK, ScheduleInv, WorkerInv, RequestInv
<1> QED
  BY <1>1, TypeInvInit, TypeInvStep, PTL DEF Spec

-----------------------------------------------------------------------------
(***************************************************************************)
(* A task has one handler.  The three facts below are inductive together:  *)
(* what a row says of itself, what a worker knows of the row in its hands, *)
(* and that no two workers hold the same one.                              *)
(***************************************************************************)

\* startedAt is written once, when the task is taken, and never cleared.
RowsConsistent ==
    \A t \in TaskId :
        /\ task[t].status = "absent" <=> t > created
        /\ task[t].status \in {"absent", "pending"} =>
                task[t].startedAt = NotStarted
        /\ task[t].status \in {"processing", "completed"} =>
                task[t].startedAt # NotStarted

\* What w knows of the task t it is handling.
HoldsTask(w, t) ==
    /\ t \in TaskId
    /\ task[t].startedAt # NotStarted
    /\ pc[w] \in {"syncStart", "run", "history", "complete", "fail"} =>
            task[t].status \in {"processing", "failed"}
    /\ pc[w] \in {"syncStart", "run", "history"} => history[t] = 0
    /\ pc[w] = "complete" => history[t] = 1

HandsConsistent ==
    \A w \in Workers :
        /\ Handling(w) => HoldsTask(w, cur[w])
        /\ pc[w] = "lock" => cur[w] \in TaskId

TaskInv ==
    /\ TypeInv
    /\ RowsConsistent
    /\ HistoryMatchesTask
    /\ HandsConsistent
    /\ SingleConsumer

\* No task and no handler exist at the start.
LEMMA TaskInvInit == Init => TaskInv
<1> SUFFICES ASSUME Init PROVE TaskInv
  OBVIOUS
<1>1. RowsConsistent /\ HistoryMatchesTask
  BY DEF Init, InitWith, RowsConsistent, HistoryMatchesTask, NoTask, TaskId
<1>2. HandsConsistent /\ SingleConsumer
  BY DEF Init, InitWith, HandsConsistent, SingleConsumer, Handling, HandlerPcs
<1> QED  BY <1>1, <1>2, TypeInvInit DEF TaskInv

\* A step that changes neither the task tables nor what a worker holds, but
\* may let the worker w go on with its task to a place where it knows less,
\* or leave the task, keeps the invariant.
LEMMA HandsKept ==
  ASSUME TaskInv, TypeInv', UNCHANGED <<created, task, history>>,
         \A v \in Workers :
            \/ ~Handling(v)' /\ (pc'[v] = "lock" => cur'[v] \in TaskId)
            \/ /\ Handling(v) /\ cur'[v] = cur[v]
               /\ \/ pc'[v] = pc[v]
                  \/ pc[v] = "syncStart" /\ pc'[v] = "run"
                  \/ pc[v] = "run" /\ pc'[v] = "history"
                  \/ /\ pc[v] \in {"run", "history", "complete"}
                     /\ pc'[v] = "fail"
  PROVE  TaskInv'
<1> USE DEF TaskInv
<1>1. RowsConsistent' /\ HistoryMatchesTask'
  BY DEF RowsConsistent, HistoryMatchesTask
<1>2. HandsConsistent'
  BY DEF HandsConsistent, HoldsTask, Handling, HandlerPcs
<1>3. SingleConsumer'
  BY DEF SingleConsumer, Handling
<1> QED  BY <1>1, <1>2, <1>3

\* Every step keeps rows, hands and the single consumer in agreement.
LEMMA TaskInvStep == TaskInv /\ [Next]_vars => TaskInv'
<1> SUFFICES ASSUME TaskInv, [Next]_vars PROVE TaskInv'
  OBVIOUS
<1> USE DEF TaskInv
<1>t. TypeInv'
  BY TypeInvStep
<1>1. CASE ~WritesTasks
  <2>1. UNCHANGED <<created, task, history>>
    BY <1>1, TaskFrame
  <2>2. ASSUME NEW v \in Workers, NEW w \in Workers, Moves(w)
        PROVE  \/ ~Handling(v)' /\ (pc'[v] = "lock" => cur'[v] \in TaskId)
               \/ /\ Handling(v) /\ cur'[v] = cur[v]
                  /\ \/ pc'[v] = pc[v]
                     \/ pc[v] = "syncStart" /\ pc'[v] = "run"
                     \/ pc[v] = "run" /\ pc'[v] = "history"
                     \/ /\ pc[v] \in {"run", "history", "complete"}
                      /\ pc'[v] = "fail"
    <3>0. pc \in [Workers -> Pcs] /\ cur \in [Workers -> 0 .. MaxTask]
      BY DEF TypeInv, WorkerInv, WorkerTypes
    <3>1. CASE LoopStep(w)
      BY <1>1, <3>0, <3>1
         DEF LoopStep, WritesTasks, FindStale, FindDue, NoneDue, Claim,
             FindActive, NoActive, SkipSlot, CommitTrigger, PickPending, Idle,
             Goto, Hold, Handling, HandlerPcs, HandsConsistent
    <3>2. CASE HandlerStep(w)
      BY <1>1, <3>0, <3>2
         DEF HandlerStep, WritesTasks, RunSucceeds, HandlerThrows, Goto,
             Handling, HandlerPcs, HandsConsistent
    <3>3. CASE SyncScheduleState(w) \/ SyncLost(w)
      BY <3>0, <3>3
         DEF SyncScheduleState, SyncLost, AfterSync, Goto, Hold, Handling,
             HandlerPcs, HandsConsistent, SyncPcs
    <3>4. CASE LoopThrows(w) \/ Crash(w) \/ Terminate(w) \/ Restart(w)
      BY <3>0, <3>4
         DEF LoopThrows, Crash, Terminate, Restart, Forget, Goto, Handling,
             HandlerPcs, HandsConsistent
    <3> QED  BY <2>2, <3>1, <3>2, <3>3, <3>4 DEF Moves, WorkerStep, FaultStep
  <2>3. CASE UNCHANGED local
    BY <1>t, <2>1, <2>3, HandsKept DEF local, Handling, HandsConsistent
  <2> QED  BY <1>t, <2>1, <2>2, <2>3, HandsKept, WorkerFrame
<1>2. ASSUME NEW k, NEW s, NEW st \in {"pending", "failed"},
             Insert(NewTask(k, s, st)), UNCHANGED <<history, cur>>,
             \A v \in Workers : pc'[v] = pc[v] \/ pc'[v] = "recover"
      PROVE  TaskInv'
  <2>1. /\ created + 1 \in TaskId /\ task[created + 1].status = "absent"
        /\ task \in [TaskId -> Task] /\ created \in Nat
    BY <1>2, ConstantsAssumption
       DEF Insert, TaskId, TypeInv, TaskTypes, RowsConsistent
  <2>2. \A t \in TaskId : t # created + 1 => task'[t] = task[t]
    BY <1>2, <2>1 DEF Insert
  <2>3. /\ task'[created + 1].status = st
        /\ task'[created + 1].startedAt = NotStarted
        /\ history[created + 1] = 0
    BY <1>2, <2>1 DEF Insert, NewTask, RowsConsistent, HistoryMatchesTask
  <2>4. RowsConsistent'
    BY <1>2, <2>1, <2>2, <2>3 DEF Insert, RowsConsistent, TaskId
  <2>5. HistoryMatchesTask'
    BY <1>2, <2>1, <2>2, <2>3 DEF HistoryMatchesTask
  <2>6. \A v \in Workers : Handling(v) => cur[v] # created + 1
    BY <2>1 DEF RowsConsistent, HandsConsistent, HoldsTask
  <2>7. HandsConsistent' /\ SingleConsumer'
    BY <1>2, <2>2, <2>6
       DEF HandsConsistent, HoldsTask, SingleConsumer, Handling, HandlerPcs
  <2> QED  BY <1>t, <2>4, <2>5, <2>7
<1>3. ASSUME NEW c \in Clients, SubmitInsert(c) PROVE TaskInv'
  BY <1>2, <1>3 DEF SubmitInsert, local
<1>4. ASSUME NEW w \in Workers, NEW st \in {"pending", "failed"},
             FireSlot(w, st)
      PROVE  TaskInv'
  <2>1. pc \in [Workers -> Pcs]
    BY DEF TypeInv, WorkerInv, WorkerTypes
  <2> QED  BY <1>2, <1>4, <2>1 DEF FireSlot, CommitTrigger, Goto
<1>5. ASSUME NEW s \in Schedules, DeleteSchedule(s) PROVE TaskInv'
  <2>1. \A t \in TaskId : /\ task'[t].status = task[t].status
                          /\ task'[t].startedAt = task[t].startedAt
    BY <1>5 DEF DeleteSchedule, TypeInv, TaskTypes, Task
  <2>2. UNCHANGED <<created, history, pc, cur>>
    BY <1>5 DEF DeleteSchedule, local
  <2> QED
    BY <1>t, <2>1, <2>2 DEF RowsConsistent, HistoryMatchesTask,
       HandsConsistent, HoldsTask, SingleConsumer, Handling
<1>6. ASSUME NEW w \in Workers, NEW t \in TaskId, Reap(w, t) PROVE TaskInv'
  <2>1. /\ task \in [TaskId -> Task]
        /\ pc \in [Workers -> Pcs] /\ cur \in [Workers -> 0 .. MaxTask]
    BY DEF TypeInv, TaskTypes, WorkerInv, WorkerTypes
  <2>2. UNCHANGED <<created, history>>
    BY <1>6 DEF Reap
  <2>3. \A u \in TaskId :
          \/ task'[u] = task[u]
          \/ /\ task[u].status = "processing" /\ task'[u].status = "failed"
             /\ task'[u].startedAt = task[u].startedAt
    BY <1>6, <2>1 DEF Reap, IsStale, Task
  <2>4. RowsConsistent' /\ HistoryMatchesTask'
    BY <2>2, <2>3 DEF RowsConsistent, HistoryMatchesTask
  <2>5. \A v \in Workers : \/ pc'[v] = pc[v] /\ cur'[v] = cur[v]
                           \/ pc'[v] \in {"reapSync", "trigger", "reap"}
    BY <1>6, <2>1 DEF Reap, Goto, Hold
  <2>6. HandsConsistent' /\ SingleConsumer'
    BY <2>2, <2>3, <2>5
       DEF HandsConsistent, HoldsTask, SingleConsumer, Handling, HandlerPcs
  <2> QED  BY <1>t, <2>4, <2>6
<1>7. ASSUME NEW w \in Workers, LockTask(w) PROVE TaskInv'
  <2>1. /\ task \in [TaskId -> Task] /\ now \in Nat /\ cur[w] \in TaskId
        /\ pc \in [Workers -> Pcs] /\ cur \in [Workers -> 0 .. MaxTask]
        /\ pc[w] = "lock"
    BY <1>7
       DEF LockTask, TypeInv, TaskTypes, WorkerInv, WorkerTypes, RequestInv,
           OtherTypes, HandsConsistent
  <2>2. CASE task[cur[w]].status = "pending"
    <3>1. /\ UNCHANGED <<created, history, cur>>
          /\ \A v \in Workers : pc'[v] = IF v = w THEN "syncStart" ELSE pc[v]
          /\ task'[cur[w]] = [task[cur[w]] EXCEPT !.status = "processing",
                                                !.startedAt = now]
          /\ \A u \in TaskId : u # cur[w] => task'[u] = task[u]
      BY <1>7, <2>1, <2>2 DEF LockTask, Goto
    <3>2. /\ task'[cur[w]].status = "processing"
          /\ task'[cur[w]].startedAt # NotStarted
      BY <2>1, <3>1 DEF Task, NotStarted
    <3>3. task[cur[w]].startedAt = NotStarted /\ history[cur[w]] = 0
      BY <2>1, <2>2 DEF RowsConsistent, HistoryMatchesTask
    <3>4. RowsConsistent'
      <4> SUFFICES ASSUME NEW t \in TaskId
                   PROVE  /\ task'[t].status = "absent" <=> t > created
                          /\ task'[t].status \in {"absent", "pending"} =>
                                task'[t].startedAt = NotStarted
                          /\ task'[t].status \in {"processing", "completed"} =>
                                task'[t].startedAt # NotStarted
        BY <3>1, Zenon DEF RowsConsistent
      <4>1. CASE t = cur[w]
        BY <2>2, <3>2, <4>1 DEF RowsConsistent
      <4>2. CASE t # cur[w]
        BY <3>1, <4>2 DEF RowsConsistent
      <4> QED  BY <4>1, <4>2
    <3>5. HistoryMatchesTask'
      <4> SUFFICES ASSUME NEW t \in TaskId
                   PROVE  /\ history[t] <= 1
                          /\ task'[t].status = "completed" => history[t] = 1
                          /\ task'[t].startedAt = NotStarted => history[t] = 0
        BY <3>1, Zenon DEF HistoryMatchesTask
      <4>1. CASE t = cur[w]
        BY <3>2, <3>3, <4>1 DEF HistoryMatchesTask
      <4>2. CASE t # cur[w]
        BY <3>1, <4>2 DEF HistoryMatchesTask
      <4> QED  BY <4>1, <4>2
    <3>6. \A v \in Workers : Handling(v) => cur[v] # cur[w]
      BY <3>3 DEF HandsConsistent, HoldsTask
    <3>7. HandsConsistent'
      <4>1. HoldsTask(w, cur[w])'
        BY <2>1, <3>2, <3>1, <3>3 DEF HoldsTask
      <4>2. ASSUME NEW v \in Workers, v # w, Handling(v)
            PROVE  HoldsTask(v, cur[v])'
        BY <2>1, <3>1, <3>6, <4>2 DEF HandsConsistent, HoldsTask
      <4> QED
        BY <2>1, <3>1, <4>1, <4>2 DEF HandsConsistent, Handling
    <3>8. SingleConsumer'
      BY <2>1, <3>1, <3>6 DEF SingleConsumer, Handling
    <3> QED  BY <1>t, <3>4, <3>5, <3>7, <3>8
  <2>3. CASE task[cur[w]].status # "pending"
    <3>1. /\ UNCHANGED <<created, task, history>>
          /\ \A v \in Workers : \/ pc'[v] = pc[v] /\ cur'[v] = cur[v]
                                \/ pc'[v] = "recover"
      BY <1>7, <2>1, <2>3 DEF LockTask, Goto, Hold
    <3> QED
      BY <1>t, <3>1, HandsKept DEF Handling, HandlerPcs, HandsConsistent
  <2> QED  BY <2>2, <2>3
<1>8. ASSUME NEW w \in Workers, WriteHistory(w) PROVE TaskInv'
  <2>1. /\ history \in [TaskId -> Nat] /\ pc \in [Workers -> Pcs]
        /\ HoldsTask(w, cur[w]) /\ pc[w] = "history" /\ Handling(w)
    BY <1>8 DEF WriteHistory, TypeInv, TaskTypes, WorkerInv, WorkerTypes,
       HandsConsistent, Handling, HandlerPcs
  <2>2. /\ UNCHANGED <<created, task, cur>>
        /\ \A v \in Workers : pc'[v] = IF v = w THEN "complete" ELSE pc[v]
        /\ history'[cur[w]] = 1
        /\ \A u \in TaskId : u # cur[w] => history'[u] = history[u]
    BY <1>8, <2>1 DEF WriteHistory, Goto, HoldsTask
  <2>3. RowsConsistent'
    BY <2>2 DEF RowsConsistent
  <2>4. HistoryMatchesTask'
    BY <2>1, <2>2 DEF HistoryMatchesTask, HoldsTask
  <2>5. \A v \in Workers : v # w /\ Handling(v) => cur[v] # cur[w]
    BY <2>1 DEF SingleConsumer
  <2>6. HandsConsistent'
    BY <2>1, <2>2, <2>5 DEF HandsConsistent, HoldsTask, Handling, HandlerPcs
  <2>7. SingleConsumer'
    BY <2>1, <2>2 DEF SingleConsumer, Handling, HandlerPcs
  <2> QED  BY <1>t, <2>3, <2>4, <2>6, <2>7
<1>9. ASSUME NEW w \in Workers, MarkCompleted(w) \/ MarkFailed(w)
      PROVE  TaskInv'
  <2>1. /\ task \in [TaskId -> Task] /\ pc \in [Workers -> Pcs]
        /\ HoldsTask(w, cur[w]) /\ Handling(w)
        /\ pc[w] \in {"complete", "fail"}
    BY <1>9 DEF MarkCompleted, MarkFailed, TypeInv, TaskTypes, WorkerInv,
       WorkerTypes, HandsConsistent, Handling, HandlerPcs
  <2>2. /\ UNCHANGED <<created, history, cur>>
        /\ \A v \in Workers : v # w => pc'[v] = pc[v]
        /\ pc'[w] \in {"syncCompleted", "syncFailed"}
        /\ task'[cur[w]].status = IF pc[w] = "complete" THEN "completed"
                                                        ELSE "failed"
        /\ task'[cur[w]].startedAt = task[cur[w]].startedAt
        /\ \A u \in TaskId : u # cur[w] => task'[u] = task[u]
    BY <1>9, <2>1 DEF MarkCompleted, MarkFailed, Goto, HoldsTask, Task
  <2>3. RowsConsistent'
    BY <2>1, <2>2 DEF RowsConsistent, HoldsTask
  <2>4. HistoryMatchesTask'
    BY <2>1, <2>2 DEF HistoryMatchesTask, HoldsTask
  <2>5. \A v \in Workers : v # w /\ Handling(v) => cur[v] # cur[w]
    BY <2>1 DEF SingleConsumer
  <2>6. HandsConsistent'
    BY <2>1, <2>2, <2>5 DEF HandsConsistent, HoldsTask, Handling, HandlerPcs
  <2>7. SingleConsumer'
    BY <2>1, <2>2 DEF SingleConsumer, Handling, HandlerPcs
  <2> QED  BY <1>t, <2>3, <2>4, <2>6, <2>7
<1> QED
  BY <1>1, <1>3, <1>4, <1>5, <1>6, <1>7, <1>8, <1>9 DEF WritesTasks

\* Two workers never run handleTask for one task (the conditional lock of
\* processOne), however many workers crash, restart or race with the sweep.
THEOREM OneConsumer == Spec => []SingleConsumer
<1>1. TaskInv => SingleConsumer
  BY DEF TaskInv
<1> QED  BY <1>1, TaskInvInit, TaskInvStep, PTL DEF Spec

\* A task has at most one analysis_history row, a completed one exactly one,
\* and one that was never taken has none.
THEOREM OneHistoryRow == Spec => []HistoryMatchesTask
<1>1. TaskInv => HistoryMatchesTask
  BY DEF TaskInv
<1> QED  BY <1>1, TaskInvInit, TaskInvStep, PTL DEF Spec

-----------------------------------------------------------------------------
(***************************************************************************)
(* The queue implements TaskLifecycle: every step is a step of one task's  *)
(* abstract life or changes nothing of it.                                 *)
(***************************************************************************)
Statuses  == [t \in TaskId |-> task[t].status]
Started   == {t \in TaskId : task[t].startedAt # NotStarted}
Stutter   == UNCHANGED <<Statuses, Started, history>>

\* The empty table is the abstract start.
LEMMA LifecycleInit == Init => Lifecycle!Init
  BY DEF Init, InitWith, Lifecycle!Init, NoTask

\* A step is one abstract step of one task, or none.
LEMMA LifecycleStep ==
  ASSUME TaskInv, [Next]_vars
  PROVE  Lifecycle!Next \/ Stutter
<1> USE DEF TaskInv, Stutter, Statuses, Started
<1>t. task \in [TaskId -> Task] /\ history \in [TaskId -> Nat]
  BY DEF TypeInv, TaskTypes
<1>1. CASE ~WritesTasks
  BY <1>1, TaskFrame
<1>2. ASSUME NEW k, NEW s, NEW st \in {"pending", "failed"},
             Insert(NewTask(k, s, st)), UNCHANGED history
      PROVE  Lifecycle!Next
  <2> DEFINE n == created + 1
  <2>1. /\ n \in TaskId /\ task[n].status = "absent"
        /\ task[n].startedAt = NotStarted
    BY <1>2, ConstantsAssumption
       DEF Insert, TaskId, TypeInv, TaskTypes, RowsConsistent
  <2>2. /\ task'[n].status = st /\ task'[n].startedAt = NotStarted
        /\ \A t \in TaskId \ {n} : task'[t] = task[t]
    BY <1>2, <2>1, <1>t DEF Insert, NewTask
  <2> HIDE DEF n
  <2>3. Statuses' = [Statuses EXCEPT ![n] = st] /\ Started' = Started
    BY <2>1, <2>2
  <2> QED
    BY <1>2, <2>1, <2>3 DEF Lifecycle!Next, Lifecycle!Enqueue, Lifecycle!Reject
<1>3. CASE \/ \E c \in Clients : SubmitInsert(c)
           \/ \E w \in Workers, st \in {"pending", "failed"} : FireSlot(w, st)
  BY <1>2, <1>3 DEF SubmitInsert, FireSlot
<1>4. CASE \E s \in Schedules : DeleteSchedule(s)
  <2>1. \A t \in TaskId : /\ task'[t].status = task[t].status
                          /\ task'[t].startedAt = task[t].startedAt
    BY <1>4, <1>t DEF DeleteSchedule, Task
  <2> QED  BY <1>4, <2>1 DEF DeleteSchedule
<1>5. ASSUME NEW t \in TaskId, NEW st \in {"completed", "failed"},
             task' = [task EXCEPT ![t] = [@ EXCEPT !.status = st]]
      PROVE  Statuses' = [Statuses EXCEPT ![t] = st] /\ Started' = Started
  BY <1>5, <1>t DEF Task
<1>6. ASSUME NEW w \in Workers, NEW t \in TaskId, Reap(w, t)
      PROVE  Lifecycle!Next \/ Stutter
  <2>1. CASE IsStale(t)
    BY <1>5, <1>6, <2>1 DEF Reap, IsStale, Lifecycle!Next, Lifecycle!Fail
  <2>2. CASE ~IsStale(t)
    BY <1>6, <2>2 DEF Reap
  <2> QED  BY <2>1, <2>2
<1>7. ASSUME NEW w \in Workers, LockTask(w) PROVE Lifecycle!Next \/ Stutter
  <2> DEFINE t == cur[w]
  <2>1. t \in TaskId /\ now \in Nat /\ UNCHANGED history
    BY <1>7 DEF LockTask, HandsConsistent, TypeInv, RequestInv, OtherTypes
  <2>2. CASE task[t].status = "pending"
    <3>1. task' = [task EXCEPT ![t] = [@ EXCEPT !.status = "processing",
                                                !.startedAt = now]]
      BY <1>7, <2>2 DEF LockTask
    <3> HIDE DEF t
    <3>2. /\ task'[t].status = "processing" /\ task'[t].startedAt # NotStarted
          /\ \A u \in TaskId \ {t} : task'[u] = task[u]
      BY <1>t, <2>1, <3>1 DEF Task, NotStarted
    <3>3. Statuses' = [Statuses EXCEPT ![t] = "processing"]
      BY <2>1, <3>2
    <3>4. Started' = Started \cup {t}
      BY <2>1, <3>2
    <3> QED
      BY <2>1, <2>2, <3>3, <3>4 DEF Lifecycle!Next, Lifecycle!Start
  <2>3. CASE task[t].status # "pending"
    BY <1>7, <2>3 DEF LockTask
  <2> QED  BY <2>2, <2>3
<1>8. ASSUME NEW w \in Workers, WriteHistory(w) PROVE Lifecycle!Next
  <2>1. HoldsTask(w, cur[w]) /\ pc[w] = "history"
    BY <1>8 DEF WriteHistory, HandsConsistent, Handling, HandlerPcs
  <2>2. /\ cur[w] \in TaskId /\ cur[w] \in Started /\ history[cur[w]] = 0
        /\ Statuses[cur[w]] \in {"processing", "failed"}
    BY <2>1 DEF HoldsTask
  <2>3. /\ history' = [history EXCEPT ![cur[w]] = 1]
        /\ UNCHANGED <<Statuses, Started>>
    BY <1>8, <2>2 DEF WriteHistory
  <2> QED  BY <2>2, <2>3 DEF Lifecycle!Next, Lifecycle!Publish
<1>9. ASSUME NEW w \in Workers, MarkCompleted(w) PROVE Lifecycle!Next
  <2>1. HoldsTask(w, cur[w]) /\ pc[w] = "complete" /\ UNCHANGED history
    BY <1>9 DEF MarkCompleted, HandsConsistent, Handling, HandlerPcs
  <2>2. /\ cur[w] \in TaskId /\ history[cur[w]] = 1
        /\ Statuses[cur[w]] \in {"processing", "failed"}
    BY <2>1 DEF HoldsTask
  <2>3. /\ Statuses' = [Statuses EXCEPT ![cur[w]] = "completed"]
        /\ Started' = Started
    BY <1>5, <1>9, <2>2 DEF MarkCompleted
  <2> QED  BY <2>1, <2>2, <2>3 DEF Lifecycle!Next, Lifecycle!Complete
<1>10. ASSUME NEW w \in Workers, MarkFailed(w) PROVE Lifecycle!Next \/ Stutter
  <2>1. HoldsTask(w, cur[w]) /\ pc[w] = "fail" /\ UNCHANGED history
    BY <1>10 DEF MarkFailed, HandsConsistent, Handling, HandlerPcs
  <2>2. cur[w] \in TaskId /\ Statuses[cur[w]] \in {"processing", "failed"}
    BY <2>1 DEF HoldsTask
  <2>3. /\ Statuses' = [Statuses EXCEPT ![cur[w]] = "failed"]
        /\ Started' = Started
    BY <1>5, <1>10, <2>2 DEF MarkFailed
  <2>4. CASE Statuses[cur[w]] = "processing"
    BY <2>1, <2>2, <2>3, <2>4 DEF Lifecycle!Next, Lifecycle!Fail
  <2>5. CASE Statuses[cur[w]] = "failed"
    BY <2>1, <2>2, <2>3, <2>5
  <2> QED  BY <2>2, <2>4, <2>5
<1> QED
  BY <1>1, <1>3, <1>4, <1>6, <1>7, <1>8, <1>9, <1>10 DEF WritesTasks

\* The queue keeps the promise of TaskLifecycle about every task: handed out
\* once, published at most once, completed only with its row published.
THEOREM QueueImplementsLifecycle == Spec => ImplementsLifecycle
<1>1. TaskInv /\ [Next]_vars => [Lifecycle!Next]_(Lifecycle!lifecycleVars)
  BY LifecycleStep DEF Lifecycle!lifecycleVars, Stutter, Statuses, Started
<1> QED
  BY <1>1, LifecycleInit, TaskInvInit, TaskInvStep, PTL
     DEF Spec, ImplementsLifecycle, Lifecycle!Spec

\* A completed task stays completed: no sweep that read it as stale, and no
\* handler that failed late, turns it back.
THEOREM CompletedStays == Spec => CompletedIsFinal
<1>1. ASSUME TaskInv, [Next]_vars, NEW t \in TaskId,
             task[t].status = "completed"
      PROVE  task'[t].status = "completed"
  <2>1. Statuses'[t] = "completed"
    BY <1>1, LifecycleStep
       DEF Lifecycle!Next, Lifecycle!Enqueue, Lifecycle!Reject,
           Lifecycle!Start, Lifecycle!Publish, Lifecycle!Complete,
           Lifecycle!Fail, Statuses, Stutter
  <2> QED  BY <2>1 DEF Statuses
<1>2. TaskInv /\ [Next]_vars =>
        [\A t \in TaskId : task[t].status = "completed"
                            => task'[t].status = "completed"]_vars
  BY <1>1
<1> QED  BY <1>2, TaskInvInit, TaskInvStep, PTL DEF Spec, CompletedIsFinal

\* A processing task fails only by its own handler, or by a sweep that found
\* it past the timeout when it wrote, not merely when it read.
THEOREM FailuresHaveReasons == Spec => FailsForAReason
<1>1. ASSUME TaskInv, [Next]_vars, NEW t \in TaskId,
             task[t].status = "processing", task'[t].status = "failed"
      PROVE  \/ \E w \in Workers : pc[w] = "fail" /\ cur[w] = t
             \/ task[t].startedAt + StaleTimeout <= now
  <2>t. task \in [TaskId -> Task] /\ created \in Nat
    BY <1>1, ConstantsAssumption DEF TaskInv, TypeInv, TaskTypes
  <2>1. task'[t] # task[t]
    BY <1>1
  <2>2. ASSUME NEW k, NEW s, NEW st, Insert(NewTask(k, s, st)) PROVE FALSE
    <3>1. t # created + 1
      BY <1>1, <2>t DEF TaskInv, RowsConsistent
    <3> QED  BY <2>t, <2>1, <2>2, <3>1 DEF Insert
  <2>3. ASSUME NEW s \in Schedules, DeleteSchedule(s) PROVE FALSE
    BY <1>1, <2>t, <2>3 DEF DeleteSchedule, Task
  <2>4. ASSUME NEW w \in Workers,
               LockTask(w) \/ WriteHistory(w) \/ MarkCompleted(w)
        PROVE  FALSE
    BY <1>1, <2>t, <2>4 DEF LockTask, WriteHistory, MarkCompleted, Task
  <2>5. ASSUME NEW w \in Workers, NEW u \in TaskId, Reap(w, u)
        PROVE  u = t /\ IsStale(t)
    BY <1>1, <2>t, <2>5 DEF Reap
  <2>6. ASSUME NEW w \in Workers, MarkFailed(w)
        PROVE  pc[w] = "fail" /\ cur[w] = t
    BY <1>1, <2>t, <2>6 DEF MarkFailed
  <2> QED
    BY <2>1, <2>2, <2>3, <2>4, <2>5, <2>6, <1>1, TaskFrame
       DEF WritesTasks, SubmitInsert, FireSlot, IsStale
<1>2. TaskInv /\ [Next]_vars =>
        [\A t \in TaskId :
           (task[t].status = "processing" /\ task'[t].status = "failed") =>
              \/ \E w \in Workers : pc[w] = "fail" /\ cur[w] = t
              \/ task[t].startedAt + StaleTimeout <= now]_vars
  BY <1>1
<1> QED  BY <1>2, TaskInvInit, TaskInvStep, PTL DEF Spec, FailsForAReason

\* What a worker does leaves the other workers where they are.
LEMMA OthersKept ==
  ASSUME TypeInv, NEW v \in Workers, NEW w \in Workers, w # v, Moves(w)
  PROVE  pc'[v] = pc[v] /\ cand'[v] = cand[v] /\ cur'[v] = cur[v]
<1>t. /\ pc \in [Workers -> Pcs] /\ cand \in [Workers -> Cand]
      /\ cur \in [Workers -> 0 .. MaxTask]
  BY DEF TypeInv, WorkerInv, WorkerTypes
<1>1. CASE LoopStep(w)
  BY <1>t, <1>1 DEF LoopStep, FindStale, Reap, FindDue, NoneDue, Claim,
     FindActive, NoActive, SkipSlot, FireSlot, CommitTrigger, PickPending,
     Idle, LockTask, Goto, Hold
<1>2. CASE HandlerStep(w) \/ SyncScheduleState(w) \/ Restart(w)
  BY <1>t, <1>2 DEF HandlerStep, RunSucceeds, WriteHistory, MarkCompleted,
     HandlerThrows, MarkFailed, SyncScheduleState, AfterSync, Restart, Goto,
     Hold
<1>3. CASE FaultStep(w)
  BY <1>t, <1>3 DEF FaultStep, SyncLost, AfterSync, LoopThrows, Crash,
     Terminate, Forget, Goto, Hold
<1> QED  BY <1>1, <1>2, <1>3 DEF Moves, WorkerStep

-----------------------------------------------------------------------------
(***************************************************************************)
(* The trigger.  From its claim to its commit a worker's transaction holds *)
(* the row lock, so the row it claimed stays as it was; and what it will   *)
(* write moves the schedule past the slot.                                 *)
(***************************************************************************)
OnSlot(w) == pc[w] \in {"claim"} \cup TxPcs

HoldsClaim(w) ==
    LET s == cand[w].sched IN
    /\ s \in Schedules
    /\ rowLock[s] = w
    /\ sched[s].state = "live"
    /\ sched[s].enabled
    /\ sched[s].nextRunAt = cand[w].slot

ClaimsAhead ==
    \A w \in Workers : OnSlot(w) =>
        cand[w].slot <= now /\ cand[w].slot < cand[w].next

ClaimsHeld == \A w \in Workers : pc[w] \in TxPcs => HoldsClaim(w)

TriggerInv == TypeInv /\ ClaimsAhead /\ ClaimsHeld

\* No transaction is open at the start.
LEMMA TriggerInvInit == Init => TriggerInv
  BY TypeInvInit DEF Init, InitWith, TriggerInv, ClaimsAhead, ClaimsHeld, OnSlot, TxPcs

SameSlot(w) ==
    /\ cand'[w].sched = cand[w].sched
    /\ cand'[w].slot = cand[w].slot
    /\ cand'[w].next = cand[w].next

\* A worker comes to a slot by FindDue, into the transaction by Claim, and
\* keeps to the slot it read until it leaves.
LEMMA SlotFrame ==
  ASSUME TypeInv, [Next]_vars, NEW v \in Workers, OnSlot(v)'
  PROVE  \/ \E s \in Schedules : FindDue(v, s)
         \/ pc[v] = "claim" /\ Claim(v) /\ SameSlot(v)
         \/ OnSlot(v) /\ pc'[v] = pc[v] /\ SameSlot(v)
         \/ /\ pc[v] \in TxPcs /\ SameSlot(v)
            /\ UNCHANGED <<sched, rowLock>>
<1>t. /\ pc \in [Workers -> Pcs] /\ cand \in [Workers -> Cand]
  BY DEF TypeInv, WorkerInv, WorkerTypes
<1> USE DEF OnSlot, TxPcs, SameSlot
<1>1. CASE UNCHANGED local
  BY <1>1 DEF local
<1>2. ASSUME NEW w \in Workers, w # v, Moves(w)
      PROVE  pc'[v] = pc[v] /\ cand'[v] = cand[v]
  BY <1>2, OthersKept
<1>3. CASE LoopStep(v)
  <2>1. ~(FindStale(v) \/ NoneDue(v) \/ SkipSlot(v) \/ Idle(v) \/ LockTask(v))
    BY <1>t
       DEF FindStale, NoneDue, SkipSlot, CommitTrigger, Idle, LockTask, Goto
  <2>2. ~ \E t \in TaskId : Reap(v, t) \/ PickPending(v, t)
    BY <1>t DEF Reap, PickPending, Goto
  <2>3. ~ \E st \in {"pending", "failed"} : FireSlot(v, st)
    BY <1>t DEF FireSlot, CommitTrigger, Goto
  <2>4. ASSUME Claim(v) PROVE pc[v] = "claim" /\ SameSlot(v)
    BY <1>t, <2>4 DEF Claim, Goto
  <2>5. ASSUME NEW t \in TaskId, FindActive(v, t) \/ NoActive(v)
        PROVE  /\ pc[v] \in TxPcs /\ SameSlot(v)
               /\ UNCHANGED <<sched, rowLock>>
    BY <1>t, <2>5 DEF FindActive, NoActive, tables, Cand
  <2>6. ASSUME NoActive(v)
        PROVE  /\ pc[v] \in TxPcs /\ SameSlot(v)
               /\ UNCHANGED <<sched, rowLock>>
    BY <1>t, <2>6 DEF NoActive, tables
  <2> QED  BY <1>3, <2>1, <2>2, <2>3, <2>4, <2>5, <2>6 DEF LoopStep
<1>4. CASE HandlerStep(v) \/ SyncScheduleState(v) \/ Restart(v) \/ FaultStep(v)
  BY <1>t, <1>4 DEF HandlerStep, RunSucceeds, WriteHistory,
       MarkCompleted, HandlerThrows, MarkFailed, SyncScheduleState, AfterSync,
       Restart, FaultStep, SyncLost, LoopThrows, Crash, Terminate, Goto
<1> QED  BY <1>1, <1>2, <1>3, <1>4, WorkerFrame DEF Moves, WorkerStep

\* Time does not go back.
LEMMA ClockFrame ==
  ASSUME TypeInv, [Next]_vars
  PROVE  now' \in {now, now + 1} /\ now \in Nat
<1>t. now \in Nat
  BY DEF TypeInv, RequestInv, OtherTypes
<1>1. CASE \E c \in Clients : ClientStep(c)
  BY <1>t, <1>1, PatchReadFrame
     DEF ClientStep, SubmitCheck, SubmitInsert, RequestAborts, PatchWrite
<1>2. CASE \/ \E s \in Schedules : DeleteSchedule(s)
           \/ \E s \in Schedules, k \in Keys, v \in Variants :
                 CreateSchedule(s, k, v)
           \/ Tick \/ UNCHANGED vars
  BY <1>t, <1>2 DEF DeleteSchedule, CreateSchedule, Tick, vars
<1>3. CASE \E w \in Workers : LoopStep(w)
  BY <1>t, <1>3 DEF LoopStep, FindStale, Reap, FindDue, NoneDue, Claim,
       FindActive, NoActive, SkipSlot, FireSlot, PickPending, Idle, LockTask
<1>4. CASE \E w \in Workers : HandlerStep(w) \/ SyncScheduleState(w)
                                \/ Restart(w) \/ FaultStep(w)
  BY <1>t, <1>4 DEF HandlerStep, RunSucceeds, WriteHistory,
       MarkCompleted, HandlerThrows, MarkFailed, SyncScheduleState, AfterSync,
       Restart, FaultStep, SyncLost, LoopThrows, Crash, Terminate, Forget
<1> QED
  BY <1>1, <1>2, <1>3, <1>4 DEF Next, WorkerStep

\* A claimed row stays as the claim found it until its own worker lets go.
LEMMA ClaimKept ==
  ASSUME TriggerInv, [Next]_vars, NEW v \in Workers,
         pc[v] \in TxPcs, pc'[v] \in TxPcs, SameSlot(v)
  PROVE  HoldsClaim(v)'
<1> USE DEF TriggerInv, ClaimsHeld
<1> DEFINE s == cand[v].sched
<1>t. /\ sched \in [Schedules -> Sched]
      /\ rowLock \in [Schedules -> Workers \cup {None}]
      /\ pc \in [Workers -> Pcs] /\ None \notin Workers
      /\ HoldsClaim(v) /\ s \in Schedules
  BY ConstantsAssumption DEF TypeInv, ScheduleInv, ScheduleTypes, WorkerInv,
     WorkerTypes, HoldsClaim
<1>1. CASE UNCHANGED <<sched, rowLock>>
  BY <1>t, <1>1 DEF HoldsClaim, SameSlot
<1>r. ASSUME sched'[s] = sched[s], rowLock'[s] = rowLock[s]
      PROVE  HoldsClaim(v)'
  BY <1>t, <1>r DEF HoldsClaim, SameSlot
<1>2. ASSUME NEW u \in Schedules, DeleteSchedule(u) PROVE HoldsClaim(v)'
  BY <1>t, <1>r, <1>2 DEF DeleteSchedule, HoldsClaim
<1>3. ASSUME NEW u \in Schedules, NEW k \in Keys, NEW x \in Variants,
             CreateSchedule(u, k, x)
      PROVE  HoldsClaim(v)'
  BY <1>t, <1>r, <1>3 DEF CreateSchedule, HoldsClaim
<1>4. ASSUME NEW c \in Clients, PatchWrite(c) PROVE HoldsClaim(v)'
  BY <1>t, <1>r, <1>4 DEF PatchWrite, HoldsClaim
<1>5. ASSUME NEW w \in Workers, Claim(w) PROVE HoldsClaim(v)'
  BY <1>t, <1>r, <1>5 DEF Claim, HoldsClaim
<1>6. ASSUME NEW w \in Workers, NEW t, NEW st, pc[w] \in TxPcs,
             CommitTrigger(w, t, st)
      PROVE  HoldsClaim(v)'
  <2>1. w # v
    BY <1>t, <1>6 DEF CommitTrigger, Goto, TxPcs
  <2>2. cand[w].sched # s
    BY <1>t, <1>6, <2>1 DEF HoldsClaim
  <2> QED  BY <1>t, <1>r, <1>6, <2>2 DEF CommitTrigger
<1>7. ASSUME NEW w \in Workers,
             SkipSlot(w) \/ \E st \in {"pending", "failed"} : FireSlot(w, st)
      PROVE  HoldsClaim(v)'
  BY <1>6, <1>7 DEF SkipSlot, FireSlot, TxPcs
<1>8. ASSUME NEW w \in Workers, SyncScheduleState(w) PROVE HoldsClaim(v)'
  <2>1. /\ rowLock' = rowLock
        /\ sched'[s] \in {sched[s],
                          [sched[s] EXCEPT !.lastStatus = SyncedStatus(w)]}
    BY <1>t, <1>8 DEF SyncScheduleState, RecordScheduleTaskState, AfterSync
  <2>2. /\ sched'[s].state = sched[s].state
        /\ sched'[s].enabled = sched[s].enabled
        /\ sched'[s].nextRunAt = sched[s].nextRunAt
    BY <1>t, <2>1 DEF Sched
  <2> QED  BY <1>t, <2>1, <2>2 DEF HoldsClaim, SameSlot
<1>9. ASSUME NEW w \in Workers, LoopThrows(w) \/ Crash(w) \/ Terminate(w)
      PROVE  HoldsClaim(v)'
  <2>1. w # v
    BY <1>t, <1>9 DEF LoopThrows, Crash, Terminate, Goto, TxPcs
  <2>2. Forget(w)
    BY <1>9 DEF LoopThrows, Crash, Terminate
  <2> QED  BY <1>t, <1>r, <2>1, <2>2 DEF Forget, HoldsClaim
<1> QED
  BY <1>1, <1>2, <1>3, <1>4, <1>5, <1>7, <1>8, <1>9, ScheduleFrame
     DEF WritesSchedules

\* Every step keeps the claims and their slots.
LEMMA TriggerInvStep == TriggerInv /\ [Next]_vars => TriggerInv'
<1> SUFFICES ASSUME TriggerInv, [Next]_vars PROVE TriggerInv'
  OBVIOUS
<1> USE DEF TriggerInv
<1>1. TypeInv'
  BY TypeInvStep
<1>2. ASSUME NEW v \in Workers, NEW s \in Schedules, FindDue(v, s)
      PROVE  /\ pc'[v] = "claim"
             /\ cand'[v].slot <= now' /\ cand'[v].slot < cand'[v].next
  <2>1. /\ cand \in [Workers -> Cand] /\ pc \in [Workers -> Pcs]
        /\ now \in Nat
        /\ sched[s].nextRunAt \in Nat /\ sched[s].nextRunAt <= now
        /\ IntervalOf[sched[s].variant] \in Nat \ {0}
    BY <1>2, ConstantsAssumption
       DEF FindDue, DueFirst, Due, TypeInv, ScheduleInv, ScheduleTypes, Sched,
           LiveSchedulesFilled, WorkerInv, WorkerTypes, RequestInv, OtherTypes
  <2>2. /\ pc'[v] = "claim" /\ now' = now
        /\ cand'[v].slot = sched[s].nextRunAt
        /\ cand'[v].next = now + IntervalOf[sched[s].variant]
    BY <1>2, <2>1 DEF FindDue, Goto
  <2> QED  BY <2>1, <2>2
<1>3. ClaimsAhead'
  <2>1. \A v \in Workers : cand[v].slot \in Nat /\ cand[v].next \in Nat
    BY DEF TypeInv, WorkerInv, WorkerTypes, Cand
  <2>2. ASSUME NEW v \in Workers, OnSlot(v), SameSlot(v)
        PROVE  cand'[v].slot <= now' /\ cand'[v].slot < cand'[v].next
    BY <2>1, <2>2, ClockFrame DEF ClaimsAhead, SameSlot
  <2> QED  BY <1>2, <2>2, SlotFrame DEF ClaimsAhead, OnSlot
<1>4. ClaimsHeld'
  <2>1. ASSUME NEW v \in Workers, pc'[v] \in TxPcs PROVE HoldsClaim(v)'
    <3>1. OnSlot(v)' /\ pc'[v] # "claim"
      BY <2>1 DEF OnSlot, TxPcs
    <3>2. CASE pc[v] = "claim" /\ Claim(v) /\ SameSlot(v)
      <4>1. pc \in [Workers -> Pcs] /\ cand[v].sched \in Schedules
            /\ rowLock \in [Schedules -> Workers \cup {None}]
        BY <3>2
           DEF TypeInv, WorkerInv, WorkerTypes, CandidatesFilled, ScheduleInv,
               ScheduleTypes
      <4> QED  BY <2>1, <3>2, <4>1 DEF Claim, Goto, HoldsClaim, SameSlot, TxPcs
    <3>3. CASE pc[v] \in TxPcs /\ SameSlot(v)
      BY <2>1, <3>3, ClaimKept
    <3> QED  BY <1>2, <2>1, <3>1, <3>2, <3>3, SlotFrame DEF OnSlot
  <2> QED  BY <2>1 DEF ClaimsHeld
<1> QED  BY <1>1, <1>3, <1>4

\* A schedule fires only a slot that is due and enabled at the commit, and
\* the commit moves it on, so no slot is fired twice.
THEOREM SlotFiredOnce == Spec => FiresDueSlotOnce
<1>1. ASSUME TriggerInv, [Next]_vars, NEW s \in Schedules,
             created' = created + 1, task'[created'].sched = s
      PROVE  Due(s) /\ sched'[s].nextRunAt > sched[s].nextRunAt
  <2>t. /\ created \in Nat /\ task \in [TaskId -> Task]
        /\ sched \in [Schedules -> Sched] /\ cand \in [Workers -> Cand]
        /\ None \notin Schedules
    BY <1>1, ConstantsAssumption
       DEF TriggerInv, TypeInv, TaskTypes, ScheduleInv, ScheduleTypes,
           WorkerInv, WorkerTypes
  <2>1. ASSUME NEW k, NEW x, NEW st, Insert(NewTask(k, x, st)) PROVE x = s
    <3>1. created + 1 \in TaskId
      BY <2>t, <2>1, ConstantsAssumption DEF Insert, TaskId
    <3> QED  BY <1>1, <2>t, <2>1, <3>1 DEF Insert, NewTask
  <2>2. ~ \E c \in Clients : SubmitInsert(c)
    BY <2>t, <2>1 DEF SubmitInsert
  <2>3. PICK w \in Workers, st \in {"pending", "failed"} : FireSlot(w, st)
    <3>1. created' # created
      BY <1>1, <2>t
    <3>2. WritesTasks
      BY <1>1, <3>1, TaskFrame
    <3>3. ASSUME NEW w \in Workers
          PROVE  ~(\/ \E t \in TaskId : Reap(w, t)
                   \/ LockTask(w) \/ WriteHistory(w)
                   \/ MarkCompleted(w) \/ MarkFailed(w))
      BY <3>1 DEF Reap, LockTask, WriteHistory, MarkCompleted, MarkFailed
    <3>4. ~ \E u \in Schedules : DeleteSchedule(u)
      BY <3>1 DEF DeleteSchedule
    <3> QED  BY <2>2, <3>2, <3>3, <3>4 DEF WritesTasks
  <2>4. cand[w].sched = s /\ HoldsClaim(w) /\ OnSlot(w)
    BY <1>1, <2>1, <2>3 DEF FireSlot, TriggerInv, ClaimsHeld, OnSlot, TxPcs
  <2>5. Due(s)
    BY <1>1, <2>4 DEF TriggerInv, ClaimsAhead, HoldsClaim, Due
  <2>6. sched'[s].nextRunAt = cand[w].next
    BY <2>t, <2>3, <2>4 DEF FireSlot, CommitTrigger, Sched
  <2>7. cand[w].next > sched[s].nextRunAt
    BY <1>1, <2>t, <2>4 DEF TriggerInv, ClaimsAhead, HoldsClaim, Cand
  <2> QED  BY <2>5, <2>6, <2>7
<1>2. TriggerInv /\ [Next]_vars =>
        [\A s \in Schedules :
           (created' = created + 1 /\ task'[created'].sched = s) =>
              /\ Due(s)
              /\ sched'[s].nextRunAt > sched[s].nextRunAt]_vars
  BY <1>1
<1> QED
  BY <1>2, TriggerInvInit, TriggerInvStep, PTL DEF Spec, FiresDueSlotOnce

-----------------------------------------------------------------------------
(***************************************************************************)
(* What a schedule reports of its last task.  The report is written after  *)
(* the task, and possibly much later, so it rests on what can no longer    *)
(* change: a task does not go back to being absent, pending or unfinished. *)
(***************************************************************************)

\* A task's status only advances.
LEMMA StatusAdvances ==
  ASSUME TaskInv, [Next]_vars, NEW t \in TaskId
  PROVE  /\ task[t].status # "absent" => task'[t].status # "absent"
         /\ task[t].status \notin {"absent", "pending"} =>
                task'[t].status \notin {"absent", "pending"}
         /\ task[t].status \in Terminal => task'[t].status \in Terminal
         /\ task[t].status = "completed" => task'[t].status = "completed"
<1>1. Statuses \in [TaskId -> {"absent"} \cup Active \cup Terminal]
  BY DEF TaskInv, TypeInv, TaskTypes, Task, Statuses
<1>2. \/ Statuses'[t] = Statuses[t]
      \/ Statuses[t] = "absent" /\ Statuses'[t] # "absent"
      \/ Statuses[t] = "pending" /\ Statuses'[t] = "processing"
      \/ Statuses[t] \in {"processing", "failed"} /\ Statuses'[t] = "completed"
      \/ Statuses[t] = "processing" /\ Statuses'[t] = "failed"
  <2>1. CASE Stutter
    BY <2>1 DEF Stutter
  <2>2. ASSUME NEW u \in TaskId, Statuses'[t] # Statuses[t],
               \/ Lifecycle!Enqueue(u) \/ Lifecycle!Reject(u)
               \/ Lifecycle!Start(u) \/ Lifecycle!Publish(u)
               \/ Lifecycle!Complete(u) \/ Lifecycle!Fail(u)
        PROVE  \/ Statuses[t] = "absent" /\ Statuses'[t] # "absent"
               \/ Statuses[t] = "pending" /\ Statuses'[t] = "processing"
               \/ /\ Statuses[t] \in {"processing", "failed"}
                  /\ Statuses'[t] = "completed"
               \/ Statuses[t] = "processing" /\ Statuses'[t] = "failed"
    <3>1. CASE Lifecycle!Enqueue(u)
      BY <1>1, <2>2, <3>1 DEF Lifecycle!Enqueue, Statuses
    <3>2. CASE Lifecycle!Reject(u)
      BY <1>1, <2>2, <3>2 DEF Lifecycle!Reject, Statuses
    <3>3. CASE Lifecycle!Start(u)
      BY <1>1, <2>2, <3>3 DEF Lifecycle!Start, Statuses
    <3>4. CASE Lifecycle!Publish(u)
      BY <1>1, <2>2, <3>4 DEF Lifecycle!Publish, Statuses
    <3>5. CASE Lifecycle!Complete(u)
      BY <1>1, <2>2, <3>5 DEF Lifecycle!Complete, Statuses
    <3>6. CASE Lifecycle!Fail(u)
      BY <1>1, <2>2, <3>6 DEF Lifecycle!Fail, Statuses
    <3> QED  BY <2>2, <3>1, <3>2, <3>3, <3>4, <3>5, <3>6
  <2>3. CASE Lifecycle!Next
    BY <2>2, <2>3 DEF Lifecycle!Next
  <2> QED  BY <2>1, <2>3, LifecycleStep
<1> QED  BY <1>2 DEF Statuses, Terminal

\* What a worker about to report on its task knows of it.
Reports(w) ==
    LET st == task[cur[w]].status IN
    /\ cur[w] \in TaskId
    /\ pc[w] = "syncStart" => st \notin {"absent", "pending"}
    /\ pc[w] = "syncCompleted" => st = "completed"
    /\ pc[w] \in {"syncFailed", "reapSync"} => st \in Terminal

Skips(w) == cand[w].active \in TaskId /\ task[cand[w].active].status # "absent"

ReportInv ==
    /\ TaskInv
    /\ \A w \in Workers : pc[w] \in SyncPcs => Reports(w)
    /\ \A w \in Workers : pc[w] = "skip" => Skips(w)
    /\ ScheduleNeverAhead

\* Nothing is reported, or skipped, at the start.
LEMMA ReportInvInit == Init => ReportInv
  BY TaskInvInit DEF Init, InitWith, ReportInv, ScheduleNeverAhead, SyncPcs, NoSched

\* A worker comes to a report with a task it knows enough about.
LEMMA ReportsStep ==
  ASSUME ReportInv, [Next]_vars, NEW v \in Workers, pc'[v] \in SyncPcs
  PROVE  Reports(v)'
<1> USE DEF ReportInv
<1>t. /\ pc \in [Workers -> Pcs] /\ cur \in [Workers -> 0 .. MaxTask]
      /\ task \in [TaskId -> Task]
  BY DEF TaskInv, TypeInv, TaskTypes, WorkerInv, WorkerTypes
<1>1. CASE pc'[v] = pc[v] /\ cur'[v] = cur[v]
  BY <1>1, StatusAdvances DEF Reports
<1>2. CASE \E t \in TaskId : Reap(v, t)
  <2>1. PICK t \in TaskId : Reap(v, t)
    BY <1>2
  <2>2. IsStale(t) /\ pc'[v] = "reapSync" /\ cur'[v] = t
    BY <1>t, <2>1 DEF Reap, Goto, Hold, SyncPcs
  <2>3. task'[t].status = "failed"
    BY <1>t, <2>1, <2>2 DEF Reap, Task
  <2> QED  BY <2>2, <2>3 DEF Reports, Terminal
<1>3. CASE LockTask(v)
  <2>1. cur[v] \in TaskId
    BY <1>3 DEF LockTask, TaskInv, HandsConsistent
  <2>2. /\ pc'[v] = "syncStart" /\ cur'[v] = cur[v]
        /\ task' = [task EXCEPT ![cur[v]] = [@ EXCEPT !.status = "processing",
                                                     !.startedAt = now]]
    BY <1>t, <1>3 DEF LockTask, Goto, SyncPcs
  <2>3. task'[cur[v]].status = "processing"
    BY <1>t, <2>1, <2>2 DEF Task
  <2> QED  BY <2>1, <2>2, <2>3 DEF Reports
<1>4. CASE MarkCompleted(v) \/ MarkFailed(v)
  <2>1. cur[v] \in TaskId
    BY <1>4 DEF MarkCompleted, MarkFailed, TaskInv, HandsConsistent,
       HoldsTask, Handling, HandlerPcs
  <2>2. /\ cur'[v] = cur[v]
        /\ \/ pc'[v] = "syncCompleted" /\ task'[cur[v]].status = "completed"
           \/ pc'[v] = "syncFailed" /\ task'[cur[v]].status = "failed"
    BY <1>t, <1>4, <2>1 DEF MarkCompleted, MarkFailed, Goto, Task
  <2> QED  BY <2>1, <2>2 DEF Reports, Terminal
<1>5. CASE LoopStep(v)
  <2>1. ~(\/ FindStale(v) \/ NoneDue(v) \/ Claim(v) \/ NoActive(v)
          \/ SkipSlot(v) \/ Idle(v))
    BY <1>t DEF FindStale, NoneDue, Claim, NoActive, SkipSlot, CommitTrigger,
       Idle, Goto, SyncPcs
  <2>2. ~ \E s \in Schedules : FindDue(v, s)
    BY <1>t DEF FindDue, Goto, SyncPcs
  <2>3. ~ \E t \in TaskId : FindActive(v, t) \/ PickPending(v, t)
    BY <1>t DEF FindActive, PickPending, Goto, SyncPcs
  <2>4. ~ \E st \in {"pending", "failed"} : FireSlot(v, st)
    BY <1>t DEF FireSlot, CommitTrigger, Goto, SyncPcs
  <2> QED  BY <1>2, <1>3, <1>5, <2>1, <2>2, <2>3, <2>4 DEF LoopStep
<1>6. CASE \/ RunSucceeds(v) \/ WriteHistory(v) \/ HandlerThrows(v)
           \/ SyncScheduleState(v) \/ FaultStep(v) \/ Restart(v)
  BY <1>t, <1>6
     DEF RunSucceeds, WriteHistory, HandlerThrows, SyncScheduleState,
         AfterSync, FaultStep, SyncLost, LoopThrows, Crash, Terminate,
         Restart, Goto, SyncPcs
<1>7. CASE Moves(v)
  BY <1>4, <1>5, <1>6, <1>7 DEF Moves, WorkerStep, HandlerStep, FaultStep
<1>8. CASE UNCHANGED local
  BY <1>1, <1>8 DEF local
<1> QED
  BY <1>1, <1>7, <1>8, WorkerFrame, OthersKept DEF TaskInv

\* A worker about to skip a slot has seen an active task of the pair.
LEMMA SkipsStep ==
  ASSUME ReportInv, [Next]_vars, NEW v \in Workers, pc'[v] = "skip"
  PROVE  Skips(v)'
<1> USE DEF ReportInv
<1>t. /\ pc \in [Workers -> Pcs] /\ cand \in [Workers -> Cand]
  BY DEF TaskInv, TypeInv, WorkerInv, WorkerTypes
<1>1. CASE pc'[v] = pc[v] /\ cand'[v] = cand[v]
  BY <1>1, StatusAdvances DEF Skips
<1>2. ASSUME NEW t \in TaskId, FindActive(v, t) PROVE Skips(v)'
  <2>1. task'[t].status # "absent" /\ cand'[v].active = t
    BY <1>t, <1>2 DEF FindActive, ActiveTasks, Active, tables, Cand
  <2> QED  BY <2>1 DEF Skips
<1>3. CASE LoopStep(v)
  <2>1. ~(\/ FindStale(v) \/ NoneDue(v) \/ Claim(v) \/ NoActive(v)
          \/ SkipSlot(v) \/ Idle(v) \/ LockTask(v))
    BY <1>t DEF FindStale, NoneDue, Claim, NoActive, SkipSlot, CommitTrigger,
       Idle, LockTask, Goto
  <2>2. ~ \E s \in Schedules : FindDue(v, s)
    BY <1>t DEF FindDue, Goto
  <2>3. ~ \E t \in TaskId : Reap(v, t) \/ PickPending(v, t)
    BY <1>t DEF Reap, PickPending, Goto
  <2>4. ~ \E st \in {"pending", "failed"} : FireSlot(v, st)
    BY <1>t DEF FireSlot, CommitTrigger, Goto
  <2> QED  BY <1>2, <1>3, <2>1, <2>2, <2>3, <2>4 DEF LoopStep
<1>4. CASE \/ HandlerStep(v) \/ SyncScheduleState(v) \/ FaultStep(v)
           \/ Restart(v)
  BY <1>t, <1>4
     DEF HandlerStep, RunSucceeds, WriteHistory, MarkCompleted, HandlerThrows,
         MarkFailed, SyncScheduleState, AfterSync, FaultStep, SyncLost,
         LoopThrows, Crash, Terminate, Restart, Goto
<1>5. CASE UNCHANGED local
  BY <1>1, <1>5 DEF local
<1> QED
  BY <1>1, <1>3, <1>4, <1>5, WorkerFrame, OthersKept
     DEF TaskInv, Moves, WorkerStep

\* NotAhead is ScheduleNeverAhead for one schedule.
NotAhead(s) ==
    LET t == sched[s].lastTask IN
    /\ sched[s].lastStatus = "idle" <=> t = 0
    /\ t # 0 => /\ task[t].status # "absent"
                /\ sched[s].lastStatus = "completed" =>
                        task[t].status = "completed"
                /\ sched[s].lastStatus = "failed" =>
                        task[t].status \in Terminal
                /\ sched[s].lastStatus = "processing" =>
                        task[t].status # "pending"

\* The invariant is that no live schedule is ahead of its task.
LEMMA NotAheadMeans ==
  ScheduleNeverAhead <=>
    \A s \in Schedules : sched[s].state = "live" => NotAhead(s)
  BY DEF ScheduleNeverAhead, NotAhead

\* No write to a schedule puts its report ahead of the task.
LEMMA NotAheadStep ==
  ASSUME ReportInv, [Next]_vars, NEW s \in Schedules, sched'[s].state = "live"
  PROVE  NotAhead(s)'
<1> USE DEF ReportInv
<1>t. /\ sched \in [Schedules -> Sched] /\ task \in [TaskId -> Task]
      /\ cand \in [Workers -> Cand] /\ 0 \notin TaskId
      /\ 0 .. MaxTask = TaskId \cup {0}
  BY ConstantsAssumption
     DEF TaskInv, TypeInv, TaskTypes, ScheduleInv, ScheduleTypes, WorkerInv,
         WorkerTypes, TaskId
<1>1. ASSUME sched[s].state = "live",
             sched'[s].lastTask = sched[s].lastTask,
             sched'[s].lastStatus = sched[s].lastStatus
      PROVE  NotAhead(s)'
  <2>1. NotAhead(s)
    BY <1>1, NotAheadMeans
  <2>2. sched[s].lastTask \in TaskId \cup {0}
    BY <1>t DEF Sched
  <2> QED  BY <1>1, <2>1, <2>2, StatusAdvances DEF NotAhead
<1>2. ASSUME NEW u \in Schedules, DeleteSchedule(u) PROVE NotAhead(s)'
  BY <1>t, <1>1, <1>2 DEF DeleteSchedule, NoSched
<1>3. ASSUME NEW u \in Schedules, NEW k \in Keys, NEW x \in Variants,
             CreateSchedule(u, k, x)
      PROVE  NotAhead(s)'
  <2>1. CASE u = s
    BY <1>t, <1>3, <2>1 DEF CreateSchedule, NoSched, NotAhead
  <2>2. CASE u # s
    BY <1>t, <1>1, <1>3, <2>2 DEF CreateSchedule
  <2> QED  BY <2>1, <2>2
<1>4. ASSUME NEW c \in Clients, PatchWrite(c) PROVE NotAhead(s)'
  <2>1. /\ sched'[s].state = sched[s].state
        /\ sched'[s].lastTask = sched[s].lastTask
        /\ sched'[s].lastStatus = sched[s].lastStatus
    BY <1>t, <1>4 DEF PatchWrite, Sched
  <2> QED  BY <1>1, <2>1
<1>5. ASSUME NEW w \in Workers, NEW t \in TaskId,
             NEW st \in {"pending", "failed", "skipped"},
             CommitTrigger(w, t, st),
             task'[t].status # "absent",
             st = "failed" => task'[t].status = "failed"
      PROVE  NotAhead(s)'
  <2>1. CASE s = cand[w].sched
    <3>1. sched'[s].lastTask = t /\ sched'[s].lastStatus = st
      BY <1>t, <1>5, <2>1 DEF CommitTrigger, Sched
    <3> QED  BY <1>t, <1>5, <3>1 DEF NotAhead, Terminal
  <2>2. CASE s # cand[w].sched
    BY <1>t, <1>1, <1>5, <2>2 DEF CommitTrigger
  <2> QED  BY <2>1, <2>2
<1>6. ASSUME NEW w \in Workers, SkipSlot(w) PROVE NotAhead(s)'
  <2>1. Skips(w) /\ task' = task
    BY <1>6 DEF SkipSlot
  <2> QED  BY <1>5, <1>6, <2>1 DEF SkipSlot, Skips
<1>7. ASSUME NEW w \in Workers, NEW st \in {"pending", "failed"},
             FireSlot(w, st)
      PROVE  NotAhead(s)'
  <2>1. created + 1 \in TaskId
    BY <1>7, ConstantsAssumption
       DEF FireSlot, Insert, TaskInv, TypeInv, TaskTypes, TaskId
  <2>2. task'[created + 1].status = st
    BY <1>t, <1>7, <2>1 DEF FireSlot, Insert, NewTask
  <2> QED  BY <1>5, <1>7, <2>1, <2>2 DEF FireSlot
<1>8. ASSUME NEW w \in Workers, SyncScheduleState(w) PROVE NotAhead(s)'
  <2>1. Reports(w) /\ task' = task
    BY <1>8 DEF SyncScheduleState, AfterSync
  <2>2. CASE Hears(s, cur[w])
    <3>1. /\ sched'[s].lastTask = cur[w]
          /\ sched'[s].lastStatus = SyncedStatus(w)
      BY <1>t, <1>8, <2>2
         DEF SyncScheduleState, RecordScheduleTaskState, Hears, Sched
    <3> QED
      BY <1>t, <1>8, <2>1, <3>1
         DEF SyncScheduleState, SyncedStatus, SyncPcs, Reports, NotAhead,
             Terminal
  <2>3. CASE ~Hears(s, cur[w])
    BY <1>t, <1>1, <1>8, <2>3 DEF SyncScheduleState, RecordScheduleTaskState
  <2> QED  BY <2>2, <2>3
<1>9. CASE sched' = sched
  BY <1>1, <1>9
<1>10. ASSUME NEW w \in Workers,
              Claim(w) \/ LoopThrows(w) \/ Crash(w) \/ Terminate(w)
       PROVE  sched' = sched
  BY <1>10 DEF Claim, LoopThrows, Crash, Terminate, Forget
<1> QED
  BY <1>2, <1>3, <1>4, <1>6, <1>7, <1>8, <1>9, <1>10, ScheduleFrame
     DEF WritesSchedules

\* Every step keeps the reports behind the tasks.
LEMMA ReportInvStep == ReportInv /\ [Next]_vars => ReportInv'
<1> SUFFICES ASSUME ReportInv, [Next]_vars PROVE ReportInv'
  OBVIOUS
<1>1. TaskInv'
  BY TaskInvStep DEF ReportInv
<1>2. ScheduleNeverAhead'
  BY NotAheadStep DEF ScheduleNeverAhead, NotAhead
<1> QED  BY <1>1, <1>2, ReportsStep, SkipsStep DEF ReportInv

\* A schedule never claims more of its last task than is true of it, although
\* task and schedule are written by separate statements of any workers.
THEOREM ReportsBehindTasks == Spec => []ScheduleNeverAhead
<1>1. ReportInv => ScheduleNeverAhead
  BY DEF ReportInv
<1> QED  BY <1>1, ReportInvInit, ReportInvStep, PTL DEF Spec

=============================================================================
