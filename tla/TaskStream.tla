------------------------------- MODULE TaskStream -------------------------------
(***************************************************************************)
(* The stream of task events that a page follows: every two seconds the    *)
(* list of its tasks is read, compared with what the last poll saw, and    *)
(* the differences are told.  The list is two reads, of the running and of *)
(* the ended tasks, in either order.  A poll that has not finished when    *)
(* the next begins is overtaken: it still takes note of what it saw, but   *)
(* what it has to tell is dropped.  The life of a task is TaskLifecycle's. *)
(*                                                                         *)
(* A definition with an underscore in its name is the next one with a      *)
(* mistake in it.                                                          *)
(***************************************************************************)
EXTENDS ApiRequests, SequencesExt

CONSTANTS
    Tasks,
    ListLimit,      \* tasks of a list, 100 in the code
    MaxMoves        \* bound: changes of tasks

ASSUME StreamConstants == ListLimit \in Nat \ {0} /\ MaxMoves \in Nat

VARIABLES
    task,       \* external: task[t]: status, and when it was created and last
                \* changed
    moves,      \* external: the clock, one tick per change
    ticks,      \* polls that have begun
    newest,     \* the last of them, whose events will be told
    open,       \* the stream has not failed
    known,      \* knownStatuses
    told,       \* told[t]: the events about t that reached the page
    shifted,    \* history: tasks that changed between the reads of a poll
    lost        \* history: tasks that an overtaken poll took note of

streamVars == <<task, moves, ticks, newest, open, known, told, shifted,
                lost>>

RunningStatus == {"pending", "processing"}
EndStatus     == {"completed", "failed"}    \* nothing sets cancelled

TaskRow == [status : RunningStatus \cup EndStatus, created : Nat, at : Nat]
Entry   == [task : Tasks, status : RunningStatus \cup EndStatus, at : Nat]

\* The entries that the two reads returned, and which reads are to come.
StreamCall == [kind : {"stream"}, running : SUBSET Entry,
               ended : SUBSET Entry, unread : SUBSET {"running", "ended"}]

\* Null is no status, and no task.
ASSUME NullIsNoStatus == /\ None \notin RunningStatus \cup EndStatus
                         /\ None \notin TaskRow

\* Tasks of former days may have ended already.
StreamInit ==
    /\ \E S \in SUBSET Tasks :
          task = [t \in Tasks |->
                     IF t \in S THEN [status |-> "completed", created |-> 0,
                                      at |-> 0] ELSE None]
    /\ moves = 0
    /\ ticks = 0 /\ newest = None /\ open = TRUE
    /\ known = [t \in Tasks |-> None]
    /\ told = [t \in Tasks |-> <<>>]
    /\ shifted = {} /\ lost = {}

(***************************************************************************)
(* external: the queue creates, starts and ends tasks; a late result       *)
(* completes one that had failed.                                          *)
(***************************************************************************)
HalfRead(c) == pc[c] = "list" /\ Cardinality(req[c].unread) = 1

Becomes(t, s) ==
    task' = [task EXCEPT ![t] =
               [status |-> s, at |-> moves + 1,
                created |-> IF s = "pending" THEN moves + 1 ELSE @.created]]

TaskMoves(t) ==
    /\ moves < MaxMoves
    /\ moves' = moves + 1
    /\ \/ task[t] = None /\ Becomes(t, "pending")
       \/ /\ task[t] # None
          /\ \/ task[t].status = "pending" /\ Becomes(t, "processing")
             \/ /\ task[t].status = "processing"
                /\ \E s \in EndStatus : Becomes(t, s)
             \/ task[t].status = "failed" /\ Becomes(t, "completed")
    /\ shifted' = IF \E c \in Clients : HalfRead(c) THEN shifted \cup {t}
                  ELSE shifted
    /\ UNCHANGED <<apiVars, ticks, newest, open, known, told, lost>>

(***************************************************************************)
(* getTaskList.                                                            *)
(***************************************************************************)
Row(t) == [task |-> t, status |-> task[t].status, at |-> task[t].at]

WithStatus(S) == {t \in Tasks : task[t] # None /\ task[t].status \in S}

\* Running tasks by their creation, ended ones by their end, the newest first.
RunningRows ==
    LET S == WithStatus(RunningStatus)
    IN  {Row(t) : t \in {u \in S :
            Cardinality({v \in S : task[v].created > task[u].created})
                < ListLimit}}
EndedRows ==
    LET S == WithStatus(EndStatus)
    IN  {Row(t) : t \in {u \in S :
            Cardinality({v \in S : task[v].at > task[u].at}) < ListLimit}}

\* Both together by the time of their last change.
Listed(r) ==
    LET all == r.running \cup r.ended
    IN  {e \in all : Cardinality({f \in all : f.at > e.at}) < ListLimit}

PollBegins(c) ==
    /\ open
    /\ Arrive(c, "list", [kind |-> "stream", running |-> {}, ended |-> {},
                          unread |-> {"running", "ended"}])
    /\ ticks' = ticks + 1
    /\ newest' = c
    /\ UNCHANGED <<task, moves, open, known, told, shifted, lost>>

ReadRunning(c) ==
    /\ pc[c] = "list" /\ "running" \in req[c].unread
    /\ Goto(c, "list", [req[c] EXCEPT !.running = RunningRows,
                                      !.unread = @ \ {"running"}])
    /\ UNCHANGED streamVars

ReadEnded(c) ==
    /\ pc[c] = "list" /\ "ended" \in req[c].unread
    /\ Goto(c, "list", [req[c] EXCEPT !.ended = EndedRows,
                                      !.unread = @ \ {"ended"}])
    /\ UNCHANGED streamVars

(***************************************************************************)
(* The comparison with knownStatuses.                                      *)
(***************************************************************************)
EventOf(s) == CASE s = "pending"    -> <<>>
                [] s = "processing" -> <<"started">>
                [] OTHER            -> <<s>>

\* The first poll announces the running tasks; ended ones it does not note, so
\* that the second announces them.  It looks whether it is the first after it
\* has read: it is not when the second has begun.
FirstNote_Unset(acc, e) ==
    IF e.status \in RunningStatus
    THEN [acc EXCEPT !.events = Append(@, "created")] ELSE acc
FirstNote(acc, e) ==
    IF e.status \in RunningStatus
    THEN [events |-> Append(acc.events, "created"), known |-> e.status]
    ELSE acc

Note(acc, e) ==
    [events |-> acc.events \o
        (IF acc.known = None THEN <<"created">> \o EventOf(e.status)
         ELSE IF acc.known # e.status THEN EventOf(e.status) ELSE <<>>),
     known |-> e.status]

Compared(acc, e) == IF ticks = 1 THEN FirstNote(acc, e) ELSE Note(acc, e)

\* A task that changed between the two reads may have two rows in the list, the
\* one that changed last before the other.
Noted(r, t) ==
    LET rows == {e \in Listed(r) : e.task = t}
        head == CHOOSE e \in rows : \A f \in rows : f.at <= e.at
        acc  == [events |-> <<>>, known |-> known[t]]
    IN  IF rows = {} THEN acc
        ELSE IF rows = {head} THEN Compared(acc, head)
        ELSE Compared(Compared(acc, head), CHOOSE e \in rows \ {head} : TRUE)

PollEnds(c) ==
    LET noted == [t \in Tasks |-> Noted(req[c], t)]
    IN  /\ pc[c] = "list" /\ req[c].unread = {}
        /\ known' = [t \in Tasks |-> noted[t].known]
        /\ IF newest = c
           THEN /\ told' = [t \in Tasks |-> told[t] \o noted[t].events]
                /\ UNCHANGED lost
           ELSE /\ lost' = lost \cup {t \in Tasks : known'[t] # known[t]}
                /\ UNCHANGED told
        /\ Finish(c)
        /\ UNCHANGED <<task, moves, ticks, newest, open, shifted>>

StreamStep(c) == ReadRunning(c) \/ ReadEnded(c) \/ PollEnds(c)

\* A failed poll ends the stream, unless it was overtaken.
Closes(C) == /\ open' = (open /\ newest \notin C)
             /\ UNCHANGED <<task, moves, ticks, newest, known, told, shifted,
                            lost>>

StreamTypeOK ==
    /\ \A t \in Tasks : task[t] \in TaskRow \cup {None}
    /\ moves \in 0 .. MaxMoves
    /\ ticks \in 0 .. MaxRequests
    /\ newest \in Clients \cup {None}
    /\ open \in BOOLEAN
    /\ known \in [Tasks -> RunningStatus \cup EndStatus \cup {None}]
    /\ shifted \cup lost \subseteq Tasks

=============================================================================
