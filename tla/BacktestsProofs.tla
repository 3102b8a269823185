---------------------------- MODULE BacktestsProofs ----------------------------
(***************************************************************************)
(* The types of Backtests, for any number of users and workers, any        *)
(* number of groups, analyses and strategies, and any bounds.              *)
(***************************************************************************)
EXTENDS Backtests, Extremes

-----------------------------------------------------------------------------
(***************************************************************************)
(* Which request may be at which await, and what it has filled in by then: *)
(* what TypeOK lacks to be inductive.                                      *)
(***************************************************************************)
HoldLabels     == {"loadGroup", "runRefine", "storeRefined", "failGroup"}
ReadingLabels  == {"readSummary", "interpret", "writeSummary"}
ReplayLabels   == {"findGroup", "runFast", "insertGroup", "showReplay",
                   "lockGroup"} \cup HoldLabels \cup ReadingLabels
WorkLabels     == {"readRuns", "ask", "writeRuns", "markDone"}
NewJobLabels   == {"runStrategies", "createJob"}
JobLabels      == {"showJob", "readGroup", "writeBack", "lockJob", "putOff"}
                  \cup WorkLabels \cup NewJobLabels
BatchLabels    == {"readBatch", "evaluate", "saveItems"}
SummaryLabels  == {"readRows", "writeRows"}
EvalLabels     == {"deleteResults", "deleteSummaries"} \cup BatchLabels
                  \cup SummaryLabels
StrategyLabels == {"insert", "require", "update", "delete"}
Labels         == {"idle"} \cup ReplayLabels \cup JobLabels \cup EvalLabels
                  \cup StrategyLabels

ReplayFits(l, r) ==
    /\ r \in ReplayCall
    /\ l \in {"interpret", "writeSummary"} => r.seen \in Group
    /\ l = "writeSummary" => r.reading \in Readings

JobFits(l, r) ==
    /\ r \in JobCall
    /\ l \notin NewJobLabels => r.group \in Groups
    /\ l \in {"writeRuns", "writeBack"} => r.answer \in Answers

EvalFits(l, r) ==
    /\ r \in EvalCall
    /\ l = "evaluate" => r.batch # {}
    /\ r.saved > 0 => r.touched # {}
    /\ l \in SummaryLabels => r.saved > 0
    /\ l = "writeRows" => r.rows \in Counts

StrategyFits(l, r) ==
    /\ r \in StrategyCall
    /\ l \in {"insert", "update"} => r.row \in Strategy

CallFits(l, r) ==
    \/ l = "idle" /\ r = None
    \/ l \in ReplayLabels /\ ReplayFits(l, r)
    \/ l \in JobLabels /\ JobFits(l, r)
    \/ l \in EvalLabels /\ EvalFits(l, r)
    \/ l \in StrategyLabels /\ StrategyFits(l, r)

CallTypes ==
    /\ pc \in [Clients -> Labels]
    /\ req \in [Clients -> Requests \cup {None}]
    /\ requests \in 0 .. MaxRequests
    /\ faults \in 0 .. MaxFaults
    /\ \A c \in Clients : CallFits(pc[c], req[c])

\* A row that a request is about is there: none is ever removed.
StoredLabels == ReplayLabels \ {"findGroup", "runFast", "insertGroup"}
GroupsThere ==
    \A c \in Clients : pc[c] \in StoredLabels => Born(req[c].hash)
JobsThere ==
    \A c \in Clients : pc[c] \in JobLabels \ NewJobLabels => Exists(req[c].group)

ReplayTypes == ReplayTypeOK /\ GroupsThere /\ IsFiniteSet(Stored)
JobTypes    == JobTypeOK /\ JobsThere

TypeInv == CallTypes /\ ReplayTypes /\ JobTypes /\ EvalTypeOK /\ StrategyTypeOK

\* The request of c comes to await l with variables x.
ComesTo(c, l, x) == Goto(c, l, x) \/ Arrive(c, l, x) \/ Throws(c, l, x)

\* What CallFits says of labels and requests in general.
LEMMA FitsTyped ==
  ASSUME NEW l, NEW r, CallFits(l, r)
  PROVE  /\ l \in Labels /\ r \in Requests \cup {None}
         /\ l = "idle" <=> r = None
<1>1. r \in Requests \cup {None} /\ (l # "idle" => r \in Requests)
  BY DEF CallFits, ReplayFits, JobFits, EvalFits, StrategyFits, Requests
<1>2. l \in Labels /\ (r # None => l # "idle")
  BY DEF CallFits, Labels, ReplayLabels, HoldLabels, ReadingLabels, JobLabels,
         WorkLabels, NewJobLabels, EvalLabels, BatchLabels, SummaryLabels,
         StrategyLabels
<1>3. r = None => l = "idle"
  BY <1>1, RequestConstants
<1>4. l = "idle" => r = None
  BY DEF CallFits, Labels, ReplayLabels, HoldLabels, ReadingLabels, JobLabels,
         WorkLabels, NewJobLabels, EvalLabels, BatchLabels, SummaryLabels,
         StrategyLabels
<1> QED  BY <1>1, <1>2, <1>3, <1>4

\* What the labels say of the requests.
LEMMA FitsOf ==
  ASSUME CallTypes, NEW c \in Clients
  PROVE  /\ pc[c] = "idle" => req[c] = None
         /\ pc[c] \in ReplayLabels => ReplayFits(pc[c], req[c])
         /\ pc[c] \in JobLabels => JobFits(pc[c], req[c])
         /\ pc[c] \in EvalLabels => EvalFits(pc[c], req[c])
         /\ pc[c] \in StrategyLabels => StrategyFits(pc[c], req[c])
<1>1. CallFits(pc[c], req[c])
  BY DEF CallTypes
<1> QED
  BY <1>1
     DEF CallFits, ReplayLabels, HoldLabels, ReadingLabels, JobLabels,
         WorkLabels, NewJobLabels, EvalLabels, BatchLabels, SummaryLabels,
         StrategyLabels

\* A handler that goes on with what fits its next await keeps the types,
LEMMA GotoTyped ==
  ASSUME CallTypes, NEW c \in Clients, NEW l, NEW r, CallFits(l, r),
         ComesTo(c, l, r)
  PROVE  CallTypes'
<1>1. l \in Labels /\ r \in Requests \cup {None}
  BY FitsTyped
<1>2. /\ pc' = [pc EXCEPT ![c] = l] /\ req' = [req EXCEPT ![c] = r]
  BY DEF ComesTo, Goto, Arrive, Throws
<1>3. /\ pc' \in [Clients -> Labels]
      /\ req' \in [Clients -> Requests \cup {None}]
  BY <1>1, <1>2 DEF CallTypes
<1>4. \A d \in Clients : CallFits(pc'[d], req'[d])
  BY <1>2 DEF CallTypes
<1>5. requests' \in 0 .. MaxRequests /\ faults' \in 0 .. MaxFaults
  BY ApiConstants DEF CallTypes, ComesTo, Goto, Arrive, Throws, Faults
<1> QED  BY <1>3, <1>4, <1>5 DEF CallTypes

\* ... one that returns or ends in an exception comes to rest,
LEMMA FinishTyped ==
  ASSUME NEW c \in Clients, Finish(c) \/ CallFails(c)
  PROVE  ComesTo(c, "idle", None) /\ CallFits("idle", None)
  BY DEF ComesTo, CallFits, Finish, CallFails

\* ... where what it was about does not matter,
LEMMA ComesThere ==
  ASSUME CallTypes, NEW c \in Clients, NEW l, NEW x, ComesTo(c, l, x)
  PROVE  /\ pc'[c] = l /\ req'[c] = x
         /\ \A d \in Clients \ {c} : pc'[d] = pc[d] /\ req'[d] = req[d]
  BY DEF CallTypes, ComesTo, Goto, Arrive, Throws

\* ... and the requests of a process that dies.
LEMMA LoseTyped ==
  ASSUME CallTypes, NEW C, Lose(C)
  PROVE  CallTypes'
<1>1. CallFits("idle", None) /\ "idle" \in Labels
  BY DEF CallFits, Labels
<1>2. /\ pc' \in [Clients -> Labels]
      /\ req' \in [Clients -> Requests \cup {None}]
      /\ \A d \in Clients : CallFits(pc'[d], req'[d])
  BY <1>1 DEF CallTypes, Lose
<1>3. faults' \in 0 .. MaxFaults /\ requests' = requests
  BY ApiConstants DEF CallTypes, Lose, Faults
<1> QED  BY <1>2, <1>3 DEF CallTypes

-----------------------------------------------------------------------------
(***************************************************************************)
(* The handlers of each page keep the types.                               *)
(***************************************************************************)
\* A step on a replay that removes no group.
LEMMA ReplayKept ==
  ASSUME CallTypes, ReplayTypes, NEW c \in Clients, NEW l, NEW x,
         ComesTo(c, l, x), CallFits(l, x),
         l \in StoredLabels => replay'[x.hash] # None,
         ReplayTypeOK', IsFiniteSet(Stored)',
         \A h \in Hashes : Born(h) => replay'[h] # None
  PROVE  CallTypes' /\ ReplayTypes'
<1>1. CallTypes'
  BY GotoTyped
<1>2. GroupsThere'
  <2> SUFFICES ASSUME NEW d \in Clients, pc'[d] \in StoredLabels
               PROVE  replay'[req'[d].hash] # None
    BY DEF GroupsThere, Born
  <2>1. CASE d = c
    BY <2>1, ComesThere
  <2>2. CASE d # c
    <3>1. pc'[d] = pc[d] /\ req'[d] = req[d]
      BY <2>2, ComesThere
    <3>2. req[d].hash \in Hashes
      BY <3>1, FitsOf DEF StoredLabels, ReplayFits, ReplayCall
    <3> QED  BY <3>1, <3>2 DEF ReplayTypes, GroupsThere, Born
  <2> QED  BY <2>1, <2>2
<1> QED  BY <1>1, <1>2 DEF ReplayTypes

\* Most steps only read the groups.
LEMMA ReplayRead ==
  ASSUME CallTypes, ReplayTypes, NEW c \in Clients, NEW l, NEW x,
         ComesTo(c, l, x), CallFits(l, x),
         l \in StoredLabels => Born(x.hash),
         UNCHANGED <<replay, forsaken>>, outrun' \in {outrun, outrun \ {c}}
  PROVE  CallTypes' /\ ReplayTypes'
<1>1. ReplayTypeOK' /\ IsFiniteSet(Stored)'
  BY DEF ReplayTypes, ReplayTypeOK, Stored, Born
<1> QED  BY <1>1, ReplayKept DEF Born

\* Replays: from the request to the interpretation.
LEMMA ReplayTyped ==
  ASSUME CallTypes, ReplayTypes, NEW c \in Clients,
         ReplayRequest(c) \/ ShowRequest(c) \/ ReplayStep(c)
  PROVE  CallTypes' /\ ReplayTypes'
<1> DEFINE r == req[c]
<1>1. pc[c] \in ReplayLabels => /\ ReplayFits(pc[c], r) /\ r \in ReplayCall
                                /\ r.hash \in Hashes
  BY FitsOf DEF ReplayFits, ReplayCall
<1>2. pc[c] \in StoredLabels => replay[r.hash] \in Group
  BY <1>1 DEF ReplayTypes, GroupsThere, Born, ReplayTypeOK, StoredLabels
<1> USE DEF ReplayLabels, HoldLabels, ReadingLabels, StoredLabels
<1>3. \A l \in ReplayLabels, x \in ReplayCall :
         l \notin {"interpret", "writeSummary"} => CallFits(l, x)
  BY DEF CallFits, ReplayFits
<1>4. ASSUME NEW x \in ReplayCall, Leaves(c, x.then, x)
      PROVE  \E l, y : /\ ComesTo(c, l, y) /\ CallFits(l, y)
                       /\ l \in StoredLabels => y = x
  <2>1. CASE x.then = "return"
    BY <1>4, <2>1, FinishTyped DEF Leaves
  <2>2. CASE x.then = "showReplay"
    BY <1>3, <1>4, <2>2 DEF Leaves, ComesTo
  <2> QED  BY <2>1, <2>2 DEF ReplayCall
<1>5. \A o \in {"replay", "showReplay", "refine"}, h \in Hashes :
         Call(o, h) \in ReplayCall /\ Call(o, h).hash = h
  BY DEF Call, ReplayCall
<1>6. CASE ReplayRequest(c)
  <2>1. PICK h \in Hashes, b \in BOOLEAN :
           Arrive(c, "findGroup", [Call("replay", h) EXCEPT !.refine = b])
    BY <1>6 DEF ReplayRequest
  <2>2. [Call("replay", h) EXCEPT !.refine = b] \in ReplayCall
    BY <1>5 DEF ReplayCall
  <2> QED
    BY <1>3, <1>6, <2>1, <2>2, ReplayRead DEF ReplayRequest, replayVars, ComesTo
<1>7. CASE ShowRequest(c)
  <2>1. PICK h \in Stored : Arrive(c, "showReplay", Call("showReplay", h))
    BY <1>7 DEF ShowRequest
  <2>2. Call("showReplay", h) \in ReplayCall /\ Born(Call("showReplay", h).hash)
    BY <1>5 DEF Stored
  <2> QED
    BY <1>3, <1>7, <2>1, <2>2, ReplayRead DEF ShowRequest, replayVars, ComesTo
<1>8. CASE FindGroup(c)
  <2>1. r \in ReplayCall
    BY <1>1, <1>8 DEF FindGroup
  <2>2. (Goto(c, "showReplay", r) /\ Born(r.hash)) \/ Goto(c, "runFast", r)
    BY <1>8 DEF FindGroup
  <2> QED
    BY <1>3, <1>8, <2>1, <2>2, ReplayRead DEF FindGroup, replayVars, ComesTo
<1>9. CASE RunFast(c)
  <2>1. r \in ReplayCall
    BY <1>1, <1>9 DEF RunFast
  <2>2. \/ \E b \in BOOLEAN : Goto(c, "insertGroup", [r EXCEPT !.refine = b])
        \/ Finish(c)
    <3>1. \A a \in BOOLEAN : (r.refine /\ a) \in BOOLEAN
      OBVIOUS
    <3> QED  BY <1>9, <2>1, <3>1 DEF RunFast
  <2>3. \A b \in BOOLEAN : [r EXCEPT !.refine = b] \in ReplayCall
    BY <2>1 DEF ReplayCall
  <2>4. CASE Finish(c)
    BY <1>9, <2>4, FinishTyped, ReplayRead DEF RunFast, replayVars
  <2>5. ASSUME NEW b \in BOOLEAN, Goto(c, "insertGroup", [r EXCEPT !.refine = b])
        PROVE  CallTypes' /\ ReplayTypes'
    <3>1. CallFits("insertGroup", [r EXCEPT !.refine = b])
      BY <1>3, <2>3
    <3> QED  BY <1>9, <2>5, <3>1, ReplayRead DEF RunFast, replayVars, ComesTo
  <2> QED  BY <2>2, <2>4, <2>5
<1>10. CASE InsertGroup(c)
  <2>1. r \in ReplayCall /\ r.hash \in Hashes /\ r.refine \in BOOLEAN
    BY <1>1, <1>10 DEF InsertGroup, ReplayCall
  <2>2. /\ ReplayTypeOK' /\ IsFiniteSet(Stored)' /\ replay'[r.hash] # None
        /\ \A h \in Hashes : Born(h) => replay'[h] # None
    <3>1. CASE Born(r.hash)
      BY <1>10, <3>1 DEF InsertGroup, ReplayTypes, ReplayTypeOK, Stored, Born
    <3>2. CASE ~Born(r.hash)
      <4>1. NewGroup(r.refine) \in Group /\ NewGroup(r.refine) # None
        <5>1. Cardinality(Stored) \in Nat
          BY FS_CardinalityType DEF ReplayTypes
        <5>2. NewGroup(r.refine) \in Group
          BY <2>1, <5>1 DEF NewGroup, Group
        <5> QED  BY <5>2, NullIsNoGroup
      <4>2. replay' = [replay EXCEPT ![r.hash] = NewGroup(r.refine)]
        BY <1>10, <3>2 DEF InsertGroup
      <4>3. Stored' = Stored \cup {r.hash}
        BY <2>1, <4>1, <4>2 DEF Stored, Born, ReplayTypes, ReplayTypeOK
      <4>4. IsFiniteSet(Stored)'
        BY <4>3, FS_AddElement DEF ReplayTypes
      <4> QED
        BY <1>10, <2>1, <4>1, <4>2, <4>4
           DEF Born, ReplayTypes, ReplayTypeOK, InsertGroup
    <3> QED  BY <3>1, <3>2
  <2>3. \/ Goto(c, "showReplay", r)
        \/ Goto(c, "readSummary", [r EXCEPT !.then = "showReplay"])
    <3>1. [r EXCEPT !.then = r.then] = r
      BY <2>1 DEF ReplayCall
    <3> QED  BY <1>10, <3>1 DEF InsertGroup
  <2>4. /\ [r EXCEPT !.then = "showReplay"] \in ReplayCall
        /\ [r EXCEPT !.then = "showReplay"].hash = r.hash
    BY <2>1 DEF ReplayCall
  <2>5. PICK l \in {"showReplay", "readSummary"}, x \in ReplayCall :
           ComesTo(c, l, x) /\ x.hash = r.hash
    BY <2>1, <2>3, <2>4 DEF ComesTo
  <2>6. CallFits(l, x)
    BY <1>3
  <2> QED  BY <2>2, <2>5, <2>6, ReplayKept
<1>11. CASE ShowReplay(c)
  <2>1. r \in ReplayCall /\ Born(r.hash)
    BY <1>1, <1>11 DEF ShowReplay, ReplayTypes, GroupsThere
  <2>2. \/ Goto(c, "readSummary", [r EXCEPT !.then = "return"])
        \/ Finish(c)
    BY <1>11 DEF ShowReplay
  <2>3. /\ [r EXCEPT !.then = "return"] \in ReplayCall
        /\ [r EXCEPT !.then = "return"].hash = r.hash
    BY <2>1 DEF ReplayCall
  <2>4. CASE Finish(c)
    BY <1>11, <2>4, FinishTyped, ReplayRead DEF ShowReplay, replayVars
  <2>5. CASE Goto(c, "readSummary", [r EXCEPT !.then = "return"])
    <3>1. CallFits("readSummary", [r EXCEPT !.then = "return"])
      BY <1>3, <2>3
    <3> QED
      BY <1>11, <2>1, <2>3, <2>5, <3>1, ReplayRead
         DEF ShowReplay, replayVars, ComesTo
  <2> QED  BY <2>2, <2>4, <2>5
<1>12. CASE ReadSummary(c)
  <2> DEFINE g == replay[r.hash]
             x == [r EXCEPT !.seen = g]
  <2>1. r \in ReplayCall /\ g \in Group /\ Born(r.hash)
    BY <1>1, <1>2, <1>12 DEF ReadSummary, ReplayTypes, GroupsThere
  <2>2. x \in ReplayCall /\ x.seen \in Group /\ x.hash = r.hash
    BY <2>1 DEF ReplayCall
  <2>3. CallFits("interpret", x)
    BY <2>2 DEF CallFits, ReplayFits
  <2>4. Goto(c, "interpret", x) \/ Leaves(c, r.then, r)
    BY <1>12 DEF ReadSummary
  <2> HIDE DEF x
  <2>5. \E l, y : /\ ComesTo(c, l, y) /\ CallFits(l, y)
                  /\ l \in StoredLabels => Born(y.hash)
    BY <1>4, <2>1, <2>2, <2>3, <2>4 DEF ComesTo
  <2> QED  BY <1>12, <2>5, ReplayRead DEF ReadSummary
<1>13. CASE Interpret(c)
  <2>1. r \in ReplayCall /\ r.seen \in Group /\ Born(r.hash)
    BY <1>1, <1>13 DEF Interpret, ReplayFits, ReplayTypes, GroupsThere
  <2>2. PICK a \in Readings : Goto(c, "writeSummary", [r EXCEPT !.reading = a])
    BY <1>13 DEF Interpret
  <2> DEFINE x == [r EXCEPT !.reading = a]
  <2>3. /\ x \in ReplayCall /\ x.hash = r.hash /\ x.seen \in Group
        /\ x.reading \in Readings
    BY <2>1 DEF ReplayCall
  <2>4. CallFits("writeSummary", x) /\ ComesTo(c, "writeSummary", x)
    BY <2>2, <2>3 DEF CallFits, ReplayFits, ComesTo
  <2> HIDE DEF x
  <2> QED  BY <1>13, <2>1, <2>3, <2>4, ReplayRead DEF Interpret, replayVars
<1>14. CASE WriteSummary(c)
  <2>1. /\ r \in ReplayCall /\ r.seen \in Group /\ Born(r.hash)
        /\ r.reading \in Readings /\ replay[r.hash] \in Group
    BY <1>1, <1>2, <1>14 DEF WriteSummary, ReplayFits, ReplayTypes, GroupsThere
  <2> DEFINE g == [replay[r.hash] EXCEPT !.summary = r.seen.summary,
                                         !.reading = r.reading]
  <2>2. g \in Group /\ g # None
    <3>1. g \in Group
      BY <2>1 DEF Group
    <3> QED  BY <3>1, NullIsNoGroup
  <2>3. replay' = [replay EXCEPT ![r.hash] = g]
    BY <1>1, <1>14 DEF WriteSummary, ReplayTypes, ReplayTypeOK
  <2> HIDE DEF g
  <2>4. \A h \in Hashes : (Born(h) <=> replay'[h] # None)
    BY <2>1, <2>2, <2>3 DEF Born, ReplayTypes, ReplayTypeOK
  <2>5. Stored' = Stored
    BY <2>4 DEF Stored, Born
  <2>6. ReplayTypeOK'
    BY <1>14, <2>2, <2>3 DEF WriteSummary, ReplayTypes, ReplayTypeOK
  <2>7. \E l, y : /\ ComesTo(c, l, y) /\ CallFits(l, y)
                  /\ l \in StoredLabels => y = r
    BY <1>4, <1>14, <2>1 DEF WriteSummary
  <2>8. replay'[r.hash] # None
    BY <1>1, <1>14, <2>1, <2>4 DEF WriteSummary, Born
  <2> QED  BY <2>4, <2>5, <2>6, <2>7, <2>8, ReplayKept DEF ReplayTypes
<1> QED
  BY <1>6, <1>7, <1>8, <1>9, <1>10, <1>11, <1>12, <1>13, <1>14 DEF ReplayStep

\* A step that changes the row of one group and nothing else of the table.
LEMMA GroupWritten ==
  ASSUME ReplayTypes, NEW h \in Hashes, Born(h), NEW g \in Group,
         replay' = [replay EXCEPT ![h] = g],
         UNCHANGED <<forsaken, outrun>>
  PROVE  /\ ReplayTypeOK' /\ IsFiniteSet(Stored)'
         /\ \A o \in Hashes : Born(o) => replay'[o] # None
<1>1. g # None
  BY NullIsNoGroup
<1>2. \A o \in Hashes : Born(o) <=> (replay'[o] # None)
  BY <1>1 DEF Born, ReplayTypes, ReplayTypeOK
<1>3. Stored' = Stored
  BY <1>2 DEF Stored, Born
<1> QED  BY <1>2, <1>3 DEF ReplayTypes, ReplayTypeOK

\* The refinement of a group by a worker.
LEMMA RefineTyped ==
  ASSUME CallTypes, ReplayTypes, NEW c \in Clients,
         RefineStep(c) \/ StoreUnanswered(c)
  PROVE  CallTypes' /\ ReplayTypes'
<1> DEFINE r == req[c]
           g == replay[r.hash]
<1> USE DEF ReplayLabels, HoldLabels, ReadingLabels, StoredLabels
<1>1. pc[c] \in StoredLabels => /\ r \in ReplayCall /\ r.hash \in Hashes
                                /\ Born(r.hash) /\ g \in Group
  BY FitsOf
     DEF ReplayFits, ReplayCall, ReplayTypes, GroupsThere, Born, ReplayTypeOK
<1>2. \A l \in ReplayLabels, x \in ReplayCall :
         l \notin {"interpret", "writeSummary"} => CallFits(l, x)
  BY DEF CallFits, ReplayFits
<1>3. replay \in [Hashes -> Group \cup {None}]
  BY DEF ReplayTypes, ReplayTypeOK
<1>4. CASE PickGroup(c)
  <2>1. PICK h \in Hashes : Waits(h) /\ Goto(c, "lockGroup", Call("refine", h))
    BY <1>4 DEF PickGroup
  <2>2. Call("refine", h) \in ReplayCall /\ Call("refine", h).hash = h
    BY DEF Call, ReplayCall
  <2>3. CallFits("lockGroup", Call("refine", h)) /\ Born(h)
    BY <1>2, <2>1, <2>2 DEF Waits
  <2> QED
    BY <1>4, <2>1, <2>2, <2>3, ReplayRead DEF PickGroup, replayVars, ComesTo
<1>5. CASE LockGroup(c)
  <2>1. r \in ReplayCall /\ r.hash \in Hashes /\ Born(r.hash) /\ g \in Group
    BY <1>1, <1>5 DEF LockGroup
  <2>2. CASE Finish(c) /\ UNCHANGED replay
    BY <1>5, <2>2, FinishTyped, ReplayRead DEF LockGroup
  <2>3. CASE /\ replay' = [replay EXCEPT ![r.hash].phase = "refine"]
             /\ Goto(c, "loadGroup", r)
    <3>1. [g EXCEPT !.phase = "refine"] \in Group
      BY <2>1 DEF Group
    <3>2. replay' = [replay EXCEPT ![r.hash] = [g EXCEPT !.phase = "refine"]]
      BY <1>3, <2>1, <2>3
    <3>3. CallFits("loadGroup", r)
      BY <1>2, <2>1
    <3> QED
      BY <1>5, <2>1, <2>3, <3>1, <3>2, <3>3, GroupWritten, ReplayKept
         DEF LockGroup, ComesTo
  <2> QED  BY <1>5, <2>2, <2>3 DEF LockGroup
<1>6. CASE LoadGroup(c)
  <2>1. r \in ReplayCall /\ Born(r.hash) /\ CallFits("runRefine", r)
    BY <1>1, <1>2, <1>6 DEF LoadGroup
  <2> QED  BY <1>6, <2>1, ReplayRead DEF LoadGroup, replayVars, ComesTo
<1>7. CASE RunRefine(c)
  <2>1. PICK next \in {"storeRefined", "failGroup"} : Goto(c, next, r)
    BY <1>7 DEF RunRefine
  <2>2. r \in ReplayCall /\ Born(r.hash) /\ CallFits(next, r)
    BY <1>1, <1>2, <1>7, <2>1 DEF RunRefine
  <2> QED  BY <1>7, <2>1, <2>2, ReplayRead DEF RunRefine, replayVars, ComesTo
<1>8. CASE StoreRefined(c) \/ StoreUnanswered(c)
  <2>1. r \in ReplayCall /\ r.hash \in Hashes /\ Born(r.hash) /\ g \in Group
    BY <1>1, <1>8 DEF StoreRefined, StoreUnanswered
  <2>2. Refined(g) \in Group
    <3>1. g.versions \cup {2} \in SUBSET (1 .. 2) /\ 2 \in 1 .. 2
      BY <2>1 DEF Group
    <3>2. PersistResultVersion(g, 2) \in Group
      BY <2>1, <3>1 DEF PersistResultVersion, Group
    <3> QED  BY <3>1, <3>2 DEF Refined, Group
  <2>3. replay' = [replay EXCEPT ![r.hash] = Refined(g)]
    BY <1>8 DEF StoreRefined, StoreUnanswered
  <2>4. PICK l \in {"readSummary", "failGroup"} : ComesTo(c, l, r)
    BY <1>8 DEF StoreRefined, StoreUnanswered, ComesTo
  <2>5. CallFits(l, r)
    BY <1>2, <2>1
  <2> QED
    BY <1>8, <2>1, <2>2, <2>3, <2>4, <2>5, GroupWritten, ReplayKept
       DEF StoreRefined, StoreUnanswered
<1>9. CASE FailGroup(c)
  <2>1. r \in ReplayCall /\ r.hash \in Hashes /\ Born(r.hash) /\ g \in Group
    BY <1>1, <1>9 DEF FailGroup
  <2>2. [g EXCEPT !.status = "failed", !.phase = "done"] \in Group
    BY <2>1 DEF Group
  <2>3. replay' = [replay EXCEPT ![r.hash] =
                     [g EXCEPT !.status = "failed", !.phase = "done"]]
    BY <1>3, <1>9, <2>1 DEF FailGroup
  <2>4. Finish(c) /\ UNCHANGED <<forsaken, outrun>>
    BY <1>9 DEF FailGroup
  <2>5. /\ ReplayTypeOK' /\ IsFiniteSet(Stored)'
        /\ \A o \in Hashes : Born(o) => replay'[o] # None
    BY <2>1, <2>2, <2>3, <2>4, GroupWritten
  <2> QED  BY <2>4, <2>5, FinishTyped, ReplayKept
<1> QED
  BY <1>4, <1>5, <1>6, <1>7, <1>8, <1>9 DEF RefineStep

-----------------------------------------------------------------------------
(***************************************************************************)
(* Jobs.                                                                   *)
(***************************************************************************)
\* A step on a job that removes none.
LEMMA JobKept ==
  ASSUME CallTypes, JobTypes, NEW c \in Clients, NEW l, NEW x,
         ComesTo(c, l, x), CallFits(l, x), JobTypeOK',
         l \in JobLabels \ NewJobLabels => job'[x.group] # None,
         \A g \in Groups : Exists(g) => job'[g] # None
  PROVE  CallTypes' /\ JobTypes'
<1>1. CallTypes'
  BY GotoTyped
<1>2. JobsThere'
  <2> SUFFICES ASSUME NEW d \in Clients, pc'[d] \in JobLabels \ NewJobLabels
               PROVE  job'[req'[d].group] # None
    BY DEF JobsThere, Exists
  <2>1. CASE d = c
    BY <2>1, ComesThere
  <2>2. CASE d # c
    <3>1. pc'[d] = pc[d] /\ req'[d] = req[d]
      BY <2>2, ComesThere
    <3>2. req[d].group \in Groups
      BY <3>1, FitsOf DEF JobFits
    <3> QED  BY <3>1, <3>2 DEF JobTypes, JobsThere, Exists
  <2> QED  BY <2>1, <2>2
<1> QED  BY <1>1, <1>2 DEF JobTypes

\* Most steps only read the jobs.
LEMMA JobRead ==
  ASSUME CallTypes, JobTypes, NEW c \in Clients, NEW l, NEW x,
         ComesTo(c, l, x), CallFits(l, x),
         l \in JobLabels \ NewJobLabels => Exists(x.group),
         UNCHANGED <<job, adrift>>, surpassed' \in {surpassed, surpassed \ {c}}
  PROVE  CallTypes' /\ JobTypes'
<1>1. JobTypeOK'
  BY DEF JobTypes, JobTypeOK
<1> QED  BY <1>1, JobKept DEF Exists

\* The next id is the least one that no job has.
LEMMA NextIdFound ==
  ASSUME Created # Groups
  PROVE  NextId \in Groups \ Created
<1>1. Groups \ Created # {} /\ Groups \ Created \in SUBSET Nat
  BY JobConstants DEF Created
<1>2. \E g \in Groups \ Created : \A h \in Groups \ Created : g <= h
  BY <1>1, LeastExists
<1> QED  BY <1>2 DEF NextId

\* A step that changes the row of one job and nothing else of the table.
LEMMA JobWritten ==
  ASSUME JobTypes, NEW h \in Groups, NEW j \in Job,
         job' = [job EXCEPT ![h] = j],
         adrift' = adrift, surpassed' \subseteq Clients
  PROVE  /\ JobTypeOK' /\ job'[h] # None
         /\ \A g \in Groups : Exists(g) => job'[g] # None
<1>1. j # None
  BY NullIsNoJob
<1> QED  BY <1>1 DEF JobTypes, JobTypeOK, Exists

\* The pages and the loop of the worker over the jobs.
LEMMA JobTyped ==
  ASSUME CallTypes, JobTypes, NEW c \in Clients,
         \/ StrategyRequest(c) \/ ShowJobRequest(c) \/ WriteBackRequest(c)
         \/ JobStep(c) \/ WorkStep(c)
  PROVE  CallTypes' /\ JobTypes'
<1> DEFINE r == req[c]
           j == job[r.group]
<1> USE DEF JobLabels, WorkLabels, NewJobLabels
<1>1. pc[c] \in JobLabels => JobFits(pc[c], r) /\ r \in JobCall
  BY FitsOf DEF JobFits
<1>2. pc[c] \in JobLabels \ NewJobLabels =>
         /\ r.group \in Groups /\ Exists(r.group) /\ j \in Job
  BY <1>1 DEF JobFits, JobTypes, JobsThere, Exists, JobTypeOK
<1>3. \A l \in JobLabels \ NewJobLabels, x \in JobCall :
         l \notin {"writeRuns", "writeBack"} /\ x.group \in Groups
         => CallFits(l, x)
  BY DEF CallFits, JobFits
<1>4. \A l \in NewJobLabels, x \in JobCall : CallFits(l, x)
  BY DEF CallFits, JobFits
<1>5. \A o \in {"createJob", "showJob", "work", "writeBack"},
         g \in Groups \cup {None} :
         CallFor(o, g) \in JobCall /\ CallFor(o, g).group = g
  BY DEF CallFor, JobCall
<1>6. /\ job \in [Groups -> Job \cup {None}] /\ adrift \subseteq Groups
      /\ surpassed \subseteq Clients
  BY DEF JobTypes, JobTypeOK
<1>7. ASSUME Surpasses(c) PROVE surpassed' \subseteq Clients
  BY <1>6, <1>7 DEF Surpasses
<1>8. CASE StrategyRequest(c)
  <2>1. PICK m \in BOOLEAN :
           Arrive(c, "runStrategies",
                  [CallFor("createJob", None) EXCEPT !.managed = m])
    BY <1>8 DEF StrategyRequest
  <2>2. [CallFor("createJob", None) EXCEPT !.managed = m] \in JobCall
    BY <1>5 DEF JobCall
  <2> QED
    BY <1>4, <1>8, <2>1, <2>2, JobRead DEF StrategyRequest, jobVars, ComesTo
<1>9. CASE ShowJobRequest(c) \/ WriteBackRequest(c)
  <2>1. PICK g \in Created, l \in {"showJob", "readGroup"},
             o \in {"showJob", "writeBack"} : Arrive(c, l, CallFor(o, g))
    BY <1>9 DEF ShowJobRequest, WriteBackRequest
  <2>2. g \in Groups /\ Exists(g)
    BY DEF Created
  <2>3. CallFits(l, CallFor(o, g)) /\ CallFor(o, g).group = g
    BY <1>3, <1>5, <2>2
  <2> QED
    BY <1>9, <2>1, <2>2, <2>3, JobRead
       DEF ShowJobRequest, WriteBackRequest, jobVars, ComesTo
<1>10. CASE RunStrategies(c)
  <2>1. r \in JobCall /\ CallFits("createJob", r)
    BY <1>1, <1>4, <1>10 DEF RunStrategies
  <2>2. CASE Goto(c, "createJob", r)
    BY <1>10, <2>1, <2>2, JobRead DEF RunStrategies, jobVars, ComesTo
  <2>3. CASE Finish(c)
    BY <1>10, <2>3, FinishTyped, JobRead DEF RunStrategies, jobVars
  <2> QED  BY <1>10, <2>2, <2>3 DEF RunStrategies
<1>11. CASE CreateJob(c)
  <2>1. Finish(c) /\ UNCHANGED <<adrift, surpassed>> /\ r \in JobCall
    BY <1>1, <1>11 DEF CreateJob
  <2>2. CASE Created = Groups
    BY <1>11, <2>1, <2>2, FinishTyped, JobRead DEF CreateJob
  <2>3. CASE Created # Groups
    <3> DEFINE n == [status |-> IF r.managed THEN "processing" ELSE "pending",
                     attempts |-> 0, due |-> TRUE, round |-> 0,
                     managed |-> r.managed, answer |-> None]
    <3>1. n \in Job
      BY <2>1 DEF Job, Statuses, JobCall
    <3>2. job' = [job EXCEPT ![NextId] = n] /\ NextId \in Groups
      BY <1>11, <2>3, NextIdFound DEF CreateJob
    <3> HIDE DEF n
    <3>3. JobTypeOK' /\ \A g \in Groups : Exists(g) => job'[g] # None
      BY <1>6, <2>1, <3>1, <3>2, JobWritten
    <3> QED  BY <2>1, <3>3, FinishTyped, JobKept
  <2> QED  BY <2>2, <2>3
<1>12. CASE ShowJob(c)
  <2>1. /\ r \in JobCall /\ r.group \in Groups /\ Exists(r.group)
        /\ CallFits("readRuns", r)
    BY <1>1, <1>2, <1>3, <1>12 DEF ShowJob
  <2>2. CASE Goto(c, "readRuns", r)
    BY <1>12, <2>1, <2>2, JobRead DEF ShowJob, jobVars, ComesTo
  <2>3. CASE Finish(c)
    BY <1>12, <2>3, FinishTyped, JobRead DEF ShowJob, jobVars
  <2> QED  BY <1>12, <2>2, <2>3 DEF ShowJob
<1>13. CASE ReadRuns(c)
  <2>1. PICK l \in {"ask", "markDone"} : Goto(c, l, r)
    BY <1>13 DEF ReadRuns
  <2>2. Exists(r.group) /\ CallFits(l, r)
    BY <1>1, <1>2, <1>3, <1>13 DEF ReadRuns
  <2> QED  BY <1>13, <2>1, <2>2, JobRead DEF ReadRuns, ComesTo
<1>14. CASE Ask(c) \/ ReadGroup(c)
  <2>1. \/ \E a \in Answers, l \in {"writeRuns", "writeBack"} :
              Goto(c, l, [r EXCEPT !.answer = a])
        \/ Finish(c)
    BY <1>14 DEF Ask, ReadGroup
  <2>2. r \in JobCall /\ r.group \in Groups /\ Exists(r.group)
    BY <1>1, <1>2, <1>14 DEF Ask, ReadGroup
  <2>3. ASSUME NEW a \in Answers, NEW l \in {"writeRuns", "writeBack"},
               Goto(c, l, [r EXCEPT !.answer = a])
        PROVE  CallTypes' /\ JobTypes'
    <3> DEFINE x == [r EXCEPT !.answer = a]
    <3>1. x \in JobCall /\ x.group = r.group /\ x.answer = a
      BY <2>2 DEF JobCall
    <3>2. CallFits(l, x) /\ ComesTo(c, l, x)
      BY <2>2, <2>3, <3>1 DEF CallFits, JobFits, ComesTo
    <3> HIDE DEF x
    <3> QED  BY <1>14, <2>2, <3>1, <3>2, JobRead DEF Ask, ReadGroup, jobVars
  <2>4. CASE Finish(c)
    BY <1>14, <2>4, FinishTyped, JobRead DEF Ask, ReadGroup, jobVars
  <2> QED  BY <2>1, <2>3, <2>4
<1>15. CASE WriteRuns(c)
  <2>1. /\ r \in JobCall /\ r.group \in Groups /\ j \in Job
        /\ r.answer \in Answers
    BY <1>1, <1>2, <1>15 DEF WriteRuns, JobFits
  <2>2. [j EXCEPT !.answer = r.answer] \in Job
    BY <2>1 DEF Job
  <2>3. job' = [job EXCEPT ![r.group] = [j EXCEPT !.answer = r.answer]]
    BY <1>6, <1>15, <2>1 DEF WriteRuns
  <2>4. /\ JobTypeOK' /\ job'[r.group] # None
        /\ \A g \in Groups : Exists(g) => job'[g] # None
    BY <1>7, <1>15, <2>1, <2>2, <2>3, JobWritten DEF WriteRuns
  <2>5. ComesTo(c, "markDone", r) /\ CallFits("markDone", r)
    BY <1>3, <1>15, <2>1 DEF WriteRuns, ComesTo
  <2> QED  BY <2>4, <2>5, JobKept
<1>16. CASE MarkDone(c) \/ WriteBack(c) \/ PutOff(c)
  <2>1. r \in JobCall /\ r.group \in Groups /\ j \in Job
    BY <1>1, <1>2, <1>16 DEF MarkDone, WriteBack, PutOff
  <2>2. ASSUME MarkDone(c) PROVE \E n \in Job : job' = [job EXCEPT ![r.group] = n]
    <3>1. [j EXCEPT !.status = "completed", !.due = TRUE] \in Job
      BY <2>1 DEF Job, Statuses
    <3> QED  BY <1>6, <2>1, <2>2, <3>1 DEF MarkDone
  <2>3. ASSUME WriteBack(c) PROVE \E n \in Job : job' = [job EXCEPT ![r.group] = n]
    <3>1. r.answer \in Answers
      BY <1>1, <2>3 DEF WriteBack, JobFits
    <3>2. [j EXCEPT !.answer = r.answer, !.status = "completed", !.due = TRUE]
          \in Job
      BY <2>1, <3>1 DEF Job, Statuses
    <3> QED  BY <1>6, <2>1, <2>3, <3>2 DEF WriteBack
  <2>4. ASSUME PutOff(c) PROVE \E n \in Job : job' = [job EXCEPT ![r.group] = n]
    <3> DEFINE e == r.attempts >= MaxAttempts
               n == [j EXCEPT !.status = IF e THEN "failed" ELSE "pending",
                              !.due = e, !.round = IF e THEN @ ELSE @ + 1]
    <3>1. n \in Job
      <4>1. \A s \in Statuses, b \in BOOLEAN, k \in Nat :
               [j EXCEPT !.status = s, !.due = b, !.round = k] \in Job
        BY <2>1 DEF Job
      <4>2. e \in BOOLEAN
        OBVIOUS
      <4> HIDE DEF e
      <4>3. (IF e THEN j.round ELSE j.round + 1) \in Nat
        BY <2>1 DEF Job
      <4>4. (IF e THEN "failed" ELSE "pending") \in Statuses
        BY DEF Statuses
      <4> QED  BY <4>1, <4>2, <4>3, <4>4
    <3>2. job' = [job EXCEPT ![r.group] = n]
      BY <1>6, <2>1, <2>4 DEF PutOff
    <3> QED  BY <3>1, <3>2
  <2>5. Finish(c) /\ adrift' = adrift /\ surpassed' \subseteq Clients
    BY <1>6, <1>7, <1>16 DEF MarkDone, WriteBack, PutOff
  <2>6. JobTypeOK' /\ \A g \in Groups : Exists(g) => job'[g] # None
    BY <1>16, <2>1, <2>2, <2>3, <2>4, <2>5, JobWritten
  <2> QED  BY <2>5, <2>6, FinishTyped, JobKept
<1>17. CASE PickJob(c)
  <2>1. PICK g \in Groups :
           Ready(g) /\ Goto(c, "lockJob", [CallFor("work", g) EXCEPT
                                !.attempts = job[g].attempts + 1,
                                !.round = job[g].round])
    BY <1>17 DEF PickJob
  <2> DEFINE x == [CallFor("work", g) EXCEPT !.attempts = job[g].attempts + 1,
                                             !.round = job[g].round]
  <2>2. job[g] \in Job /\ Exists(g)
    BY <1>6, <2>1 DEF Ready, Exists
  <2>3. x \in JobCall /\ x.group = g
    <3>1. job[g].attempts + 1 \in Nat /\ job[g].round \in Nat
      BY <2>2 DEF Job
    <3>2. CallFor("work", g) \in JobCall /\ CallFor("work", g).group = g
      BY <1>5
    <3> QED  BY <3>1, <3>2 DEF JobCall
  <2> HIDE DEF x
  <2>4. CallFits("lockJob", x)
    BY <1>3, <2>3
  <2>5. ComesTo(c, "lockJob", x)
    BY <2>1 DEF ComesTo, x
  <2> QED  BY <1>17, <2>2, <2>3, <2>4, <2>5, JobRead DEF PickJob, jobVars
<1>18. CASE LockJob(c)
  <2>1. r \in JobCall /\ r.group \in Groups /\ j \in Job
    BY <1>1, <1>2, <1>18 DEF LockJob
  <2>2. CASE Finish(c) /\ UNCHANGED job
    BY <1>18, <2>2, FinishTyped, JobRead DEF LockJob
  <2>3. CASE /\ job' = [job EXCEPT ![r.group].status = "processing",
                                   ![r.group].attempts = @ + 1,
                                   ![r.group].due = TRUE]
             /\ Goto(c, "readRuns", r)
    <3> DEFINE n == [j EXCEPT !.status = "processing", !.attempts = @ + 1,
                              !.due = TRUE]
    <3>1. n \in Job
      <4>1. j.attempts + 1 \in Nat
        BY <2>1 DEF Job
      <4> QED  BY <2>1, <4>1 DEF Job, Statuses
    <3>2. job' = [job EXCEPT ![r.group] = n]
      BY <1>6, <2>1, <2>3 DEF Job
    <3> HIDE DEF n
    <3>3. /\ JobTypeOK' /\ job'[r.group] # None
          /\ \A g \in Groups : Exists(g) => job'[g] # None
      BY <1>6, <1>18, <2>1, <3>1, <3>2, JobWritten DEF LockJob
    <3>4. ComesTo(c, "readRuns", r) /\ CallFits("readRuns", r)
      BY <1>3, <2>1, <2>3 DEF ComesTo
    <3> QED  BY <3>3, <3>4, JobKept
  <2> QED  BY <1>18, <2>2, <2>3 DEF LockJob
<1> QED
  BY <1>8, <1>9, <1>10, <1>11, <1>12, <1>13, <1>14, <1>15, <1>16, <1>17, <1>18
     DEF JobStep, WorkStep

-----------------------------------------------------------------------------
(***************************************************************************)
(* Evaluations and saved strategies.                                       *)
(***************************************************************************)
\* What a summary is computed from is a part of the results.
LEMMA CountedTyped ==
  ASSUME EvalTypeOK, NEW o, NEW s
  PROVE  Counted(o, s) \in Counts
<1> DEFINE S == {j \in Within({o}) : result[j] # None /\ s \in {None, CodeOf[j]}}
<1>1. S \in SUBSET HistoryRows
  BY DEF Within
<1>2. \A i \in S : result[i] \in Evals
  BY DEF EvalTypeOK, Within
<1>3. Counted(o, s) = [i \in S |-> result[i]]
  BY DEF Counted
<1> HIDE DEF S
<1>4. [i \in S |-> result[i]] \in [S -> Evals]
  BY <1>2
<1> QED  BY <1>1, <1>3, <1>4 DEF Counts

\* The item that is saved next and the pairs it touches.
LEMMA ItemFound ==
  ASSUME NEW r \in EvalCall, r.items # {}, NEW e
  PROVE  /\ NextItem(r) \in r.items /\ NextItem(r) \in HistoryRows
         /\ After(r, NextItem(r), e) \in EvalCall
         /\ After(r, NextItem(r), e).touched # {}
         /\ After(r, NextItem(r), e).touched =
              r.touched \cup {<<OwnerOf[NextItem(r)], None>>,
                              <<OwnerOf[NextItem(r)], CodeOf[NextItem(r)]>>}
         /\ After(r, NextItem(r), e).saved = r.saved
<1> DEFINE i == NextItem(r)
<1>1. r.items \in SUBSET HistoryRows /\ HistoryRows \in SUBSET Nat
  BY EvaluationConstants DEF EvalCall
<1>2. \E k \in r.items : \A j \in r.items : k <= j
  <2>1. r.items \in SUBSET Nat
    BY <1>1
  <2> QED  BY <2>1, LeastExists
<1>3. i \in r.items /\ i \in HistoryRows
  BY <1>1, <1>2 DEF NextItem
<1> HIDE DEF i
<1>4. Touched(r, i, e) \in SUBSET (Owners \X Scopes)
  <2>1. OwnerOf[i] \in Owners /\ CodeOf[i] \in Scopes /\ None \in Scopes
    BY <1>3, EvaluationConstants DEF Scopes
  <2>2. r.touched \in SUBSET (Owners \X Scopes)
    BY DEF EvalCall
  <2> QED  BY <2>1, <2>2 DEF Touched
<1>5. After(r, i, e) \in EvalCall
  BY <1>1, <1>4 DEF After, EvalCall
<1>6. /\ After(r, i, e).touched = Touched(r, i, e)
      /\ After(r, i, e).saved = r.saved
  BY DEF After, EvalCall
<1> QED  BY <1>3, <1>5, <1>6 DEF Touched, i

\* The pair whose summary is written next.
LEMMA SummaryFound ==
  ASSUME NEW r \in EvalCall, r.touched # {}
  PROVE  /\ NextSummary(r) \in r.touched
         /\ NextSummary(r) = <<NextSummary(r)[1], NextSummary(r)[2]>>
         /\ NextSummary(r)[1] \in Owners /\ NextSummary(r)[2] \in Scopes
<1>1. r.touched \in SUBSET (Owners \X Scopes)
  BY DEF EvalCall
<1>2. \E t \in r.touched : t[2] # None => <<t[1], None>> \notin r.touched
  <2>1. PICK t \in r.touched : TRUE
    OBVIOUS
  <2>2. CASE <<t[1], None>> \in r.touched
    <3>1. <<t[1], None>>[2] = None
      OBVIOUS
    <3> QED  BY <2>2, <3>1
  <2> QED  BY <2>1, <2>2
<1>3. NextSummary(r) \in r.touched
  BY <1>2 DEF NextSummary
<1> QED  BY <1>1, <1>3

\* Runs, recomputations and their summaries.
LEMMA EvalTyped ==
  ASSUME CallTypes, EvalTypeOK, NEW c \in Clients,
         RunRequest(c) \/ RecomputeRequest(c) \/ EvalStep(c)
  PROVE  CallTypes' /\ EvalTypeOK'
<1> DEFINE r == req[c]
<1> USE DEF EvalLabels, BatchLabels, SummaryLabels
<1>1. pc[c] \in EvalLabels => EvalFits(pc[c], r) /\ r \in EvalCall
  BY FitsOf DEF EvalFits
<1>2. \A l \in EvalLabels \ {"evaluate", "writeRows"}, x \in EvalCall :
         /\ x.saved > 0 => x.touched # {}
         /\ l = "readRows" => x.saved > 0
         => CallFits(l, x)
  BY DEF CallFits, EvalFits
<1>3. pc[c] \in EvalLabels => (r.saved > 0 => r.touched # {})
  BY <1>1 DEF EvalFits
<1>4. CASE RunRequest(c) \/ RecomputeRequest(c)
  <2>1. PICK o \in {"run", "recompute"}, os \in SUBSET Owners, s \in Scopes,
             f \in BOOLEAN, l \in {"readBatch", "deleteResults"} :
           Arrive(c, l, EvalRequest(o, os, s, f))
    BY <1>4 DEF RunRequest, RecomputeRequest, Scopes
  <2>2. /\ EvalRequest(o, os, s, f) \in EvalCall
        /\ EvalRequest(o, os, s, f).saved = 0
    BY DEF EvalRequest, EvalCall
  <2>3. CallFits(l, EvalRequest(o, os, s, f))
    BY <1>2, <2>2
  <2> QED
    BY <1>4, <2>1, <2>3, GotoTyped
       DEF RunRequest, RecomputeRequest, evalVars, EvalTypeOK, ComesTo
<1>5. CASE DeleteResults(c)
  <2>1. r \in EvalCall
    BY <1>1, <1>5 DEF DeleteResults
  <2>2. CallFits("deleteSummaries", r) /\ ComesTo(c, "deleteSummaries", r)
    BY <1>2, <1>3, <1>5, <2>1 DEF DeleteResults, ComesTo
  <2>3. result' \in [HistoryRows -> Evals \cup {None}]
    BY <1>5 DEF DeleteResults, EvalTypeOK
  <2> QED  BY <1>5, <2>2, <2>3, GotoTyped DEF DeleteResults, EvalTypeOK
<1>6. CASE DeleteSummaries(c)
  <2>1. r \in EvalCall /\ r.owners \in SUBSET Owners
    BY <1>1, <1>6 DEF DeleteSummaries, EvalCall
  <2>2. CallFits("readBatch", r) /\ ComesTo(c, "readBatch", r)
    BY <1>2, <1>3, <1>6, <2>1 DEF DeleteSummaries, ComesTo
  <2>3. summary' \in [Owners -> [Scopes -> Counts \cup {None}]]
    BY <1>6, <2>1 DEF DeleteSummaries, EvalTypeOK
  <2>4. lagging' \subseteq Owners
    BY <1>6, <2>1 DEF DeleteSummaries, EvalTypeOK
  <2> QED  BY <1>6, <2>2, <2>3, <2>4, GotoTyped DEF DeleteSummaries, EvalTypeOK
<1>7. CASE ReadBatch(c)
  <2> DEFINE batch == FirstFew(Candidates(r), r)
             x == [r EXCEPT !.batch = batch]
  <2>1. r \in EvalCall /\ EvalTypeOK'
    BY <1>1, <1>7 DEF ReadBatch, evalVars, EvalTypeOK
  <2>2. CASE batch # {} /\ Goto(c, "evaluate", x)
    <3>1. batch \in SUBSET HistoryRows
      BY DEF FirstFew, Candidates, Within
    <3> HIDE DEF batch
    <3>2. x \in EvalCall /\ x.batch # {} /\ (x.saved > 0 => x.touched # {})
      BY <1>3, <1>7, <2>1, <2>2, <3>1 DEF EvalCall, ReadBatch
    <3> HIDE DEF x
    <3>3. CallFits("evaluate", x)
      BY <3>2 DEF CallFits, EvalFits
    <3> QED  BY <2>1, <2>2, <3>3, GotoTyped DEF ComesTo
  <2>3. CASE r.saved > 0 /\ Goto(c, "readRows", r)
    <3>1. CallFits("readRows", r)
      BY <1>2, <1>3, <1>7, <2>1, <2>3 DEF ReadBatch
    <3> QED  BY <2>1, <2>3, <3>1, GotoTyped DEF ComesTo
  <2>4. CASE Finish(c)
    BY <2>1, <2>4, FinishTyped, GotoTyped
  <2> QED  BY <1>7, <2>2, <2>3, <2>4 DEF ReadBatch
<1>8. CASE Evaluate(c)
  <2>1. /\ r \in EvalCall /\ r.batch # {} /\ r.batch \in SUBSET HistoryRows
        /\ r.saved > 0 => r.touched # {}
    BY <1>1, <1>3, <1>8 DEF Evaluate, EvalFits, EvalCall
  <2>2. PICK got \in SUBSET r.batch :
           Goto(c, "saveItems", [r EXCEPT !.items = got, !.batch = {},
                                          !.cursor = Highest(r.batch)])
    BY <1>8 DEF Evaluate
  <2> DEFINE x == [r EXCEPT !.items = got, !.batch = {},
                            !.cursor = Highest(r.batch)]
  <2>3. Highest(r.batch) \in Nat
    <3>1. r.batch \in SUBSET Nat /\ IsFiniteSet(r.batch)
      BY <2>1, EvaluationConstants, FS_Subset
    <3>2. \E i \in r.batch : \A j \in r.batch : j <= i
      BY <2>1, <3>1, GreatestExists
    <3>3. Highest(r.batch) \in r.batch
      BY <3>2 DEF Highest
    <3> QED  BY <3>1, <3>3
  <2>4. x \in EvalCall /\ (x.saved > 0 => x.touched # {})
    BY <2>1, <2>3 DEF EvalCall
  <2> HIDE DEF x
  <2>5. CallFits("saveItems", x)
    BY <1>2, <2>4
  <2>6. ComesTo(c, "saveItems", x)
    BY <2>2 DEF ComesTo, x
  <2> QED  BY <1>8, <2>5, <2>6, GotoTyped DEF Evaluate, evalVars, EvalTypeOK
<1>9. CASE SaveItem(c)
  <2> DEFINE i == NextItem(r)
  <2>1. r \in EvalCall /\ r.items # {}
    BY <1>1, <1>9 DEF SaveItem
  <2>2. PICK e \in Evals :
           /\ result' = [result EXCEPT ![i] = e]
           /\ Goto(c, "saveItems", [After(r, i, e) EXCEPT !.saved = @ + 1])
    BY <1>9 DEF SaveItem
  <2> DEFINE y == After(r, i, e)
             x == [y EXCEPT !.saved = @ + 1]
  <2>3. y \in EvalCall /\ y.touched # {} /\ i \in HistoryRows
    BY <2>1, ItemFound
  <2> HIDE DEF y
  <2>4. x \in EvalCall /\ x.touched # {}
    BY <2>3 DEF EvalCall
  <2>5. ComesTo(c, "saveItems", x)
    BY <2>2 DEF ComesTo, y
  <2> HIDE DEF x
  <2>6. CallFits("saveItems", x)
    BY <1>2, <2>4
  <2>7. result' \in [HistoryRows -> Evals \cup {None}]
    BY <2>2, <2>3 DEF EvalTypeOK
  <2> QED  BY <1>9, <2>5, <2>6, <2>7, GotoTyped DEF SaveItem, EvalTypeOK
<1>10. CASE SaveFails(c)
  <2>1. r \in EvalCall /\ r.items # {}
    BY <1>1, <1>10 DEF SaveFails
  <2>2. PICK e \in Evals : Throws(c, "saveItems", After(r, NextItem(r), e))
    BY <1>10 DEF SaveFails
  <2> DEFINE x == After(r, NextItem(r), e)
  <2>3. x \in EvalCall /\ x.touched # {}
    BY <2>1, ItemFound
  <2>4. ComesTo(c, "saveItems", x)
    BY <2>2 DEF ComesTo
  <2> HIDE DEF x
  <2>5. CallFits("saveItems", x)
    BY <1>2, <2>3
  <2> QED  BY <1>10, <2>4, <2>5, GotoTyped DEF SaveFails, evalVars, EvalTypeOK
<1>11. CASE Saved(c)
  <2>1. r \in EvalCall /\ EvalTypeOK' /\ (r.saved > 0 => r.touched # {})
    BY <1>1, <1>3, <1>11 DEF Saved, evalVars, EvalTypeOK
  <2>2. CASE Finish(c)
    BY <2>1, <2>2, FinishTyped, GotoTyped
  <2>3. ASSUME NEW l \in {"readBatch", "readRows"}, Goto(c, l, r),
               l = "readRows" => r.saved > 0
        PROVE  CallTypes'
    <3>1. CallFits(l, r)
      BY <1>2, <2>1, <2>3
    <3> QED  BY <2>3, <3>1, GotoTyped DEF ComesTo
  <2> QED  BY <1>11, <2>1, <2>2, <2>3 DEF Saved
<1>12. CASE ReadRows(c)
  <2> DEFINE t == NextSummary(r)
             x == [r EXCEPT !.rows = Counted(t[1], t[2])]
  <2>1. r \in EvalCall /\ r.saved > 0 /\ r.touched # {}
    BY <1>1, <1>3, <1>12 DEF ReadRows, EvalFits
  <2>2. Counted(t[1], t[2]) \in Counts
    BY CountedTyped
  <2>3. x \in EvalCall /\ x.saved > 0 /\ x.touched # {} /\ x.rows \in Counts
    BY <2>1, <2>2 DEF EvalCall
  <2>4. ComesTo(c, "writeRows", x)
    BY <1>12 DEF ReadRows, ComesTo
  <2> HIDE DEF x
  <2>5. CallFits("writeRows", x)
    BY <2>3 DEF CallFits, EvalFits
  <2> QED  BY <1>12, <2>4, <2>5, GotoTyped DEF ReadRows, evalVars, EvalTypeOK
<1>13. CASE WriteRows(c)
  <2> DEFINE t == NextSummary(r)
             left == [r EXCEPT !.touched = @ \ {t}, !.rows = None]
  <2>1. r \in EvalCall /\ r.saved > 0 /\ r.touched # {} /\ r.rows \in Counts
    BY <1>1, <1>3, <1>13 DEF WriteRows, EvalFits
  <2>2. t[1] \in Owners /\ t[2] \in Scopes
    BY <2>1, SummaryFound
  <2>3. left \in EvalCall /\ left.saved > 0
    BY <2>1 DEF EvalCall
  <2>4. /\ summary' = [summary EXCEPT ![t[1]][t[2]] = r.rows]
        /\ lagging' \in {lagging, lagging \cup {t[1]}} /\ result' = result
        /\ \/ Finish(c)
           \/ left.touched # {} /\ Goto(c, "readRows", left)
    BY <1>13 DEF WriteRows
  <2> HIDE DEF t, left
  <2>5. EvalTypeOK'
    BY <2>1, <2>2, <2>4 DEF EvalTypeOK
  <2>6. CASE Finish(c)
    BY <2>5, <2>6, FinishTyped, GotoTyped
  <2>7. CASE left.touched # {} /\ Goto(c, "readRows", left)
    <3>1. CallFits("readRows", left)
      BY <1>2, <2>3, <2>7
    <3> QED  BY <2>5, <2>7, <3>1, GotoTyped DEF ComesTo
  <2> QED  BY <2>4, <2>6, <2>7
<1> QED
  BY <1>4, <1>5, <1>6, <1>7, <1>8, <1>9, <1>10, <1>11, <1>12, <1>13 DEF EvalStep

\* Normalised parameters are parameters.
LEMMA NormalTyped ==
  ASSUME NEW t \in Templates, NEW p \in Params
  PROVE  Normal(t, p) \in Params
<1>1. CASE t = Dsl
  BY <1>1 DEF Normal
<1>2. CASE t # Dsl
  <2>1. \A n \in Nat : Whole(n) \in Nat
    BY DEF Whole
  <2>2. \A f \in FieldsOf[t] : NumberOf(p, f) \in Nat
    BY <1>2, StrategyConstants DEF NumberOf, Params
  <2> QED  BY <1>2, <2>1, <2>2 DEF Normal, Params
<1> QED  BY <1>1, <1>2

\* What an update does not name is taken from the row, and fits.
LEMMA DraftTyped ==
  ASSUME NEW e \in Edit, NEW row \in Strategy
  PROVE  /\ Merged(e, row).template \in Templates
         /\ Merged(e, row).params \in Params
         /\ Draft(e, row) \in Strategy
<1> DEFINE m == Merged(e, row)
<1>1. m \in Strategy
  BY DEF Merged, Edit, Strategy
<1>2. Normal(m.template, m.params) \in Params
  BY <1>1, NormalTyped DEF Strategy
<1> HIDE DEF m
<1>3. [m EXCEPT !.params = Normal(m.template, m.params)] \in Strategy
  BY <1>1, <1>2 DEF Strategy
<1> QED  BY <1>1, <1>3 DEF m, Draft, Strategy

\* The rows of the model are strategies.
LEMMA RowsTyped == Rows \subseteq Strategy
<1> SUFFICES ASSUME NEW n \in Names, NEW t \in Templates, NEW p \in Given
             PROVE  RowOf(n, t, p) \in Strategy
  BY DEF Rows, RowsOf
<1>1. Normal(t, p) \in Params
  BY NormalTyped, StrategyConstants
<1> QED  BY <1>1 DEF RowOf, Strategy

\* What requests name is an edit.
LEMMA EditsTyped == Edits \subseteq Edit /\ NoEdit \in Edit
<1> DEFINE Rename(n) == [NoEdit EXCEPT !.name = n]
           Describe(d) == [NoEdit EXCEPT !.description = d]
           Retarget(t) == [NoEdit EXCEPT !.template = t]
           Adjust(p) == [NoEdit EXCEPT !.params = p]
<1>1. NoEdit \in Edit
  BY DEF NoEdit, Edit
<1>2. \A n \in Names : Rename(n) \in Edit
  BY DEF NoEdit, Edit
<1>3. \A d \in Texts \cup {Blank} : Describe(d) \in Edit
  BY DEF NoEdit, Edit
<1>4. \A t \in Templates : Retarget(t) \in Edit
  BY DEF NoEdit, Edit
<1>5. \A p \in Given : Adjust(p) \in Edit
  BY StrategyConstants DEF NoEdit, Edit
<1>6. \A t \in Templates : Conversions(t) \subseteq Edit
  <2>1. \A t \in Templates, p \in Given :
           [NoEdit EXCEPT !.template = t, !.params = p] \in Edit
    BY StrategyConstants DEF NoEdit, Edit
  <2> QED  BY <2>1 DEF Conversions
<1>7. \A e \in Edits : \/ \E n \in Names : e = Rename(n)
                       \/ \E d \in Texts \cup {Blank} : e = Describe(d)
                       \/ \E t \in Templates : e = Retarget(t)
                       \/ \E p \in Given : e = Adjust(p)
                       \/ \E t \in Templates : e \in Conversions(t)
  BY DEF Edits
<1> HIDE DEF Rename, Describe, Retarget, Adjust
<1> QED  BY <1>1, <1>2, <1>3, <1>4, <1>5, <1>6, <1>7

\* A row that a new strategy is made of names everything.
LEMMA RowIsEdit ==
  ASSUME NEW s \in Strategy
  PROVE  s \in Edit
  BY DEF Edit, Strategy

\* Saved strategies.
LEMMA StrategyTyped ==
  ASSUME CallTypes, StrategyTypeOK, NEW c \in Clients,
         NewStrategy(c) \/ EditStrategy(c) \/ RemoveStrategy(c) \/ StrategyStep(c)
  PROVE  CallTypes' /\ StrategyTypeOK'
<1> DEFINE r == req[c]
<1> USE DEF StrategyLabels
<1>1. pc[c] \in StrategyLabels =>
         /\ StrategyFits(pc[c], r) /\ r \in StrategyCall
         /\ r.slot \in Slots /\ r.edit \in Edit
  BY FitsOf DEF StrategyFits, StrategyCall
<1>2. \A l \in {"require", "delete"}, x \in StrategyCall : CallFits(l, x)
  BY DEF CallFits, StrategyFits
<1>3. \A l \in {"insert", "update"}, x \in StrategyCall :
         x.row \in Strategy => CallFits(l, x)
  BY DEF CallFits, StrategyFits
<1>4. CASE NewStrategy(c)
  <2>1. PICK i \in Slots, s \in Strategy :
           Arrive(c, "insert", [op |-> "newStrategy", slot |-> i,
                                edit |-> s, row |-> s])
    BY <1>4, RowsTyped DEF NewStrategy
  <2> DEFINE x == [op |-> "newStrategy", slot |-> i, edit |-> s, row |-> s]
  <2>2. x \in StrategyCall /\ x.row \in Strategy
    BY RowIsEdit DEF StrategyCall
  <2>3. CallFits("insert", x) /\ ComesTo(c, "insert", x)
    BY <1>3, <2>1, <2>2 DEF ComesTo
  <2> QED
    BY <1>4, <2>3, GotoTyped DEF NewStrategy, strategyVars, StrategyTypeOK
<1>5. CASE EditStrategy(c) \/ RemoveStrategy(c)
  <2>1. PICK o \in {"edit", "remove"}, i \in Slots, e \in Edit :
           Arrive(c, "require", [op |-> o, slot |-> i, edit |-> e, row |-> None])
    <3>1. CASE EditStrategy(c)
      BY <3>1, EditsTyped DEF EditStrategy
    <3>2. CASE RemoveStrategy(c)
      BY <3>2, EditsTyped DEF RemoveStrategy
    <3> QED  BY <1>5, <3>1, <3>2
  <2> DEFINE x == [op |-> o, slot |-> i, edit |-> e, row |-> None]
  <2>2. x \in StrategyCall
    BY DEF StrategyCall
  <2>3. CallFits("require", x) /\ ComesTo(c, "require", x)
    BY <1>2, <2>1, <2>2 DEF ComesTo
  <2> QED
    BY <1>5, <2>3, GotoTyped
       DEF EditStrategy, RemoveStrategy, strategyVars, StrategyTypeOK
<1>6. CASE InsertStrategy(c)
  <2>1. /\ r.row \in Strategy /\ r.slot \in Slots /\ Finish(c)
        /\ overwrote' = overwrote
        /\ strategy' \in {strategy, [strategy EXCEPT ![r.slot] = r.row]}
    BY <1>1, <1>6 DEF InsertStrategy, StrategyFits
  <2>2. StrategyTypeOK'
    BY <2>1 DEF StrategyTypeOK
  <2> QED  BY <2>1, <2>2, FinishTyped, GotoTyped
<1>7. CASE RequireStrategy(c)
  <2> DEFINE row == strategy[r.slot]
             x == [r EXCEPT !.row = Draft(r.edit, row)]
  <2>1. /\ r \in StrategyCall /\ r.slot \in Slots /\ r.edit \in Edit
        /\ StrategyTypeOK'
    BY <1>1, <1>7 DEF RequireStrategy, StrategyTypeOK
  <2>2. CASE Finish(c)
    BY <2>1, <2>2, FinishTyped, GotoTyped
  <2>3. CASE Goto(c, "delete", r)
    BY <1>2, <2>1, <2>3, GotoTyped DEF ComesTo
  <2>4. CASE row # None /\ Goto(c, "update", x)
    <3>1. Draft(r.edit, row) \in Strategy
      BY <2>1, <2>4, DraftTyped DEF StrategyTypeOK
    <3>2. x \in StrategyCall /\ x.row \in Strategy
      BY <2>1, <3>1 DEF StrategyCall
    <3> HIDE DEF x
    <3> QED  BY <1>3, <2>1, <2>4, <3>2, GotoTyped DEF ComesTo
  <2> QED  BY <1>7, <2>2, <2>3, <2>4 DEF RequireStrategy
<1>8. CASE UpdateStrategy(c) \/ DeleteStrategy(c)
  <2>1. r.slot \in Slots /\ Finish(c) /\ (pc[c] = "update" => r.row \in Strategy)
    BY <1>1, <1>8 DEF UpdateStrategy, DeleteStrategy, StrategyFits
  <2>2. StrategyTypeOK'
    BY <1>8, <2>1
       DEF UpdateStrategy, DeleteStrategy, strategyVars, StrategyTypeOK
  <2> QED  BY <2>1, <2>2, FinishTyped, GotoTyped
<1> QED  BY <1>4, <1>5, <1>6, <1>7, <1>8 DEF StrategyStep

-----------------------------------------------------------------------------
(***************************************************************************)
(* The pages together, exceptions and processes that die.                  *)
(***************************************************************************)
\* Request c moves within the labels L of a page.
MovesIn(c, L) ==
    /\ pc[c] \in L \cup {"idle"} /\ pc'[c] \in L \cup {"idle"}
    /\ \A d \in Clients \ {c} : pc'[d] = pc[d] /\ req'[d] = req[d]

ReplayAction(c) ==
    \/ ReplayRequest(c) \/ ShowRequest(c)
    \/ ReplayStep(c) \/ RefineStep(c) \/ StoreUnanswered(c)
JobAction(c) ==
    \/ StrategyRequest(c) \/ ShowJobRequest(c) \/ WriteBackRequest(c)
    \/ JobStep(c) \/ WorkStep(c)
EvalAction(c) == RunRequest(c) \/ RecomputeRequest(c) \/ EvalStep(c)
StrategyAction(c) ==
    NewStrategy(c) \/ EditStrategy(c) \/ RemoveStrategy(c) \/ StrategyStep(c)

\* A handler of a page stays on it.
LEMMA ReplayMoves ==
  ASSUME CallTypes, NEW c \in Clients, ReplayAction(c)
  PROVE  MovesIn(c, ReplayLabels)
<1>1. pc \in [Clients -> Labels] /\ req \in [Clients -> Requests \cup {None}]
  BY DEF CallTypes
<1>2. pc[c] \in ReplayLabels => req[c].then \in {"showReplay", "return"}
  BY FitsOf DEF ReplayFits, ReplayCall
<1> USE DEF ReplayLabels, HoldLabels, ReadingLabels, MovesIn, Goto, Arrive,
            Throws, Finish, Leaves
<1>3. CASE ReplayRequest(c) \/ ShowRequest(c)
  BY <1>1, <1>3 DEF ReplayRequest, ShowRequest
<1>4. CASE ReplayStep(c)
  BY <1>1, <1>2, <1>4
     DEF ReplayStep, FindGroup, RunFast, InsertGroup, ShowReplay, ReadSummary,
         Interpret, WriteSummary
<1>5. CASE RefineStep(c) \/ StoreUnanswered(c)
  BY <1>1, <1>5
     DEF RefineStep, PickGroup, LockGroup, LoadGroup, RunRefine, StoreRefined,
         FailGroup, StoreUnanswered
<1> QED  BY <1>3, <1>4, <1>5 DEF ReplayAction

\* ... one of the jobs' page, too,
LEMMA JobMoves ==
  ASSUME CallTypes, NEW c \in Clients, JobAction(c)
  PROVE  MovesIn(c, JobLabels)
<1>1. pc \in [Clients -> Labels] /\ req \in [Clients -> Requests \cup {None}]
  BY DEF CallTypes
<1> USE DEF JobLabels, WorkLabels, NewJobLabels, MovesIn, Goto, Arrive, Finish
<1>2. CASE StrategyRequest(c) \/ ShowJobRequest(c) \/ WriteBackRequest(c)
  BY <1>1, <1>2 DEF StrategyRequest, ShowJobRequest, WriteBackRequest
<1>3. CASE JobStep(c)
  BY <1>1, <1>3
     DEF JobStep, RunStrategies, CreateJob, ShowJob, ReadRuns, Ask, WriteRuns,
         MarkDone, ReadGroup, WriteBack
<1>4. CASE WorkStep(c)
  BY <1>1, <1>4 DEF WorkStep, PickJob, LockJob, PutOff
<1> QED  BY <1>2, <1>3, <1>4 DEF JobAction

\* ... of the evaluations',
LEMMA EvalMoves ==
  ASSUME CallTypes, NEW c \in Clients, EvalAction(c)
  PROVE  MovesIn(c, EvalLabels)
<1>1. pc \in [Clients -> Labels] /\ req \in [Clients -> Requests \cup {None}]
  BY DEF CallTypes
<1> USE DEF EvalLabels, BatchLabels, SummaryLabels, MovesIn, Goto, Arrive,
            Throws, Finish
<1>2. CASE RunRequest(c) \/ RecomputeRequest(c)
  BY <1>1, <1>2 DEF RunRequest, RecomputeRequest
<1>3. CASE EvalStep(c)
  BY <1>1, <1>3
     DEF EvalStep, DeleteResults, DeleteSummaries, ReadBatch, Evaluate,
         SaveItem, SaveFails, Saved, ReadRows, WriteRows
<1> QED  BY <1>2, <1>3 DEF EvalAction

\* ... and of the strategies'.
LEMMA StrategyMoves ==
  ASSUME CallTypes, NEW c \in Clients, StrategyAction(c)
  PROVE  MovesIn(c, StrategyLabels)
<1>1. pc \in [Clients -> Labels] /\ req \in [Clients -> Requests \cup {None}]
  BY DEF CallTypes
<1> USE DEF StrategyLabels, MovesIn, Goto, Arrive, Finish
<1>2. CASE NewStrategy(c) \/ EditStrategy(c) \/ RemoveStrategy(c)
  BY <1>1, <1>2 DEF NewStrategy, EditStrategy, RemoveStrategy
<1>3. CASE StrategyStep(c)
  BY <1>1, <1>3
     DEF StrategyStep, InsertStrategy, RequireStrategy, UpdateStrategy,
         DeleteStrategy
<1> QED  BY <1>2, <1>3 DEF StrategyAction

\* No label belongs to two pages.
LEMMA PagesApart ==
  /\ ReplayLabels \cap (JobLabels \cup EvalLabels \cup StrategyLabels) = {}
  /\ JobLabels \cap (EvalLabels \cup StrategyLabels) = {}
  /\ EvalLabels \cap StrategyLabels = {}
  /\ "idle" \notin ReplayLabels \cup JobLabels \cup EvalLabels
                   \cup StrategyLabels
  BY DEF ReplayLabels, HoldLabels, ReadingLabels, JobLabels, WorkLabels,
         NewJobLabels, EvalLabels, BatchLabels, SummaryLabels, StrategyLabels

\* The handler of an exception: the catch blocks of the two workers, and the
\* page of a replay that is shown without its interpretation.
LEMMA HandlerOf ==
  ASSUME CallTypes, NEW c \in Clients, Handler(c) # "return"
  PROVE  \/ pc[c] \in {"runRefine", "storeRefined"} /\ Handler(c) = "failGroup"
         \/ pc[c] \in ReadingLabels /\ Handler(c) = "showReplay"
         \/ c \in Workers /\ pc[c] \in WorkLabels /\ Handler(c) = "putOff"
<1>1. pc[c] \in ReadingLabels => req[c].then \in {"showReplay", "return"}
  BY FitsOf DEF ReplayLabels, ReplayFits, ReplayCall
<1>2. CASE page = "replays"
  BY <1>1, <1>2 DEF Handler, HandlerOfReplay, ReadingLabels
<1>3. CASE page # "replays"
  BY <1>3 DEF Handler, HandlerOfJob, WorkLabels
<1> QED  BY <1>2, <1>3

\* A step of another page leaves the rows of replays where they are.
LEMMA ReplaysApart ==
  ASSUME ReplayTypes, NEW c \in Clients, NEW L,
         MovesIn(c, L), L \cap ReplayLabels = {}, UNCHANGED replayVars
  PROVE  ReplayTypes'
<1>1. pc'[c] \notin StoredLabels
  BY PagesApart DEF MovesIn, StoredLabels
<1>2. GroupsThere'
  BY <1>1 DEF ReplayTypes, GroupsThere, MovesIn, replayVars, Born
<1>3. ReplayTypeOK' /\ IsFiniteSet(Stored)'
  BY DEF ReplayTypes, ReplayTypeOK, replayVars, Stored, Born
<1> QED  BY <1>2, <1>3 DEF ReplayTypes

\* ... and those of jobs.
LEMMA JobsApart ==
  ASSUME JobTypes, NEW c \in Clients, NEW L,
         MovesIn(c, L), L \cap JobLabels = {}, UNCHANGED jobVars
  PROVE  JobTypes'
<1>1. pc'[c] \notin JobLabels
  BY PagesApart DEF MovesIn
<1>2. JobsThere'
  BY <1>1 DEF JobTypes, JobsThere, MovesIn, jobVars, Exists
<1> QED  BY <1>2 DEF JobTypes, JobTypeOK, jobVars

\* The retry time of a job comes.
LEMMA DueTyped ==
  ASSUME CallTypes, JobTypes, NEW g \in Groups, ComesDue(g)
  PROVE  CallTypes' /\ JobTypes'
<1>1. CallTypes'
  BY DEF CallTypes, ComesDue, apiVars
<1>2. job[g] \in Job /\ job' = [job EXCEPT ![g] = [job[g] EXCEPT !.due = TRUE]]
  BY DEF ComesDue, JobTypes, JobTypeOK, Exists
<1>3. [job[g] EXCEPT !.due = TRUE] \in Job
  BY <1>2 DEF Job
<1>4. JobTypeOK' /\ \A h \in Groups : Exists(h) => job'[h] # None
  BY <1>2, <1>3, JobWritten DEF ComesDue, JobTypes, JobTypeOK
<1>5. JobsThere'
  <2> SUFFICES ASSUME NEW d \in Clients, pc[d] \in JobLabels \ NewJobLabels
               PROVE  job'[req[d].group] # None
    BY DEF JobsThere, Exists, ComesDue, apiVars
  <2>1. req[d].group \in Groups
    BY FitsOf DEF JobFits
  <2> QED  BY <1>4, <2>1 DEF JobTypes, JobsThere
<1> QED  BY <1>1, <1>4, <1>5 DEF JobTypes

\* The history of what requests left undone.
LEMMA LeaveTyped ==
  ASSUME TypeInv, NEW C \in SUBSET Clients, Leave(C)
  PROVE  forsaken' \subseteq Hashes /\ adrift' \subseteq Groups
         /\ lagging' \subseteq Owners
<1>1. \A w \in Clients : pc[w] \in HoldLabels => req[w].hash \in Hashes
  BY FitsOf DEF TypeInv, ReplayLabels, ReplayFits, ReplayCall
<1>2. \A w \in Clients :
         pc[w] \in WorkLabels \cup {"putOff"} => req[w].group \in Groups
  BY FitsOf DEF TypeInv, JobLabels, WorkLabels, NewJobLabels, JobFits
<1>3. \A c \in Clients : Unsummarised(c) \in SUBSET Owners
  <2> SUFFICES ASSUME NEW c \in Clients PROVE Unsummarised(c) \in SUBSET Owners
    OBVIOUS
  <2>1. pc[c] \in EvalLabels => req[c] \in EvalCall
    BY FitsOf DEF TypeInv, EvalFits
  <2>2. CASE pc[c] = "deleteSummaries"
    BY <2>1, <2>2 DEF Unsummarised, EvalLabels, EvalCall
  <2>3. CASE pc[c] \in BatchLabels \cup SummaryLabels
    <3>1. req[c].touched \in SUBSET (Owners \X Scopes)
      BY <2>1, <2>3 DEF EvalLabels, EvalCall
    <3>2. \A t \in req[c].touched : t[1] \in Owners
      BY <3>1
    <3>3. Unsummarised(c) = {t[1] : t \in req[c].touched}
      BY <2>3 DEF Unsummarised, BatchLabels, SummaryLabels
    <3> QED  BY <3>2, <3>3
  <2>4. CASE pc[c] \notin {"deleteSummaries"} \cup BatchLabels \cup SummaryLabels
    BY <2>4 DEF Unsummarised, BatchLabels, SummaryLabels
  <2> QED  BY <2>2, <2>3, <2>4
<1>4. forsaken' \subseteq Hashes
  BY <1>1 DEF Leave, Forsake, HoldLabels, TypeInv, ReplayTypes, ReplayTypeOK
<1>5. adrift' \subseteq Groups
  BY <1>2 DEF Leave, GoAdrift, WorkLabels, TypeInv, JobTypes, JobTypeOK
<1>6. lagging' \subseteq Owners
  BY <1>3 DEF Leave, LagBehind, TypeInv, EvalTypeOK
<1> QED  BY <1>4, <1>5, <1>6

\* An exception, in its handler or at the end of its request.
LEMMA FailsTyped ==
  ASSUME TypeInv, NEW c \in Clients, Fails(c)
  PROVE  TypeInv'
<1> DEFINE l == Handler(c)
<1>1. CallTypes /\ UNCHANGED <<replay, outrun, job, surpassed, result, summary>>
      /\ UNCHANGED <<strategy, overwrote>>
  BY DEF TypeInv, Fails, strategyVars
<1>2. forsaken' \subseteq Hashes /\ adrift' \subseteq Groups
      /\ lagging' \subseteq Owners
  BY LeaveTyped DEF Fails, TypeInv, ReplayTypes, ReplayTypeOK, JobTypes,
                    JobTypeOK, EvalTypeOK
<1>3. ReplayTypeOK' /\ JobTypeOK' /\ EvalTypeOK' /\ StrategyTypeOK'
      /\ IsFiniteSet(Stored)'
  BY <1>1, <1>2
     DEF TypeInv, ReplayTypes, ReplayTypeOK, JobTypes, JobTypeOK, EvalTypeOK,
         StrategyTypeOK, Stored, Born
<1>4. \E m, x : /\ ComesTo(c, m, x) /\ CallFits(m, x)
                /\ m \in StoredLabels => Born(x.hash)
                /\ m \in JobLabels \ NewJobLabels => Exists(x.group)
  <2>1. CASE l = "return"
    <3>1. CallFails(c)
      BY <2>1 DEF Fails
    <3> QED
      BY <3>1, FinishTyped, PagesApart DEF StoredLabels
  <2>2. CASE l # "return"
    <3> DEFINE r == req[c]
    <3>1. Throws(c, l, r)
      BY <2>2 DEF Fails
    <3>2. CASE l \in {"failGroup", "showReplay"} /\ pc[c] \in StoredLabels
      <4>1. r \in ReplayCall /\ Born(r.hash)
        BY <1>1, <3>2, FitsOf
           DEF StoredLabels, ReplayFits, TypeInv, ReplayTypes, GroupsThere
      <4>2. l \in ReplayLabels /\ CallFits(l, r)
        BY <3>2, <4>1
           DEF CallFits, ReplayFits, ReplayLabels, HoldLabels, ReadingLabels
      <4> QED  BY <3>1, <4>1, <4>2, PagesApart DEF ComesTo
    <3>3. CASE l = "putOff" /\ pc[c] \in WorkLabels
      <4>1. r \in JobCall /\ r.group \in Groups /\ Exists(r.group)
        BY <1>1, <3>3, FitsOf
           DEF JobFits, TypeInv, JobTypes, JobsThere, JobLabels, NewJobLabels,
               WorkLabels
      <4>2. l \in JobLabels /\ CallFits(l, r)
        BY <3>3, <4>1 DEF CallFits, JobFits, JobLabels
      <4> QED  BY <3>1, <4>1, <4>2, PagesApart DEF ComesTo, StoredLabels
    <3> QED
      BY <1>1, <2>2, <3>2, <3>3, HandlerOf
         DEF StoredLabels, ReplayLabels, HoldLabels, ReadingLabels
  <2> QED  BY <2>1, <2>2
<1>5. CallTypes' /\ GroupsThere' /\ JobsThere'
  <2>1. PICK m, x : /\ ComesTo(c, m, x) /\ CallFits(m, x)
                    /\ m \in StoredLabels => Born(x.hash)
                    /\ m \in JobLabels \ NewJobLabels => Exists(x.group)
    BY <1>4
  <2>2. CallTypes'
    BY <1>1, <2>1, GotoTyped
  <2>3. /\ pc'[c] = m /\ req'[c] = x
        /\ \A d \in Clients \ {c} : pc'[d] = pc[d] /\ req'[d] = req[d]
    BY <1>1, <2>1, ComesThere
  <2>4. \A h : Born(h) => replay'[h] # None
    BY <1>1 DEF Born
  <2>5. \A g : Exists(g) => job'[g] # None
    BY <1>1 DEF Exists
  <2>6. \A d \in Clients : pc'[d] \in StoredLabels => replay'[req'[d].hash] # None
    BY <2>1, <2>3, <2>4 DEF TypeInv, ReplayTypes, GroupsThere
  <2>7. \A d \in Clients : pc'[d] \in JobLabels \ NewJobLabels
                           => job'[req'[d].group] # None
    BY <2>1, <2>3, <2>5 DEF TypeInv, JobTypes, JobsThere
  <2> QED  BY <2>2, <2>6, <2>7 DEF GroupsThere, Born, JobsThere, Exists
<1> QED  BY <1>3, <1>5 DEF TypeInv, ReplayTypes, JobTypes

\* A process that dies.
LEMMA DiesTyped ==
  ASSUME TypeInv, Dies
  PROVE  TypeInv'
<1>1. PICK C \in SUBSET Clients : Lose(C) /\ Leave(C)
  <2>1. Visitors \in SUBSET Clients /\ \A w \in Workers : {w} \in SUBSET Clients
    BY ApiConstants DEF Visitors
  <2> QED  BY <2>1 DEF Dies
<1>2. UNCHANGED <<replay, outrun, job, surpassed, result, summary>>
      /\ UNCHANGED <<strategy, overwrote>>
  BY DEF Dies, strategyVars
<1>3. CallTypes'
  BY <1>1, LoseTyped DEF TypeInv
<1>4. ReplayTypeOK' /\ JobTypeOK' /\ EvalTypeOK' /\ StrategyTypeOK'
      /\ IsFiniteSet(Stored)'
  BY <1>1, <1>2, LeaveTyped
     DEF TypeInv, ReplayTypes, ReplayTypeOK, JobTypes, JobTypeOK, EvalTypeOK,
         StrategyTypeOK, Stored, Born
<1>5. \A d \in Clients : pc'[d] = "idle" \/ (pc'[d] = pc[d] /\ req'[d] = req[d])
  BY <1>1 DEF Lose
<1>6. GroupsThere'
  BY <1>2, <1>5, PagesApart DEF TypeInv, ReplayTypes, GroupsThere, Born, StoredLabels
<1>7. JobsThere'
  BY <1>2, <1>5, PagesApart DEF TypeInv, JobTypes, JobsThere, Exists
<1> QED  BY <1>3, <1>4, <1>6, <1>7 DEF TypeInv, ReplayTypes, JobTypes

\* A step is one of a page, an exception or a process that dies.
LEMMA StepsOf ==
  ASSUME Next
  PROVE  \/ \E c \in Clients : /\ ReplayAction(c)
                               /\ UNCHANGED <<jobVars, evalVars, strategyVars>>
         \/ \E c \in Clients : /\ JobAction(c)
                               /\ UNCHANGED <<replayVars, evalVars, strategyVars>>
         \/ \E g \in Groups : /\ ComesDue(g)
                              /\ UNCHANGED <<replayVars, evalVars, strategyVars>>
         \/ \E c \in Clients : /\ EvalAction(c)
                               /\ UNCHANGED <<replayVars, jobVars, strategyVars>>
         \/ \E c \in Clients : /\ StrategyAction(c)
                               /\ UNCHANGED <<replayVars, jobVars, evalVars>>
         \/ \E c \in Clients : Fails(c)
         \/ Dies
<1>1. CASE ReplayPage
  BY <1>1 DEF ReplayPage, ReplayAction
<1>2. CASE JobPage
  <2>1. CASE \E g \in Groups : ComesDue(g)
    BY <1>2, <2>1 DEF JobPage
  <2>2. CASE \E c \in Clients : JobAction(c)
    BY <1>2, <2>2 DEF JobPage
  <2> QED  BY <1>2, <2>1, <2>2 DEF JobPage, JobAction
<1>3. CASE EvaluationPage
  BY <1>3 DEF EvaluationPage, EvalAction
<1>4. CASE StrategyPage
  BY <1>4 DEF StrategyPage, StrategyAction
<1> QED  BY <1>1, <1>2, <1>3, <1>4 DEF Next

\* Every step keeps the types.
LEMMA NextTyped ==
  ASSUME TypeInv, [Next]_vars
  PROVE  TypeInv'
<1> USE DEF TypeInv
<1>1. ASSUME NEW c \in Clients, ReplayAction(c),
             UNCHANGED <<jobVars, evalVars, strategyVars>>
      PROVE  TypeInv'
  <2>1. CallTypes' /\ ReplayTypes'
    BY <1>1, ReplayTyped, RefineTyped DEF ReplayAction
  <2>2. JobTypes'
    BY <1>1, ReplayMoves, PagesApart, JobsApart
  <2> QED
    BY <1>1, <2>1, <2>2 DEF evalVars, strategyVars, EvalTypeOK, StrategyTypeOK
<1>2. ASSUME NEW c \in Clients, JobAction(c),
             UNCHANGED <<replayVars, evalVars, strategyVars>>
      PROVE  TypeInv'
  <2>1. CallTypes' /\ JobTypes'
    BY <1>2, JobTyped DEF JobAction
  <2>2. ReplayTypes'
    BY <1>2, JobMoves, PagesApart, ReplaysApart
  <2> QED
    BY <1>2, <2>1, <2>2 DEF evalVars, strategyVars, EvalTypeOK, StrategyTypeOK
<1>3. ASSUME NEW g \in Groups, ComesDue(g),
             UNCHANGED <<replayVars, evalVars, strategyVars>>
      PROVE  TypeInv'
  <2>1. CallTypes' /\ JobTypes'
    BY <1>3, DueTyped
  <2>2. ReplayTypes'
    BY <1>3 DEF ReplayTypes, ReplayTypeOK, GroupsThere, Stored, Born, ComesDue,
                apiVars, replayVars
  <2> QED
    BY <1>3, <2>1, <2>2 DEF evalVars, strategyVars, EvalTypeOK, StrategyTypeOK
<1>4. ASSUME NEW c \in Clients, EvalAction(c),
             UNCHANGED <<replayVars, jobVars, strategyVars>>
      PROVE  TypeInv'
  <2>1. CallTypes' /\ EvalTypeOK'
    BY <1>4, EvalTyped DEF EvalAction
  <2>2. ReplayTypes' /\ JobTypes'
    BY <1>4, EvalMoves, PagesApart, ReplaysApart, JobsApart
  <2> QED  BY <1>4, <2>1, <2>2 DEF strategyVars, StrategyTypeOK
<1>5. ASSUME NEW c \in Clients, StrategyAction(c),
             UNCHANGED <<replayVars, jobVars, evalVars>>
      PROVE  TypeInv'
  <2>1. CallTypes' /\ StrategyTypeOK'
    BY <1>5, StrategyTyped DEF StrategyAction
  <2>2. ReplayTypes' /\ JobTypes'
    BY <1>5, StrategyMoves, PagesApart, ReplaysApart, JobsApart
  <2> QED  BY <1>5, <2>1, <2>2 DEF evalVars, EvalTypeOK
<1>6. CASE UNCHANGED vars
  BY <1>6
     DEF vars, apiVars, replayVars, jobVars, evalVars, strategyVars, CallTypes,
         ReplayTypes, ReplayTypeOK, GroupsThere, Stored, Born, JobTypes,
         JobTypeOK, JobsThere, Exists, EvalTypeOK, StrategyTypeOK
<1> QED
  BY <1>1, <1>2, <1>3, <1>4, <1>5, <1>6, FailsTyped, DiesTyped, StepsOf

\* They hold at the start.
LEMMA InitTyped ==
  ASSUME Init
  PROVE  TypeInv
<1>1. CallTypes
  <2>1. "idle" \in Labels /\ CallFits("idle", None)
    BY DEF Labels, CallFits
  <2> QED  BY <2>1, ApiConstants DEF Init, ApiInit, CallTypes
<1>2. ReplayTypes
  <2>1. Stored = {}
    BY DEF Init, ReplayInit, Stored, Born
  <2>2. ReplayTypeOK
    BY DEF Init, ReplayInit, ReplayTypeOK
  <2> QED
    BY <2>1, <2>2, FS_EmptySet, PagesApart
       DEF ReplayTypes, GroupsThere, Init, ApiInit, StoredLabels
<1>3. JobTypes
  BY PagesApart DEF JobTypes, JobTypeOK, JobsThere, Init, ApiInit, JobInit
<1>4. EvalTypeOK /\ StrategyTypeOK
  BY RowsTyped DEF Init, EvalInit, StrategyInit, EvalTypeOK, StrategyTypeOK
<1> QED  BY <1>1, <1>2, <1>3, <1>4 DEF TypeInv

\* ... and so always.
LEMMA AlwaysTyped == Spec => []TypeInv
  BY InitTyped, NextTyped, PTL DEF Spec

\* The tables and the requests in progress have their types: what each handler
\* reads after an await from its local variables, from the request hash to the
\* rows of a summary, has been filled in by then.
THEOREM TypeCorrect == Spec => []TypeOK
<1>1. TypeInv => TypeOK
  <2> SUFFICES ASSUME TypeInv PROVE TypeOK
    OBVIOUS
  <2>1. \A c \in Clients : /\ pc[c] = "idle" <=> req[c] = None
                           /\ req[c] \in Requests \cup {None}
    BY FitsTyped DEF TypeInv, CallTypes
  <2> QED  BY <2>1 DEF TypeInv, CallTypes, ReplayTypes, JobTypes, TypeOK
<1> QED  BY <1>1, AlwaysTyped, PTL

=============================================================================
