------------------------- MODULE BacktestSafetyProofs --------------------------
(***************************************************************************)
(* Theorems about Backtests, for any number of users and workers, any      *)
(* number of groups, analyses and strategies, and any bounds: what is      *)
(* shown of a replay is of one version, a group and a job have one worker  *)
(* at them and keep what they were given, every summary tells what the     *)
(* results say or somebody still owes it, and an update of a strategy      *)
(* changes what it names.                                                  *)
(***************************************************************************)
EXTENDS BacktestsProofs

-----------------------------------------------------------------------------
(***************************************************************************)
(* Replays.                                                                *)
(***************************************************************************)
AskLabels == {"interpret", "writeSummary"}

\* A group is locked by a loop of a worker, by one at a time, and is in phase
\* refine until that loop has stored a version or marked the group failed: at
\* failGroup the version may have been stored and the answer lost.
WorkersHold ==
    \A c \in Clients : pc[c] \in HoldLabels \cup {"lockGroup"} => c \in Workers
HoldersFit ==
    \A c \in Clients :
        pc[c] \in HoldLabels =>
            \/ replay[req[c].hash].phase = "refine"
            \/ pc[c] = "failGroup" /\ replay[req[c].hash].phase = "done"
OneHolder ==
    \A c, d \in Clients :
        /\ pc[c] \in HoldLabels /\ pc[d] \in HoldLabels
        /\ req[c].hash = req[d].hash
        => c = d
RefineHeld ==
    \A h \in Stored :
        replay[h].phase = "refine" =>
            \/ h \in forsaken
            \/ \E c \in Clients : pc[c] \in HoldLabels /\ req[c].hash = h

\* The active version has rows, and the summary is of that version: no version
\* is stored any more while an interpretation is made, so the summary that was
\* read before it is still the one that is there.
VersionShown ==
    \A h \in Stored : /\ replay[h].active \in replay[h].versions
                      /\ replay[h].summary = replay[h].active
SeenHolds ==
    \A c \in Clients :
        pc[c] \in AskLabels =>
            /\ replay[req[c].hash].phase = "done"
            /\ req[c].seen.summary = replay[req[c].hash].summary

\* An interpretation is of a group that is done, and a request asks for one
\* only as long as there is none, unless another has outrun it.
ReadingDone ==
    \A h \in Stored : replay[h].reading # None => replay[h].phase = "done"
SeenOpen ==
    \A c \in Clients \ outrun :
        pc[c] \in AskLabels => replay[req[c].hash].reading = None

ReplayInv ==
    /\ WorkersHold /\ HoldersFit /\ OneHolder /\ RefineHeld
    /\ VersionShown /\ SeenHolds /\ ReadingDone /\ SeenOpen

-----------------------------------------------------------------------------
(***************************************************************************)
(* Jobs.                                                                   *)
(***************************************************************************)
TakeLabels == WorkLabels \cup {"putOff"}

\* A loop of a worker is at a job that it has locked, or about to lock one; one
\* at a time, and the attempt it counts is the one the row counts.
WorkersWork ==
    \A c \in Clients :
        /\ pc[c] \in {"lockJob", "putOff"} => c \in Workers
        /\ c \in Workers /\ pc[c] \in JobLabels
           => pc[c] \in {"lockJob"} \cup TakeLabels
AtWorkFits ==
    \A c \in Workers :
        pc[c] \in TakeLabels =>
            /\ job[req[c].group].status # "pending"
            /\ job[req[c].group].attempts = req[c].attempts
OneAtWork ==
    \A c, d \in Workers :
        /\ pc[c] \in TakeLabels /\ pc[d] \in TakeLabels
        /\ req[c].group = req[d].group
        => c = d

\* The round makes the lock refuse a pick from before the last retry, so what
\* a pick counted is right whenever the lock succeeds.
LockFits ==
    \A c \in Clients :
        pc[c] = "lockJob" =>
            /\ req[c].round <= job[req[c].group].round
            /\ /\ req[c].round = job[req[c].group].round
               /\ job[req[c].group].status = "pending"
               => req[c].attempts = job[req[c].group].attempts + 1
AttemptsLeft ==
    \A g \in Created : /\ job[g].attempts <= MaxAttempts
                       /\ job[g].status = "pending"
                          => job[g].attempts < MaxAttempts

\* What is processing is in the hands of a worker, or of the Agent, or was left
\* there.
ProcessingHeld ==
    \A g \in Created :
        job[g].status = "processing" =>
            \/ g \in adrift \/ job[g].managed
            \/ \E c \in Workers : pc[c] \in TakeLabels /\ req[c].group = g

\* A job is done only with its interpretation, which a request asks for only as
\* long as there is none, unless another has surpassed it.
MarkedAnswered ==
    \A c \in Clients : pc[c] = "markDone" => job[req[c].group].answer # None
AskOpen ==
    \A c \in Clients \ surpassed :
        pc[c] \in {"ask", "writeRuns"} => job[req[c].group].answer = None

JobInv ==
    /\ WorkersWork /\ AtWorkFits /\ OneAtWork /\ LockFits /\ AttemptsLeft
    /\ ProcessingHeld /\ MarkedAnswered /\ CompletedIsInterpreted /\ AskOpen

-----------------------------------------------------------------------------
(***************************************************************************)
(* A step on a replay, by what it does to the table.                       *)
(***************************************************************************)
\* Only request c goes on.
Alone(c) == \A d \in Clients \ {c} : pc'[d] = pc[d] /\ req'[d] = req[d]

\* The group that a request is about.
LEMMA GroupOf ==
  ASSUME TypeInv, NEW c \in Clients, pc[c] \in StoredLabels
  PROVE  /\ req[c] \in ReplayCall /\ req[c].hash \in Hashes
         /\ Born(req[c].hash) /\ req[c].hash \in Stored
         /\ replay[req[c].hash] \in Group
<1>1. req[c] \in ReplayCall /\ req[c].hash \in Hashes /\ Born(req[c].hash)
  BY FitsOf
     DEF TypeInv, ReplayTypes, GroupsThere, StoredLabels, ReplayFits, ReplayCall
<1> QED  BY <1>1 DEF TypeInv, ReplayTypes, ReplayTypeOK, Born, Stored

\* The awaits of a worker at a group and of one that asks are those of requests
\* about a group that is there.
LEMMA HoldStored ==
  /\ HoldLabels \subseteq StoredLabels /\ AskLabels \subseteq StoredLabels
  /\ HoldLabels \cap AskLabels = {}
  /\ "lockGroup" \in StoredLabels \ (HoldLabels \cup AskLabels)
  BY DEF HoldLabels, AskLabels, StoredLabels, ReplayLabels, ReadingLabels

\* A step that only reads: one that leaves a group it held has told so.
LEMMA ReplayRests ==
  ASSUME TypeInv, ReplayInv, NEW c \in Clients, Alone(c),
         pc'[c] \notin HoldLabels \cup AskLabels,
         pc'[c] = "lockGroup" => c \in Workers,
         replay' = replay, forsaken \subseteq forsaken',
         pc[c] \in HoldLabels => req[c].hash \in forsaken',
         outrun' \in {outrun, outrun \ {c}}
  PROVE  ReplayInv'
<1> USE DEF Alone, Stored, Born
<1>1. WorkersHold' /\ HoldersFit' /\ OneHolder' /\ RefineHeld'
  BY DEF ReplayInv, WorkersHold, HoldersFit, OneHolder, RefineHeld
<1>2. VersionShown' /\ SeenHolds' /\ ReadingDone' /\ SeenOpen'
  BY DEF ReplayInv, VersionShown, SeenHolds, ReadingDone, SeenOpen
<1> QED  BY <1>1, <1>2 DEF ReplayInv

\* A worker that keeps its group.
LEMMA HoldsOn ==
  ASSUME TypeInv, ReplayInv, NEW c \in Clients, Alone(c),
         pc[c] \in HoldLabels \ {"failGroup"}, pc'[c] \in HoldLabels,
         req'[c] = req[c], UNCHANGED replayVars
  PROVE  ReplayInv'
<1> USE HoldStored DEF Alone, Stored, Born, replayVars
<1>1. WorkersHold' /\ HoldersFit' /\ OneHolder' /\ RefineHeld'
  BY DEF ReplayInv, WorkersHold, HoldersFit, OneHolder, RefineHeld
<1>2. VersionShown' /\ SeenHolds' /\ ReadingDone' /\ SeenOpen'
  BY DEF ReplayInv, VersionShown, SeenHolds, ReadingDone, SeenOpen
<1> QED  BY <1>1, <1>2 DEF ReplayInv

\* A request that has read a group without an interpretation and asks for one.
LEMMA AsksOn ==
  ASSUME TypeInv, ReplayInv, NEW c \in Clients, Alone(c),
         pc[c] \notin HoldLabels, pc'[c] \in AskLabels,
         req'[c].hash \in Hashes, UNCHANGED <<replay, forsaken>>,
         replay[req'[c].hash].phase = "done",
         req'[c].seen.summary = replay[req'[c].hash].summary,
         outrun' \in {outrun, outrun \ {c}},
         c \notin outrun' => replay[req'[c].hash].reading = None
  PROVE  ReplayInv'
<1> USE HoldStored DEF Alone, Stored, Born
<1>1. WorkersHold' /\ HoldersFit' /\ OneHolder' /\ RefineHeld'
  BY DEF ReplayInv, WorkersHold, HoldersFit, OneHolder, RefineHeld
<1>2. VersionShown' /\ SeenHolds' /\ ReadingDone'
  BY DEF ReplayInv, VersionShown, SeenHolds, ReadingDone
<1>3. SeenOpen'
  BY DEF ReplayInv, SeenOpen
<1> QED  BY <1>1, <1>2, <1>3 DEF ReplayInv

\* A step that changes the row of group h to g.
Writes(h, g) == replay' = [replay EXCEPT ![h] = g]

\* A write of a group changes that row and no other, and the group is stored.
LEMMA RowWritten ==
  ASSUME TypeInv, NEW h \in Hashes, NEW g \in Group, Writes(h, g)
  PROVE  /\ replay'[h] = g /\ Stored' = Stored \cup {h}
         /\ \A o \in Hashes \ {h} : replay'[o] = replay[o]
<1>1. g # None
  BY NullIsNoGroup
<1> QED  BY <1>1 DEF Writes, Stored, Born, TypeInv, ReplayTypes, ReplayTypeOK

\* A new group has its first version, and nobody is at it.
LEMMA GroupMade ==
  ASSUME TypeInv, ReplayInv, NEW c \in Clients, Alone(c),
         pc'[c] \notin HoldLabels \cup AskLabels \cup {"lockGroup"},
         pc[c] \notin HoldLabels,
         NEW h \in Hashes \ Stored, NEW b \in BOOLEAN, Writes(h, NewGroup(b)),
         UNCHANGED <<forsaken, outrun>>
  PROVE  ReplayInv'
<1> USE HoldStored DEF Alone
<1>1. /\ NewGroup(b) \in Group /\ NewGroup(b).phase \in {"fast", "done"}
      /\ NewGroup(b).active = 1 /\ NewGroup(b).versions = {1}
      /\ NewGroup(b).summary = 1 /\ NewGroup(b).reading = None
  <2>1. Cardinality(Stored) \in Nat
    BY FS_CardinalityType DEF TypeInv, ReplayTypes
  <2> QED  BY <2>1 DEF NewGroup, Group
<1>2. /\ replay'[h] = NewGroup(b) /\ Stored' = Stored \cup {h}
      /\ \A o \in Hashes \ {h} : replay'[o] = replay[o]
  BY <1>1, RowWritten
<1>3. \A d \in Clients : pc[d] \in HoldLabels \cup AskLabels =>
         replay'[req[d].hash] = replay[req[d].hash]
  BY <1>2, GroupOf
<1>4. \A o \in Stored : replay'[o] = replay[o]
  BY <1>2 DEF Stored
<1>5. WorkersHold' /\ HoldersFit' /\ OneHolder'
  BY <1>3 DEF ReplayInv, WorkersHold, HoldersFit, OneHolder
<1>6. RefineHeld'
  BY <1>1, <1>2, <1>4 DEF ReplayInv, RefineHeld
<1>7. VersionShown' /\ ReadingDone'
  BY <1>1, <1>2, <1>4 DEF ReplayInv, VersionShown, ReadingDone
<1>8. SeenHolds' /\ SeenOpen'
  BY <1>3 DEF ReplayInv, SeenHolds, SeenOpen
<1> QED  BY <1>5, <1>6, <1>7, <1>8 DEF ReplayInv

\* The lock is taken on a group that nobody holds or interprets.
LEMMA GroupLocked ==
  ASSUME TypeInv, ReplayInv, NEW c \in Clients, Alone(c),
         pc[c] = "lockGroup", pc'[c] = "loadGroup", req'[c] = req[c],
         replay[req[c].hash].phase = "fast",
         Writes(req[c].hash, [replay[req[c].hash] EXCEPT !.phase = "refine"]),
         UNCHANGED <<forsaken, outrun>>
  PROVE  ReplayInv'
<1> DEFINE h == req[c].hash
           g == [replay[h] EXCEPT !.phase = "refine"]
<1> USE HoldStored DEF Alone
<1>1. h \in Stored /\ h \in Hashes /\ replay[h] \in Group
  BY GroupOf
<1>2. /\ g \in Group /\ g.phase = "refine" /\ g.reading = replay[h].reading
      /\ g.active = replay[h].active /\ g.versions = replay[h].versions
      /\ g.summary = replay[h].summary
  BY <1>1 DEF Group
<1> HIDE DEF g
<1>3. /\ replay'[h] = g /\ Stored' = Stored
      /\ \A o \in Hashes \ {h} : replay'[o] = replay[o]
  <2>1. Writes(h, g)
    BY DEF g
  <2>2. Stored \cup {h} = Stored
    BY <1>1
  <2> QED  BY <1>1, <1>2, <2>1, <2>2, RowWritten
<1>4. \A d \in Clients : pc[d] \in HoldLabels \cup AskLabels =>
         req[d].hash # h /\ replay'[req[d].hash] = replay[req[d].hash]
  BY <1>1, <1>3, GroupOf DEF ReplayInv, HoldersFit, SeenHolds
<1>5. \A o \in Stored \ {h} : replay'[o] = replay[o]
  BY <1>3 DEF Stored
<1>6. WorkersHold' /\ HoldersFit' /\ OneHolder'
  BY <1>2, <1>3, <1>4 DEF ReplayInv, WorkersHold, HoldersFit, OneHolder, HoldLabels
<1>7. RefineHeld'
  BY <1>3, <1>5 DEF ReplayInv, RefineHeld, HoldLabels
<1>8. VersionShown' /\ ReadingDone'
  BY <1>1, <1>2, <1>3, <1>5 DEF ReplayInv, VersionShown, ReadingDone
<1>9. SeenHolds' /\ SeenOpen'
  BY <1>4 DEF ReplayInv, SeenHolds, SeenOpen, AskLabels
<1> QED  BY <1>6, <1>7, <1>8, <1>9 DEF ReplayInv

\* Writing an interpretation writes the summary that was there, and outruns the
\* others that are about to.
LEMMA SummaryWritten ==
  ASSUME TypeInv, ReplayInv, NEW c \in Clients, Alone(c),
         pc[c] = "writeSummary",
         pc'[c] \notin HoldLabels \cup AskLabels \cup {"lockGroup"},
         req[c].reading \in Readings, req[c].seen \in Group,
         Writes(req[c].hash,
                [replay[req[c].hash] EXCEPT !.summary = req[c].seen.summary,
                                            !.reading = req[c].reading]),
         outrun' = outrun \cup
             {d \in Clients : /\ pc[d] \in {"interpret", "writeSummary"}
                              /\ d # c /\ req[d].hash = req[c].hash},
         forsaken' = forsaken
  PROVE  ReplayInv'
<1> DEFINE h == req[c].hash
           g == [replay[h] EXCEPT !.summary = req[c].seen.summary,
                                  !.reading = req[c].reading]
<1> USE HoldStored DEF Alone
<1>1. h \in Stored /\ h \in Hashes /\ replay[h] \in Group /\ pc[c] \in AskLabels
  BY GroupOf DEF AskLabels
<1>2. /\ g \in Group /\ g.phase = replay[h].phase /\ g.phase = "done"
      /\ g.active = replay[h].active /\ g.versions = replay[h].versions
      /\ g.summary = replay[h].summary
  <2>1. req[c].seen.summary = replay[h].summary /\ replay[h].phase = "done"
    BY <1>1 DEF ReplayInv, SeenHolds
  <2> QED  BY <1>1, <2>1 DEF Group
<1> HIDE DEF g
<1>3. /\ replay'[h] = g /\ Stored' = Stored
      /\ \A o \in Hashes \ {h} : replay'[o] = replay[o]
  <2>1. Writes(h, g)
    BY DEF g
  <2>2. Stored \cup {h} = Stored
    BY <1>1
  <2> QED  BY <1>1, <1>2, <2>1, <2>2, RowWritten
<1>4. \A d \in Clients : pc[d] \in HoldLabels \cup AskLabels =>
         /\ replay'[req[d].hash].phase = replay[req[d].hash].phase
         /\ replay'[req[d].hash].summary = replay[req[d].hash].summary
  BY <1>2, <1>3, GroupOf
<1>5. \A o \in Stored \ {h} : replay'[o] = replay[o]
  BY <1>3 DEF Stored
<1>6. WorkersHold' /\ HoldersFit' /\ OneHolder'
  BY <1>4 DEF ReplayInv, WorkersHold, HoldersFit, OneHolder
<1>7. RefineHeld'
  BY <1>1, <1>2, <1>3, <1>5 DEF ReplayInv, RefineHeld
<1>8. VersionShown' /\ ReadingDone'
  BY <1>1, <1>2, <1>3, <1>5 DEF ReplayInv, VersionShown, ReadingDone
<1>9. SeenHolds'
  BY <1>4 DEF ReplayInv, SeenHolds
<1>10. SeenOpen'
  <2> SUFFICES ASSUME NEW d \in Clients \ outrun', pc'[d] \in AskLabels
               PROVE  replay'[req'[d].hash].reading = None
    BY DEF SeenOpen
  <2>1. d # c /\ d \notin outrun /\ pc[d] \in AskLabels /\ req'[d] = req[d]
    OBVIOUS
  <2>2. req[d].hash \in Hashes \ {h}
    BY <2>1, GroupOf DEF AskLabels
  <2> QED  BY <1>3, <2>1, <2>2 DEF ReplayInv, SeenOpen
<1> QED  BY <1>6, <1>7, <1>8, <1>9, <1>10 DEF ReplayInv

\* The end of a refinement, with a version that is active, summarised and not
\* yet interpreted, or without one: nobody interprets what is refined.
LEMMA RefineEnds ==
  ASSUME TypeInv, ReplayInv, NEW c \in Clients, Alone(c),
         pc[c] \in HoldLabels,
         pc'[c] \notin AskLabels \cup {"lockGroup"},
         pc'[c] \in HoldLabels => pc'[c] = "failGroup" /\ req'[c] = req[c],
         NEW g \in Group, Writes(req[c].hash, g),
         g.phase = "done",
         \/ g.active \in g.versions /\ g.summary = g.active /\ g.reading = None
            /\ pc[c] # "failGroup"
         \/ /\ g.active = replay[req[c].hash].active
            /\ g.versions = replay[req[c].hash].versions
            /\ g.summary = replay[req[c].hash].summary
            /\ g.reading = replay[req[c].hash].reading,
         UNCHANGED <<forsaken, outrun>>
  PROVE  ReplayInv'
<1> DEFINE h == req[c].hash
<1> USE HoldStored DEF Alone
<1>1. h \in Stored /\ h \in Hashes /\ replay[h] \in Group
  BY GroupOf
<1>2. /\ replay'[h] = g /\ Stored' = Stored
      /\ \A o \in Hashes \ {h} : replay'[o] = replay[o]
  <2>1. Stored \cup {h} = Stored
    BY <1>1
  <2> QED  BY <1>1, <2>1, RowWritten
<1>3. \A d \in Clients \ {c} : pc[d] \in HoldLabels =>
         replay'[req[d].hash] = replay[req[d].hash]
  BY <1>2, GroupOf DEF ReplayInv, OneHolder
<1>4. \A o \in Stored \ {h} : replay'[o] = replay[o]
  BY <1>2 DEF Stored
<1>5. \A d \in Clients \ {c} : pc[d] \in AskLabels =>
         /\ replay'[req[d].hash].phase = replay[req[d].hash].phase
         /\ replay'[req[d].hash].summary = replay[req[d].hash].summary
         /\ replay'[req[d].hash].reading = replay[req[d].hash].reading
  <2> SUFFICES ASSUME NEW d \in Clients \ {c}, pc[d] \in AskLabels,
                      req[d].hash = h
               PROVE  /\ g.phase = replay[h].phase
                      /\ g.summary = replay[h].summary
                      /\ g.reading = replay[h].reading
    BY <1>2, GroupOf
  <2>1. replay[h].phase = "done"
    BY DEF ReplayInv, SeenHolds
  <2>2. pc[c] = "failGroup"
    BY <2>1 DEF ReplayInv, HoldersFit
  <2> QED  BY <2>1, <2>2
<1>6. WorkersHold' /\ HoldersFit' /\ OneHolder'
  BY <1>2, <1>3 DEF ReplayInv, WorkersHold, HoldersFit, OneHolder
<1>7. RefineHeld'
  BY <1>2, <1>4 DEF ReplayInv, RefineHeld
<1>8. VersionShown' /\ ReadingDone'
  BY <1>1, <1>2, <1>4 DEF ReplayInv, VersionShown, ReadingDone
<1>9. SeenHolds' /\ SeenOpen'
  BY <1>5 DEF ReplayInv, SeenHolds, SeenOpen
<1> QED  BY <1>6, <1>7, <1>8, <1>9 DEF ReplayInv

-----------------------------------------------------------------------------
\* The steps of the page of replays and of the worker that refines them.
LEMMA ReplayActionKeeps ==
  ASSUME TypeInv, ReplayInv, NEW c \in Clients, ReplayAction(c)
  PROVE  ReplayInv'
<1> DEFINE r == req[c]
           g == replay[r.hash]
<1>1. CallTypes /\ Alone(c)
  BY ReplayMoves DEF TypeInv, MovesIn, Alone
<1>2. \A l, x : ComesTo(c, l, x) => pc'[c] = l /\ req'[c] = x
  BY <1>1, ComesThere
<1>3. /\ pc[c] \in StoredLabels => /\ r \in ReplayCall /\ r.hash \in Hashes
                                   /\ r.hash \in Stored /\ g \in Group
      /\ replay \in [Hashes -> Group \cup {None}]
  BY GroupOf DEF TypeInv, ReplayTypes, ReplayTypeOK
<1> USE DEF AskLabels, HoldLabels, StoredLabels, ReplayLabels, ReadingLabels
<1>4. ASSUME Leaves(c, r.then, r), pc[c] \in StoredLabels
      PROVE  pc'[c] \in {"showReplay", "idle"}
  BY <1>2, <1>3, <1>4 DEF Leaves, Finish, ComesTo, ReplayCall
<1>5. CASE ReplayRequest(c) \/ ShowRequest(c) \/ FindGroup(c) \/ RunFast(c)
           \/ ShowReplay(c)
  <2>1. pc'[c] \in {"findGroup", "showReplay", "runFast", "insertGroup",
                    "readSummary", "idle"}
    BY <1>2, <1>5
       DEF ReplayRequest, ShowRequest, FindGroup, RunFast, ShowReplay, Finish,
           ComesTo
  <2>2. pc[c] \notin HoldLabels /\ UNCHANGED replayVars
    BY <1>5
       DEF ReplayRequest, ShowRequest, FindGroup, RunFast, ShowReplay, Arrive
  <2> QED  BY <1>1, <2>1, <2>2, ReplayRests DEF replayVars
<1>6. CASE InsertGroup(c)
  <2>1. /\ pc'[c] \in {"showReplay", "readSummary"} /\ pc[c] = "insertGroup"
        /\ UNCHANGED <<forsaken, outrun>>
    BY <1>2, <1>6 DEF InsertGroup, ComesTo
  <2>2. CASE Born(r.hash)
    BY <1>1, <1>6, <2>1, <2>2, ReplayRests DEF InsertGroup
  <2>3. CASE ~Born(r.hash)
    <3>1. r.hash \in Hashes \ Stored /\ r.refine \in BOOLEAN
      BY <2>1, <2>3, FitsOf DEF TypeInv, ReplayFits, ReplayCall, Stored
    <3>2. Writes(r.hash, NewGroup(r.refine))
      BY <1>6, <2>3 DEF InsertGroup, Writes
    <3> QED  BY <1>1, <2>1, <3>1, <3>2, GroupMade
  <2> QED  BY <2>2, <2>3
<1>7. CASE ReadSummary(c)
  <2> DEFINE x == [r EXCEPT !.seen = g]
  <2>1. /\ pc[c] = "readSummary" /\ outrun' = outrun \ {c}
        /\ UNCHANGED <<replay, forsaken>>
    BY <1>7 DEF ReadSummary
  <2>2. CASE Interpretable(g) /\ Goto(c, "interpret", x)
    <3>1. x.seen = g /\ x.hash = r.hash
      BY <1>3, <2>1 DEF ReplayCall
    <3>2. pc'[c] = "interpret" /\ req'[c] = x
      BY <1>2, <2>2 DEF ComesTo
    <3> HIDE DEF x
    <3> QED
      BY <1>1, <1>3, <2>1, <2>2, <3>1, <3>2, AsksOn DEF Interpretable, Finished
  <2>3. CASE Leaves(c, r.then, r)
    BY <1>1, <1>4, <2>1, <2>3, ReplayRests
  <2> QED  BY <1>7, <2>2, <2>3 DEF ReadSummary
<1>8. CASE Interpret(c)
  <2>1. PICK a \in Readings : Goto(c, "writeSummary", [r EXCEPT !.reading = a])
    BY <1>8 DEF Interpret
  <2> DEFINE x == [r EXCEPT !.reading = a]
  <2>2. pc[c] = "interpret" /\ UNCHANGED replayVars
    BY <1>8 DEF Interpret
  <2>3. x.seen = r.seen /\ x.hash = r.hash
    BY <1>3, <2>2 DEF ReplayCall
  <2>4. pc'[c] = "writeSummary" /\ req'[c] = x
    BY <1>2, <2>1 DEF ComesTo
  <2> HIDE DEF x
  <2>5. /\ g.phase = "done" /\ r.seen.summary = g.summary
        /\ c \notin outrun => g.reading = None
    BY <2>2 DEF ReplayInv, SeenHolds, SeenOpen
  <2> QED
    BY <1>1, <1>3, <2>2, <2>3, <2>4, <2>5, AsksOn DEF replayVars
<1>9. CASE WriteSummary(c)
  <2>1. pc[c] = "writeSummary" /\ r.reading \in Readings /\ r.seen \in Group
    BY <1>9, FitsOf DEF WriteSummary, TypeInv, ReplayFits
  <2>2. pc'[c] \in {"showReplay", "idle"}
    BY <1>4, <1>9, <2>1 DEF WriteSummary
  <2>3. Writes(r.hash, [g EXCEPT !.summary = r.seen.summary,
                                 !.reading = r.reading])
    BY <1>3, <1>9, <2>1 DEF WriteSummary, Writes
  <2>4. /\ outrun' = outrun \cup
              {d \in Clients : /\ pc[d] \in {"interpret", "writeSummary"}
                               /\ d # c /\ req[d].hash = req[c].hash}
        /\ forsaken' = forsaken
    BY <1>9 DEF WriteSummary
  <2> QED  BY <1>1, <2>1, <2>2, <2>3, <2>4, SummaryWritten
<1>10. CASE PickGroup(c)
  BY <1>1, <1>2, <1>10, ReplayRests DEF PickGroup, replayVars, ComesTo
<1>11. CASE LockGroup(c)
  <2>1. pc[c] = "lockGroup" /\ UNCHANGED <<forsaken, outrun>>
    BY <1>11 DEF LockGroup
  <2>2. CASE Finish(c) /\ UNCHANGED replay
    BY <1>1, <1>2, <2>1, <2>2, ReplayRests DEF Finish, ComesTo
  <2>3. CASE /\ Lockable(r.hash) /\ Goto(c, "loadGroup", r)
             /\ replay' = [replay EXCEPT ![r.hash].phase = "refine"]
    <3>1. Writes(r.hash, [g EXCEPT !.phase = "refine"])
      BY <1>3, <2>1, <2>3 DEF Writes
    <3>2. g.phase = "fast"
      BY <2>3 DEF Lockable, Waits
    <3>3. pc'[c] = "loadGroup" /\ req'[c] = r
      BY <1>2, <2>3 DEF ComesTo
    <3> QED  BY <1>1, <2>1, <3>1, <3>2, <3>3, GroupLocked
  <2> QED  BY <1>11, <2>2, <2>3 DEF LockGroup
<1>12. CASE LoadGroup(c) \/ RunRefine(c)
  <2>1. PICK l \in HoldLabels : Goto(c, l, r)
    BY <1>12 DEF LoadGroup, RunRefine
  <2>2. pc[c] \in HoldLabels \ {"failGroup"} /\ UNCHANGED replayVars
    BY <1>12 DEF LoadGroup, RunRefine
  <2>3. pc'[c] = l /\ req'[c] = r
    BY <1>2, <2>1 DEF ComesTo
  <2> QED  BY <1>1, <2>2, <2>3, HoldsOn
<1>13. CASE StoreRefined(c) \/ StoreUnanswered(c)
  <2>1. /\ pc[c] = "storeRefined" /\ UNCHANGED <<forsaken, outrun>>
        /\ pc'[c] \in {"readSummary", "failGroup"} /\ req'[c] = r
    BY <1>2, <1>13 DEF StoreRefined, StoreUnanswered, ComesTo
  <2>2. Writes(r.hash, Refined(g))
    BY <1>13 DEF StoreRefined, StoreUnanswered, Writes
  <2>3. /\ Refined(g) \in Group /\ Refined(g).phase = "done"
        /\ Refined(g).active \in Refined(g).versions
        /\ Refined(g).summary = Refined(g).active /\ Refined(g).reading = None
    <3>1. g \in Group
      BY <1>3, <2>1
    <3>2. g.versions \cup {2} \in SUBSET (1 .. 2) /\ 2 \in 1 .. 2
      BY <3>1 DEF Group
    <3>3. /\ PersistResultVersion(g, 2) \in Group
          /\ PersistResultVersion(g, 2).versions = g.versions \cup {2}
      BY <3>1, <3>2 DEF PersistResultVersion, Group
    <3> QED  BY <3>2, <3>3 DEF Refined, Group
  <2> HIDE DEF g
  <2>4. r.hash \in Hashes
    BY <1>3, <2>1
  <2> QED  BY <1>1, <2>1, <2>2, <2>3, RefineEnds
<1>14. CASE FailGroup(c)
  <2> DEFINE f == [g EXCEPT !.status = "failed", !.phase = "done"]
  <2>1. /\ pc[c] = "failGroup" /\ UNCHANGED <<forsaken, outrun>>
        /\ pc'[c] = "idle"
    BY <1>2, <1>14 DEF FailGroup, Finish, ComesTo
  <2>2. Writes(r.hash, f)
    BY <1>3, <1>14, <2>1 DEF FailGroup, Writes
  <2>3. /\ f \in Group /\ f.phase = "done" /\ f.active = g.active
        /\ f.versions = g.versions /\ f.summary = g.summary
        /\ f.reading = g.reading
    BY <1>3, <2>1 DEF Group
  <2> HIDE DEF f
  <2> QED  BY <1>1, <2>1, <2>2, <2>3, RefineEnds
<1> QED
  BY <1>5, <1>6, <1>7, <1>8, <1>9, <1>10, <1>11, <1>12, <1>13, <1>14
     DEF ReplayAction, ReplayStep, RefineStep

\* A worker that ends at a group it holds leaves it on record.
LEMMA HeldIsForsaken ==
  ASSUME ReplayInv, NEW C \in SUBSET Clients, Forsake(C), NEW c \in C,
         pc[c] \in HoldLabels
  PROVE  req[c].hash \in forsaken'
<1>1. c \in Workers
  BY DEF ReplayInv, WorkersHold
<1> QED  BY <1>1 DEF Forsake, HoldLabels

\* An exception.
LEMMA FailsKeepReplays ==
  ASSUME TypeInv, ReplayInv, NEW c \in Clients, Fails(c)
  PROVE  ReplayInv'
<1> USE DEF AskLabels, HoldLabels, StoredLabels, ReplayLabels, ReadingLabels
<1>1. CallTypes /\ UNCHANGED <<replay, outrun>>
  BY DEF Fails, TypeInv
<1>2. CASE Handler(c) = "return"
  <2>1. CallFails(c) /\ Forsake({c})
    BY <1>2 DEF Fails, Leave
  <2>2. pc'[c] = "idle" /\ Alone(c)
    BY <1>1, <2>1, ComesThere DEF CallFails, ComesTo, Alone
  <2>3. forsaken \subseteq forsaken'
    BY <2>1 DEF Forsake
  <2>4. pc[c] \in HoldLabels => req[c].hash \in forsaken'
    BY <2>1, HeldIsForsaken
  <2> QED  BY <1>1, <2>2, <2>3, <2>4, ReplayRests
<1>3. CASE Handler(c) # "return"
  <2>1. Throws(c, Handler(c), req[c]) /\ UNCHANGED forsaken
    BY <1>3 DEF Fails
  <2>2. pc'[c] = Handler(c) /\ req'[c] = req[c] /\ Alone(c)
    BY <1>1, <2>1, ComesThere DEF ComesTo, Alone
  <2>3. CASE pc[c] \in {"runRefine", "storeRefined"} /\ Handler(c) = "failGroup"
    BY <1>1, <2>1, <2>2, <2>3, HoldsOn DEF replayVars
  <2>4. CASE /\ pc[c] \in ReadingLabels \cup WorkLabels
             /\ Handler(c) \in {"showReplay", "putOff"}
    BY <1>1, <2>1, <2>2, <2>4, ReplayRests DEF WorkLabels
  <2> QED  BY <1>1, <1>3, <2>3, <2>4, HandlerOf
<1> QED  BY <1>2, <1>3

\* A process that dies.
LEMMA DiesKeepsReplays ==
  ASSUME TypeInv, ReplayInv, NEW C \in SUBSET Clients, Lose(C), Forsake(C),
         UNCHANGED <<replay, outrun>>
  PROVE  ReplayInv'
<1>1. \A d \in Clients : IF d \in C THEN pc'[d] = "idle"
                         ELSE pc'[d] = pc[d] /\ req'[d] = req[d]
  BY DEF Lose
<1>2. "idle" \notin HoldLabels \cup AskLabels \cup {"lockGroup"}
  BY DEF HoldLabels, AskLabels
<1>3. WorkersHold' /\ HoldersFit' /\ OneHolder'
  BY <1>1, <1>2 DEF ReplayInv, WorkersHold, HoldersFit, OneHolder
<1>4. RefineHeld'
  <2>1. \A c \in C : pc[c] \in HoldLabels => req[c].hash \in forsaken'
    BY HeldIsForsaken
  <2>2. forsaken \subseteq forsaken'
    BY DEF Forsake
  <2> QED  BY <1>1, <2>1, <2>2 DEF ReplayInv, RefineHeld, Stored, Born
<1>5. VersionShown' /\ ReadingDone'
  BY DEF ReplayInv, VersionShown, ReadingDone, Stored, Born
<1>6. SeenHolds' /\ SeenOpen'
  BY <1>1, <1>2 DEF ReplayInv, SeenHolds, SeenOpen
<1> QED  BY <1>3, <1>4, <1>5, <1>6 DEF ReplayInv

\* The steps of the other pages.
LEMMA OthersKeepReplays ==
  ASSUME TypeInv, ReplayInv, NEW c \in Clients, NEW L,
         MovesIn(c, L), L \cap ReplayLabels = {}, UNCHANGED replayVars
  PROVE  ReplayInv'
<1>1. pc[c] \notin ReplayLabels /\ pc'[c] \notin ReplayLabels
  BY PagesApart DEF MovesIn
<1>2. /\ pc[c] \notin HoldLabels
      /\ pc'[c] \notin HoldLabels \cup AskLabels \cup {"lockGroup"}
  BY <1>1 DEF AskLabels, HoldLabels, ReplayLabels, ReadingLabels
<1> QED  BY <1>2, ReplayRests DEF MovesIn, Alone, replayVars

\* Every step keeps the invariant of replays.
LEMMA NextKeepsReplays ==
  ASSUME TypeInv, ReplayInv, [Next]_vars
  PROVE  ReplayInv'
<1> DEFINE Rest == UNCHANGED <<pc, req, replay, forsaken, outrun>>
<1>1. ASSUME Rest PROVE ReplayInv'
  BY <1>1 DEF ReplayInv, WorkersHold, HoldersFit, OneHolder, RefineHeld,
              VersionShown, SeenHolds, ReadingDone, SeenOpen, Stored, Born
<1>2. \A g \in Groups : ComesDue(g) /\ UNCHANGED replayVars => Rest
  BY DEF ComesDue, apiVars, replayVars
<1>3. UNCHANGED vars => Rest
  BY DEF vars, apiVars, replayVars
<1>4. CallTypes
  BY DEF TypeInv
<1>5. ASSUME NEW c \in Clients, JobAction(c) \/ EvalAction(c) \/ StrategyAction(c),
             UNCHANGED replayVars
      PROVE  ReplayInv'
  <2>1. \/ MovesIn(c, JobLabels) \/ MovesIn(c, EvalLabels)
        \/ MovesIn(c, StrategyLabels)
    BY <1>4, <1>5, JobMoves, EvalMoves, StrategyMoves
  <2> QED  BY <1>5, <2>1, PagesApart, OthersKeepReplays
<1>6. CASE Dies
  <2>1. PICK C \in SUBSET Clients : Lose(C) /\ Leave(C)
    <3>1. Visitors \in SUBSET Clients /\ \A w \in Workers : {w} \in SUBSET Clients
      BY ApiConstants DEF Visitors
    <3> QED  BY <1>6, <3>1 DEF Dies
  <2> QED  BY <1>6, <2>1, DiesKeepsReplays DEF Dies, Leave
<1> HIDE DEF Rest
<1> QED
  BY <1>1, <1>2, <1>3, <1>5, <1>6, StepsOf, ReplayActionKeeps, FailsKeepReplays

\* It holds at the start.
LEMMA InitReplays ==
  ASSUME Init
  PROVE  ReplayInv
<1>1. Stored = {} /\ pc = [c \in Clients |-> "idle"]
  BY DEF Init, ApiInit, ReplayInit, Stored, Born
<1>2. "idle" \notin HoldLabels \cup AskLabels \cup {"lockGroup"}
  BY DEF HoldLabels, AskLabels
<1> QED
  BY <1>1, <1>2 DEF ReplayInv, WorkersHold, HoldersFit, OneHolder, RefineHeld,
                    VersionShown, SeenHolds, ReadingDone, SeenOpen

\* ... and so always.
LEMMA AlwaysReplays == Spec => [](TypeInv /\ ReplayInv)
<1>1. Init => TypeInv /\ ReplayInv
  BY InitTyped, InitReplays
<1>2. TypeInv /\ ReplayInv /\ [Next]_vars => (TypeInv /\ ReplayInv)'
  BY NextTyped, NextKeepsReplays
<1> QED  BY <1>1, <1>2, PTL DEF Spec

\* What the detail of a replay shows is one version, whatever was stored while
\* its interpretation was made: the summary that is written back with the
\* interpretation is of the version whose rows are shown.
THEOREM DetailAlwaysOneVersion == Spec => []DetailIsOneVersion
<1>1. TypeInv /\ ReplayInv => DetailIsOneVersion
  <2> SUFFICES ASSUME TypeInv, ReplayInv, NEW h \in Stored
               PROVE  Shown(h).rows = {Shown(h).figures}
    BY DEF DetailIsOneVersion
  <2>1. /\ replay[h].active \in replay[h].versions
        /\ replay[h].summary = replay[h].active
    BY DEF ReplayInv, VersionShown
  <2>2. replay[h].versions \cap {replay[h].active} = {replay[h].summary}
    BY <2>1
  <2> QED  BY <2>2 DEF Shown
<1> QED  BY <1>1, AlwaysReplays, PTL

-----------------------------------------------------------------------------
(***************************************************************************)
(* A step on a job, by what it does to the table.                          *)
(***************************************************************************)
\* The job that a request is about.
LEMMA JobOf ==
  ASSUME TypeInv, NEW c \in Clients, pc[c] \in JobLabels \ NewJobLabels
  PROVE  /\ req[c] \in JobCall /\ req[c].group \in Groups
         /\ Exists(req[c].group) /\ req[c].group \in Created
         /\ job[req[c].group] \in Job
<1>1. req[c] \in JobCall /\ req[c].group \in Groups /\ Exists(req[c].group)
  BY FitsOf DEF TypeInv, JobTypes, JobsThere, JobFits
<1> QED  BY <1>1 DEF TypeInv, JobTypes, JobTypeOK, Exists, Created

\* The awaits of a worker at a job, and of one about to take it, are those of
\* requests about a job that is there.
LEMMA TakeStored ==
  /\ TakeLabels \cup {"lockJob", "ask", "writeRuns", "markDone"}
       \subseteq JobLabels \ NewJobLabels
  /\ {"ask", "writeRuns", "markDone"} \subseteq TakeLabels
  /\ "lockJob" \notin TakeLabels
  BY DEF TakeLabels, WorkLabels, JobLabels, NewJobLabels

\* A worker is where the loop can be; a request that comes to an await keeps
\* what the invariant says of those there.
WorksOn(c) ==
    /\ pc'[c] \in {"lockJob", "putOff"} => c \in Workers
    /\ c \in Workers /\ pc'[c] \in JobLabels
       => pc'[c] \in {"lockJob"} \cup TakeLabels
KeepsJob(c) ==
    c \in Workers /\ pc'[c] \in TakeLabels
    => /\ pc[c] \in TakeLabels /\ req'[c].group = req[c].group
       /\ req'[c].attempts = req[c].attempts

\* A step that only reads.
LEMMA JobRests ==
  ASSUME TypeInv, JobInv, NEW c \in Clients, Alone(c), WorksOn(c), KeepsJob(c),
         c \in Workers /\ pc[c] \in TakeLabels /\ pc'[c] \notin TakeLabels
         => req[c].group \in adrift',
         pc'[c] = "lockJob" =>
             /\ req'[c].round <= job[req'[c].group].round
             /\ req'[c].attempts = job[req'[c].group].attempts + 1,
         pc'[c] = "markDone" => job[req'[c].group].answer # None,
         pc'[c] \in {"ask", "writeRuns"} /\ c \notin surpassed'
         => job[req'[c].group].answer = None,
         job' = job, adrift \subseteq adrift',
         surpassed' \in {surpassed, surpassed \ {c}}
  PROVE  JobInv'
<1> USE TakeStored, ApiConstants DEF Alone, WorksOn, KeepsJob, Created, Exists
<1>1. WorkersWork'
  BY DEF JobInv, WorkersWork
<1>2. AtWorkFits' /\ OneAtWork'
  BY DEF JobInv, AtWorkFits, OneAtWork
<1>3. LockFits' /\ AttemptsLeft'
  BY DEF JobInv, LockFits, AttemptsLeft
<1>4. ProcessingHeld'
  BY DEF JobInv, ProcessingHeld
<1>5. MarkedAnswered' /\ CompletedIsInterpreted' /\ AskOpen'
  BY DEF JobInv, MarkedAnswered, CompletedIsInterpreted, AskOpen
<1> QED  BY <1>1, <1>2, <1>3, <1>4, <1>5 DEF JobInv

\* A step that changes the row of job g to j.
WritesJob(g, j) == job' = [job EXCEPT ![g] = j]

\* A write of a job changes that row and no other, and the job exists.
LEMMA JobRowWritten ==
  ASSUME TypeInv, NEW g \in Groups, NEW j \in Job, WritesJob(g, j)
  PROVE  /\ job'[g] = j /\ Created' = Created \cup {g}
         /\ \A h \in Groups \ {g} : job'[h] = job[h]
<1>1. j # None
  BY NullIsNoJob
<1> QED  BY <1>1 DEF WritesJob, Created, Exists, TypeInv, JobTypes, JobTypeOK

\* A new job is pending, or the Agent's.
LEMMA JobMade ==
  ASSUME TypeInv, JobInv, NEW c \in Clients, Alone(c),
         pc[c] \notin TakeLabels, pc'[c] = "idle",
         NEW g \in Groups \ Created, NEW j \in Job, WritesJob(g, j),
         j.status = "pending" \/ (j.status = "processing" /\ j.managed),
         j.attempts = 0, UNCHANGED <<adrift, surpassed>>
  PROVE  JobInv'
<1> USE TakeStored, ApiConstants DEF Alone
<1>1. /\ job'[g] = j /\ Created' = Created \cup {g}
      /\ \A h \in Groups \ {g} : job'[h] = job[h]
  BY JobRowWritten
<1>2. \A d \in Clients \ {c} : pc[d] \in TakeLabels \cup {"lockJob"} =>
         job'[req[d].group] = job[req[d].group]
  BY <1>1, JobOf
<1>3. \A h \in Created : job'[h] = job[h]
  BY <1>1 DEF Created
<1>4. "idle" \notin TakeLabels \cup JobLabels
  BY PagesApart
<1>5. WorkersWork' /\ OneAtWork'
  BY <1>4 DEF JobInv, WorkersWork, OneAtWork
<1>6. AtWorkFits' /\ LockFits'
  BY <1>2, <1>4 DEF JobInv, AtWorkFits, LockFits
<1>7. AttemptsLeft' /\ ProcessingHeld' /\ CompletedIsInterpreted'
  BY <1>1, <1>3, JobConstants
     DEF JobInv, AttemptsLeft, ProcessingHeld, CompletedIsInterpreted
<1>8. MarkedAnswered' /\ AskOpen'
  BY <1>2, <1>4 DEF JobInv, MarkedAnswered, AskOpen
<1> QED  BY <1>5, <1>6, <1>7, <1>8 DEF JobInv

\* A worker locks a pending job, which no other is at.
LEMMA JobLocked ==
  ASSUME TypeInv, JobInv, NEW c \in Clients, Alone(c),
         pc[c] = "lockJob", pc'[c] = "readRuns", req'[c] = req[c],
         job[req[c].group].status = "pending",
         job[req[c].group].round = req[c].round,
         WritesJob(req[c].group,
                   [job[req[c].group] EXCEPT !.status = "processing",
                                             !.attempts = @ + 1, !.due = TRUE]),
         UNCHANGED <<adrift, surpassed>>
  PROVE  JobInv'
<1> DEFINE g == req[c].group
           j == [job[g] EXCEPT !.status = "processing", !.attempts = @ + 1,
                               !.due = TRUE]
<1> USE TakeStored, ApiConstants DEF Alone
<1>1. g \in Groups /\ g \in Created /\ job[g] \in Job /\ c \in Workers
  BY JobOf DEF JobInv, WorkersWork
<1>2. /\ j \in Job /\ j.status = "processing" /\ j.round = job[g].round
      /\ j.attempts = job[g].attempts + 1 /\ j.answer = job[g].answer
  <2>1. job[g].attempts + 1 \in Nat
    BY <1>1 DEF Job
  <2> QED  BY <1>1, <2>1 DEF Job, Statuses
<1> HIDE DEF j
<1>3. /\ job'[g] = j /\ Created' = Created
      /\ \A h \in Groups \ {g} : job'[h] = job[h]
  <2>1. Created \cup {g} = Created
    BY <1>1
  <2>2. WritesJob(g, j)
    BY DEF j
  <2> QED  BY <1>1, <1>2, <2>1, <2>2, JobRowWritten
<1>4. j.attempts = req[c].attempts
  BY <1>2 DEF JobInv, LockFits
<1>5. \A d \in Workers : pc[d] \in TakeLabels =>
         req[d].group # g /\ job'[req[d].group] = job[req[d].group]
  BY <1>3, JobOf DEF JobInv, AtWorkFits
<1>6. \A d \in Clients : pc[d] \in TakeLabels \cup {"lockJob"} =>
         /\ job'[req[d].group].round = job[req[d].group].round
         /\ job'[req[d].group].answer = job[req[d].group].answer
         /\ \/ job'[req[d].group].status # "pending"
            \/ job'[req[d].group] = job[req[d].group]
  BY <1>2, <1>3, JobOf
<1>7. \A h \in Created \ {g} : job'[h] = job[h]
  BY <1>3 DEF Created
<1>8. WorkersWork'
  BY <1>1, TakeStored DEF JobInv, WorkersWork, TakeLabels, WorkLabels
<1>9. AtWorkFits' /\ OneAtWork'
  BY <1>2, <1>3, <1>4, <1>5 DEF JobInv, AtWorkFits, OneAtWork
<1>10. LockFits' /\ MarkedAnswered' /\ AskOpen'
  <2>1. LockFits'
    BY <1>6 DEF JobInv, LockFits
  <2>2. MarkedAnswered'
    BY <1>6 DEF JobInv, MarkedAnswered
  <2>3. AskOpen'
    BY <1>6 DEF JobInv, AskOpen
  <2> QED  BY <2>1, <2>2, <2>3
<1>11. AttemptsLeft' /\ CompletedIsInterpreted'
  <2>1. job[g].attempts < MaxAttempts /\ job[g].attempts \in Nat
    BY <1>1 DEF JobInv, AttemptsLeft, Job
  <2> QED
    BY <1>2, <1>3, <1>7, <2>1, JobConstants
       DEF JobInv, AttemptsLeft, CompletedIsInterpreted
<1>12. ProcessingHeld'
  BY <1>1, <1>3, <1>7 DEF JobInv, ProcessingHeld, TakeLabels, WorkLabels
<1> QED  BY <1>8, <1>9, <1>10, <1>11, <1>12 DEF JobInv

\* A request writes the interpretation, or what it is written with, or both; it
\* surpasses the others that have asked for one.
LEMMA JobAnswered ==
  ASSUME TypeInv, JobInv, NEW c \in Clients, Alone(c),
         pc[c] \in {"writeRuns", "markDone", "writeBack"},
         NEW j \in Job, WritesJob(req[c].group, j),
         j.attempts = job[req[c].group].attempts,
         j.round = job[req[c].group].round,
         j.managed = job[req[c].group].managed,
         j.answer # None,
         \/ /\ pc'[c] = "markDone" /\ req'[c] = req[c]
            /\ j.status = job[req[c].group].status
         \/ pc'[c] = "idle" /\ j.status = "completed",
         \/ j.answer = job[req[c].group].answer /\ surpassed' = surpassed
         \/ Surpasses(c),
         adrift' = adrift
  PROVE  JobInv'
<1> DEFINE g == req[c].group
<1> USE TakeStored, ApiConstants DEF Alone
<1>1. g \in Groups /\ g \in Created /\ job[g] \in Job
  BY JobOf DEF JobLabels, NewJobLabels, WorkLabels
<1>2. /\ job'[g] = j /\ Created' = Created
      /\ \A h \in Groups \ {g} : job'[h] = job[h]
  <2>1. Created \cup {g} = Created
    BY <1>1
  <2> QED  BY <1>1, <2>1, JobRowWritten
<1>3. \A d \in Clients : pc[d] \in TakeLabels \cup {"lockJob"} =>
         /\ job'[req[d].group].round = job[req[d].group].round
         /\ job'[req[d].group].attempts = job[req[d].group].attempts
         /\ job'[req[d].group].answer \in {job[req[d].group].answer, j.answer}
         /\ \/ job'[req[d].group].status = job[req[d].group].status
            \/ job'[req[d].group].status = "completed"
  BY <1>2, JobOf
<1>4. \A h \in Created \ {g} : job'[h] = job[h]
  BY <1>2 DEF Created
<1>5. "idle" \notin TakeLabels \cup JobLabels \cup {"lockJob"}
      /\ "markDone" \in TakeLabels
  BY PagesApart DEF TakeLabels, WorkLabels, JobLabels
<1>6. c \in Workers => pc[c] \in TakeLabels
  <2>1. pc[c] \in JobLabels
    BY DEF JobLabels, WorkLabels
  <2> QED  BY <2>1 DEF JobInv, WorkersWork
<1>7. WorkersWork'
  BY <1>5 DEF JobInv, WorkersWork
<1>8. AtWorkFits' /\ OneAtWork'
  BY <1>3, <1>5, <1>6 DEF JobInv, AtWorkFits, OneAtWork
<1>9. LockFits'
  BY <1>3, <1>5 DEF JobInv, LockFits
<1>10. AttemptsLeft' /\ CompletedIsInterpreted'
  BY <1>1, <1>2, <1>4 DEF JobInv, AttemptsLeft, CompletedIsInterpreted
<1>11. ProcessingHeld'
  <2> SUFFICES ASSUME NEW h \in Created, job'[h].status = "processing"
               PROVE  \/ h \in adrift \/ job'[h].managed
                      \/ \E d \in Workers :
                            pc'[d] \in TakeLabels /\ req'[d].group = h
    BY <1>2 DEF ProcessingHeld
  <2>1. job[h].status = "processing" /\ job'[h].managed = job[h].managed
        /\ (h = g => pc'[c] = "markDone" /\ req'[c] = req[c])
    BY <1>2, <1>4
  <2>2. \/ h \in adrift \/ job[h].managed
        \/ \E d \in Workers : pc[d] \in TakeLabels /\ req[d].group = h
    BY <2>1 DEF JobInv, ProcessingHeld
  <2>3. ASSUME NEW d \in Workers, pc[d] \in TakeLabels, req[d].group = h
        PROVE  pc'[d] \in TakeLabels /\ req'[d].group = h
    BY <1>5, <2>1, <2>3
  <2> QED  BY <2>1, <2>2, <2>3
<1>12. MarkedAnswered'
  BY <1>2, <1>3, <1>5 DEF JobInv, MarkedAnswered
<1>13. AskOpen'
  <2> SUFFICES ASSUME NEW d \in Clients \ surpassed',
                      pc'[d] \in {"ask", "writeRuns"}
               PROVE  job'[req'[d].group].answer = None
    BY DEF AskOpen
  <2>1. d # c /\ d \notin surpassed /\ pc[d] \in {"ask", "writeRuns"}
        /\ req'[d] = req[d] /\ req[d].group \in Groups
    BY <1>5, JobOf DEF Surpasses
  <2>2. job[req[d].group].answer = None
    BY <2>1 DEF JobInv, AskOpen
  <2>3. req[d].group # g \/ j.answer = job[g].answer
    BY <2>1 DEF Surpasses
  <2> QED  BY <1>2, <2>1, <2>2, <2>3
<1> QED
  BY <1>7, <1>8, <1>9, <1>10, <1>11, <1>12, <1>13 DEF JobInv

\* A worker puts a job off, to a next round as long as attempts are left.
LEMMA JobPutOff ==
  ASSUME TypeInv, JobInv, NEW c \in Clients, Alone(c),
         pc[c] = "putOff", pc'[c] = "idle",
         NEW j \in Job, WritesJob(req[c].group, j),
         j.attempts = job[req[c].group].attempts,
         j.answer = job[req[c].group].answer,
         \/ j.status = "failed" /\ j.round = job[req[c].group].round
         \/ /\ j.status = "pending" /\ req[c].attempts < MaxAttempts
            /\ j.round = job[req[c].group].round + 1,
         UNCHANGED <<adrift, surpassed>>
  PROVE  JobInv'
<1> DEFINE g == req[c].group
<1> USE TakeStored, ApiConstants DEF Alone
<1>1. /\ g \in Groups /\ g \in Created /\ job[g] \in Job /\ c \in Workers
      /\ pc[c] \in TakeLabels
  BY JobOf DEF JobInv, WorkersWork, TakeLabels
<1>2. /\ job'[g] = j /\ Created' = Created
      /\ \A h \in Groups \ {g} : job'[h] = job[h]
  <2>1. Created \cup {g} = Created
    BY <1>1
  <2> QED  BY <1>1, <2>1, JobRowWritten
<1>3. \A h \in Created \ {g} : job'[h] = job[h]
  BY <1>2 DEF Created
<1>4. "idle" \notin TakeLabels \cup JobLabels \cup {"lockJob"}
  BY PagesApart DEF TakeLabels, WorkLabels, JobLabels
<1>5. \A d \in Workers \ {c} : pc[d] \in TakeLabels =>
         job'[req[d].group] = job[req[d].group]
  BY <1>1, <1>2, JobOf DEF JobInv, OneAtWork
<1>6. WorkersWork' /\ AtWorkFits' /\ OneAtWork'
  BY <1>4, <1>5 DEF JobInv, WorkersWork, AtWorkFits, OneAtWork
<1>7. LockFits'
  <2> SUFFICES ASSUME NEW d \in Clients \ {c}, pc[d] = "lockJob"
               PROVE  /\ req[d].round <= job'[req[d].group].round
                      /\ /\ req[d].round = job'[req[d].group].round
                         /\ job'[req[d].group].status = "pending"
                         => req[d].attempts = job'[req[d].group].attempts + 1
    BY <1>4 DEF LockFits
  <2>1. req[d].group \in Groups /\ req[d].round \in Nat
    BY JobOf DEF JobCall
  <2>2. req[d].round <= job[req[d].group].round
    BY DEF JobInv, LockFits
  <2>3. CASE req[d].group = g
    <3>1. job[g].round \in Nat
      BY <1>1 DEF Job
    <3> QED  BY <1>2, <2>1, <2>2, <2>3, <3>1
  <2>4. CASE req[d].group # g
    BY <1>2, <2>1, <2>4 DEF JobInv, LockFits
  <2> QED  BY <2>3, <2>4
<1>8. AttemptsLeft'
  <2>1. job[g].attempts = req[c].attempts /\ job[g].attempts <= MaxAttempts
    BY <1>1 DEF JobInv, AtWorkFits, AttemptsLeft
  <2> QED  BY <1>2, <1>3, <2>1 DEF JobInv, AttemptsLeft
<1>9. ProcessingHeld' /\ CompletedIsInterpreted'
  BY <1>2, <1>3 DEF JobInv, ProcessingHeld, CompletedIsInterpreted
<1>10. MarkedAnswered' /\ AskOpen'
  <2>1. \A d \in Clients : pc[d] \in TakeLabels =>
           job'[req[d].group].answer = job[req[d].group].answer
    BY <1>2, JobOf
  <2> QED  BY <1>4, <2>1 DEF JobInv, MarkedAnswered, AskOpen
<1> QED  BY <1>6, <1>7, <1>8, <1>9, <1>10 DEF JobInv

\* The retry time of a job comes.
LEMMA JobDue ==
  ASSUME TypeInv, JobInv, NEW g \in Groups, ComesDue(g)
  PROVE  JobInv'
<1>1. UNCHANGED <<pc, req, adrift, surpassed>> /\ job[g] \in Job /\ g \in Created
  BY DEF ComesDue, apiVars, Exists, Created, TypeInv, JobTypes, JobTypeOK
<1> DEFINE j == [job[g] EXCEPT !.due = TRUE]
<1>2. j \in Job /\ WritesJob(g, j)
  BY <1>1 DEF Job, WritesJob, ComesDue, TypeInv, JobTypes, JobTypeOK
<1>3. /\ j.status = job[g].status /\ j.attempts = job[g].attempts
      /\ j.round = job[g].round /\ j.managed = job[g].managed
      /\ j.answer = job[g].answer
  BY <1>1 DEF Job
<1> HIDE DEF j
<1>4. /\ job'[g] = j /\ Created' = Created
      /\ \A h \in Groups \ {g} : job'[h] = job[h]
  <2>1. Created \cup {g} = Created
    BY <1>1
  <2> QED  BY <1>2, <2>1, JobRowWritten
<1>5. \A h \in Groups :
         /\ job'[h].status = job[h].status /\ job'[h].attempts = job[h].attempts
         /\ job'[h].round = job[h].round /\ job'[h].managed = job[h].managed
         /\ job'[h].answer = job[h].answer
  BY <1>3, <1>4
<1>6. \A d \in Clients : pc[d] \in TakeLabels \cup {"lockJob"} =>
                         req[d].group \in Groups
  BY JobOf, TakeStored
<1>7. WorkersWork' /\ AtWorkFits' /\ OneAtWork' /\ LockFits'
  BY <1>1, <1>5, <1>6, ApiConstants
     DEF JobInv, WorkersWork, AtWorkFits, OneAtWork, LockFits
<1>8. AttemptsLeft' /\ ProcessingHeld' /\ CompletedIsInterpreted'
  BY <1>1, <1>4, <1>5
     DEF JobInv, AttemptsLeft, ProcessingHeld, CompletedIsInterpreted, Created
<1>9. MarkedAnswered' /\ AskOpen'
  BY <1>1, <1>5, <1>6, TakeStored DEF JobInv, MarkedAnswered, AskOpen
<1> QED  BY <1>7, <1>8, <1>9 DEF JobInv

-----------------------------------------------------------------------------
\* The steps of the page of jobs and of the worker that interprets them.
LEMMA JobActionKeeps ==
  ASSUME TypeInv, JobInv, NEW c \in Clients, JobAction(c)
  PROVE  JobInv'
<1> DEFINE r == req[c]
           j == job[r.group]
<1>1. CallTypes /\ Alone(c)
  BY JobMoves DEF TypeInv, MovesIn, Alone
<1>2. \A l, x : ComesTo(c, l, x) => pc'[c] = l /\ req'[c] = x
  BY <1>1, ComesThere
<1>3. /\ pc[c] \in JobLabels \ NewJobLabels =>
            /\ r \in JobCall /\ r.group \in Groups /\ r.group \in Created
            /\ j \in Job
      /\ job \in [Groups -> Job \cup {None}]
  BY JobOf DEF TypeInv, JobTypes, JobTypeOK
<1> USE DEF TakeLabels, WorkLabels, JobLabels, NewJobLabels
<1>4. c \in Workers /\ pc[c] \in JobLabels => pc[c] \in {"lockJob"} \cup TakeLabels
  BY DEF JobInv, WorkersWork
<1>5. CASE \/ StrategyRequest(c) \/ ShowJobRequest(c) \/ WriteBackRequest(c)
           \/ RunStrategies(c) \/ ShowJob(c)
  <2>1. /\ pc'[c] \in {"runStrategies", "showJob", "readGroup", "createJob",
                       "readRuns", "idle"}
        /\ c \notin Workers /\ UNCHANGED jobVars
    BY <1>2, <1>4, <1>5
       DEF StrategyRequest, ShowJobRequest, WriteBackRequest, RunStrategies,
           ShowJob, Arrive, Visitors, Finish, ComesTo
  <2> QED  BY <1>1, <2>1, JobRests DEF jobVars, WorksOn, KeepsJob
<1>6. CASE CreateJob(c)
  <2>1. /\ pc[c] = "createJob" /\ pc'[c] = "idle" /\ c \notin Workers
        /\ UNCHANGED <<adrift, surpassed>>
    BY <1>2, <1>4, <1>6 DEF CreateJob, Finish, ComesTo
  <2>2. CASE Created = Groups
    BY <1>1, <1>6, <2>1, <2>2, JobRests DEF CreateJob, WorksOn, KeepsJob
  <2>3. CASE Created # Groups
    <3> DEFINE n == [status |-> IF r.managed THEN "processing" ELSE "pending",
                     attempts |-> 0, due |-> TRUE, round |-> 0,
                     managed |-> r.managed, answer |-> None]
    <3>1. r.managed \in BOOLEAN
      BY <2>1, FitsOf DEF TypeInv, JobFits, JobCall
    <3>2. /\ n \in Job /\ n.attempts = 0
          /\ n.status = "pending" \/ (n.status = "processing" /\ n.managed)
      BY <3>1 DEF Job, Statuses
    <3>3. WritesJob(NextId, n) /\ NextId \in Groups \ Created
      BY <1>6, <2>3, NextIdFound DEF CreateJob, WritesJob
    <3> HIDE DEF n
    <3> QED  BY <1>1, <2>1, <3>2, <3>3, JobMade
  <2> QED  BY <2>2, <2>3
<1>7. CASE ReadRuns(c)
  <2>1. /\ pc[c] = "readRuns" /\ UNCHANGED <<job, adrift>>
        /\ surpassed' = surpassed \ {c} /\ req'[c] = r
        /\ pc'[c] = IF j.answer = None THEN "ask" ELSE "markDone"
    BY <1>2, <1>7 DEF ReadRuns, Targets, ComesTo
  <2> QED  BY <1>1, <2>1, JobRests DEF WorksOn, KeepsJob
<1>8. CASE Ask(c)
  <2>1. PICK a \in Answers : Goto(c, "writeRuns", [r EXCEPT !.answer = a])
    BY <1>8 DEF Ask
  <2> DEFINE x == [r EXCEPT !.answer = a]
  <2>2. pc[c] = "ask" /\ UNCHANGED jobVars
    BY <1>8 DEF Ask
  <2>3. x.group = r.group /\ x.attempts = r.attempts
    BY <1>3, <2>2 DEF JobCall
  <2>4. pc'[c] = "writeRuns" /\ req'[c] = x
    BY <1>2, <2>1 DEF ComesTo
  <2> HIDE DEF x
  <2>5. c \notin surpassed => j.answer = None
    BY <2>2 DEF JobInv, AskOpen
  <2> QED
    BY <1>1, <2>2, <2>3, <2>4, <2>5, JobRests DEF WorksOn, KeepsJob, jobVars
<1>9. CASE WriteRuns(c)
  <2> DEFINE n == [j EXCEPT !.answer = r.answer]
  <2>1. /\ pc[c] = "writeRuns" /\ Surpasses(c) /\ adrift' = adrift
        /\ pc'[c] = "markDone" /\ req'[c] = r
    BY <1>2, <1>9 DEF WriteRuns, ComesTo
  <2>2. r.answer \in Answers /\ r.answer # None
    BY <2>1, FitsOf, NullIsNoJob DEF TypeInv, JobFits
  <2>3. /\ n \in Job /\ n.answer # None /\ n.attempts = j.attempts
        /\ n.round = j.round /\ n.managed = j.managed /\ n.status = j.status
    BY <1>3, <2>1, <2>2 DEF Job
  <2>4. WritesJob(r.group, n)
    BY <1>3, <1>9, <2>1 DEF WriteRuns, WritesJob
  <2> HIDE DEF n
  <2> QED  BY <1>1, <2>1, <2>3, <2>4, JobAnswered
<1>10. CASE MarkDone(c)
  <2> DEFINE n == [j EXCEPT !.status = "completed", !.due = TRUE]
  <2>1. /\ pc[c] = "markDone" /\ UNCHANGED <<adrift, surpassed>>
        /\ pc'[c] = "idle" /\ j.answer # None
    BY <1>2, <1>10 DEF MarkDone, Finish, ComesTo, JobInv, MarkedAnswered
  <2>2. /\ n \in Job /\ n.answer = j.answer /\ n.attempts = j.attempts
        /\ n.round = j.round /\ n.managed = j.managed /\ n.status = "completed"
    BY <1>3, <2>1 DEF Job, Statuses
  <2>3. WritesJob(r.group, n)
    BY <1>3, <1>10, <2>1 DEF MarkDone, WritesJob
  <2> HIDE DEF n
  <2> QED  BY <1>1, <2>1, <2>2, <2>3, JobAnswered
<1>11. CASE ReadGroup(c)
  <2>1. /\ pc[c] = "readGroup" /\ pc'[c] \in {"writeBack", "idle"}
        /\ UNCHANGED jobVars /\ c \notin Workers
    BY <1>2, <1>4, <1>11 DEF ReadGroup, Finish, ComesTo
  <2> QED  BY <1>1, <2>1, JobRests DEF WorksOn, KeepsJob, jobVars
<1>12. CASE WriteBack(c)
  <2> DEFINE n == [j EXCEPT !.answer = r.answer, !.status = "completed",
                            !.due = TRUE]
  <2>1. /\ pc[c] = "writeBack" /\ Surpasses(c) /\ adrift' = adrift
        /\ pc'[c] = "idle"
    BY <1>2, <1>12 DEF WriteBack, Finish, ComesTo
  <2>2. r.answer \in Answers /\ r.answer # None
    BY <2>1, FitsOf, NullIsNoJob DEF TypeInv, JobFits
  <2>3. /\ n \in Job /\ n.answer # None /\ n.attempts = j.attempts
        /\ n.round = j.round /\ n.managed = j.managed /\ n.status = "completed"
    BY <1>3, <2>1, <2>2 DEF Job, Statuses
  <2>4. WritesJob(r.group, n)
    BY <1>3, <1>12, <2>1 DEF WriteBack, WritesJob
  <2> HIDE DEF n
  <2> QED  BY <1>1, <2>1, <2>3, <2>4, JobAnswered
<1>13. CASE PickJob(c)
  <2>1. PICK g \in Groups :
           Ready(g) /\ Goto(c, "lockJob", [CallFor("work", g) EXCEPT
                                !.attempts = job[g].attempts + 1,
                                !.round = job[g].round])
    BY <1>13 DEF PickJob
  <2> DEFINE x == [CallFor("work", g) EXCEPT !.attempts = job[g].attempts + 1,
                                             !.round = job[g].round]
  <2>2. pc'[c] = "lockJob" /\ req'[c] = x
    BY <1>2, <2>1 DEF ComesTo
  <2>3. /\ x.group = g /\ x.round = job[g].round
        /\ x.attempts = job[g].attempts + 1
    BY DEF CallFor
  <2>4. job[g].round \in Nat
    BY <1>3, <2>1 DEF Ready, Exists, Job
  <2> HIDE DEF x
  <2>5. c \in Workers /\ pc[c] = "idle" /\ UNCHANGED jobVars
    BY <1>13 DEF PickJob
  <2> QED
    BY <1>1, <2>2, <2>3, <2>4, <2>5, JobRests DEF WorksOn, KeepsJob, jobVars
<1>14. CASE LockJob(c)
  <2>1. pc[c] = "lockJob" /\ UNCHANGED <<adrift, surpassed>>
    BY <1>14 DEF LockJob
  <2>2. CASE Finish(c) /\ UNCHANGED job
    BY <1>1, <1>2, <2>1, <2>2, JobRests DEF Finish, ComesTo, WorksOn, KeepsJob
  <2>3. CASE /\ Takeable(j, r) /\ Goto(c, "readRuns", r)
             /\ job' = [job EXCEPT ![r.group].status = "processing",
                                   ![r.group].attempts = @ + 1,
                                   ![r.group].due = TRUE]
    <3>1. WritesJob(r.group, [j EXCEPT !.status = "processing",
                                       !.attempts = @ + 1, !.due = TRUE])
      BY <1>3, <2>1, <2>3 DEF WritesJob, Job
    <3>2. pc'[c] = "readRuns" /\ req'[c] = r
      BY <1>2, <2>3 DEF ComesTo
    <3>3. j.status = "pending" /\ j.round = r.round
      BY <2>3 DEF Takeable
    <3> QED  BY <1>1, <2>1, <3>1, <3>2, <3>3, JobLocked
  <2> QED  BY <1>14, <2>2, <2>3 DEF LockJob
<1>15. CASE PutOff(c)
  <2> DEFINE e == r.attempts >= MaxAttempts
             n == [j EXCEPT !.status = IF e THEN "failed" ELSE "pending",
                            !.due = e, !.round = IF e THEN @ ELSE @ + 1]
  <2>1. /\ pc[c] = "putOff" /\ UNCHANGED <<adrift, surpassed>>
        /\ pc'[c] = "idle"
    BY <1>2, <1>15 DEF PutOff, Finish, ComesTo
  <2>2. WritesJob(r.group, n)
    BY <1>3, <1>15, <2>1 DEF PutOff, WritesJob
  <2>3. j \in Job /\ j.round \in Nat /\ r.attempts \in Nat
    BY <1>3, <2>1 DEF Job, JobCall
  <2>4. /\ n \in Job /\ n.attempts = j.attempts /\ n.answer = j.answer
        /\ n.status = (IF e THEN "failed" ELSE "pending")
        /\ n.round = IF e THEN j.round ELSE j.round + 1
    <3> DEFINE s == IF e THEN "failed" ELSE "pending"
               k == IF e THEN j.round ELSE j.round + 1
               m == [j EXCEPT !.status = s, !.due = e, !.round = k]
    <3>1. n = m
      OBVIOUS
    <3>2. e \in BOOLEAN
      OBVIOUS
    <3> HIDE DEF e
    <3>3. s \in Statuses /\ k \in Nat
      BY <2>3 DEF Statuses
    <3>4. n = m /\ s = (IF e THEN "failed" ELSE "pending")
          /\ k = (IF e THEN j.round ELSE j.round + 1)
      BY <3>1 DEF e
    <3> HIDE DEF n, s, k
    <3>5. /\ m \in Job /\ m.attempts = j.attempts /\ m.answer = j.answer
          /\ m.status = s /\ m.round = k
      BY <2>3, <3>2, <3>3 DEF Job
    <3> QED  BY <3>4, <3>5
  <2> HIDE DEF n
  <2>5. \/ n.status = "failed" /\ n.round = j.round
        \/ /\ n.status = "pending" /\ r.attempts < MaxAttempts
           /\ n.round = j.round + 1
    BY <2>3, <2>4, JobConstants
  <2> HIDE DEF e
  <2> QED  BY <1>1, <2>1, <2>2, <2>4, <2>5, JobPutOff
<1> QED
  BY <1>5, <1>6, <1>7, <1>8, <1>9, <1>10, <1>11, <1>12, <1>13, <1>14, <1>15
     DEF JobAction, JobStep, WorkStep

\* A worker that ends at a job leaves it on record.
LEMMA TakenIsAdrift ==
  ASSUME NEW C \in SUBSET Clients, GoAdrift(C), NEW c \in C, c \in Workers,
         pc[c] \in TakeLabels
  PROVE  req[c].group \in adrift'
  BY DEF GoAdrift, TakeLabels, WorkLabels

\* An exception.
LEMMA FailsKeepJobs ==
  ASSUME TypeInv, JobInv, NEW c \in Clients, Fails(c)
  PROVE  JobInv'
<1> USE DEF TakeLabels, WorkLabels, JobLabels, NewJobLabels, WorksOn, KeepsJob
<1>1. CallTypes /\ UNCHANGED <<job, surpassed>>
  BY DEF Fails, TypeInv
<1>2. CASE Handler(c) = "return"
  <2>1. CallFails(c) /\ GoAdrift({c})
    BY <1>2 DEF Fails, Leave
  <2>2. pc'[c] = "idle" /\ Alone(c)
    BY <1>1, <2>1, ComesThere DEF CallFails, ComesTo, Alone
  <2>3. adrift \subseteq adrift'
    BY <2>1 DEF GoAdrift
  <2>4. c \in Workers /\ pc[c] \in TakeLabels => req[c].group \in adrift'
    BY <2>1, TakenIsAdrift
  <2> QED  BY <1>1, <2>2, <2>3, <2>4, JobRests
<1>3. CASE Handler(c) # "return"
  <2>1. Throws(c, Handler(c), req[c]) /\ UNCHANGED adrift
    BY <1>3 DEF Fails
  <2>2. pc'[c] = Handler(c) /\ req'[c] = req[c] /\ Alone(c)
    BY <1>1, <2>1, ComesThere DEF ComesTo, Alone
  <2>3. CASE c \in Workers /\ pc[c] \in WorkLabels /\ Handler(c) = "putOff"
    BY <1>1, <2>1, <2>2, <2>3, JobRests
  <2>4. CASE /\ pc[c] \in {"runRefine", "storeRefined"} \cup ReadingLabels
             /\ Handler(c) \in {"failGroup", "showReplay"}
    <3>1. pc[c] \notin TakeLabels /\ pc'[c] \notin JobLabels
      BY <2>2, <2>4 DEF ReadingLabels
    <3> QED  BY <1>1, <2>1, <2>2, <3>1, JobRests
  <2> QED  BY <1>1, <1>3, <2>3, <2>4, HandlerOf
<1> QED  BY <1>2, <1>3

\* A process that dies.
LEMMA DiesKeepsJobs ==
  ASSUME TypeInv, JobInv, NEW C \in SUBSET Clients, Lose(C), GoAdrift(C),
         UNCHANGED <<job, surpassed>>
  PROVE  JobInv'
<1>1. \A d \in Clients : IF d \in C THEN pc'[d] = "idle"
                         ELSE pc'[d] = pc[d] /\ req'[d] = req[d]
  BY DEF Lose
<1>2. "idle" \notin TakeLabels \cup JobLabels \cup {"lockJob"}
  BY PagesApart DEF TakeLabels, WorkLabels, JobLabels
<1> USE TakeStored, ApiConstants DEF Created, Exists
<1>3. WorkersWork' /\ AtWorkFits' /\ OneAtWork'
  BY <1>1, <1>2 DEF JobInv, WorkersWork, AtWorkFits, OneAtWork
<1>4. LockFits' /\ AttemptsLeft'
  BY <1>1, <1>2 DEF JobInv, LockFits, AttemptsLeft
<1>5. ProcessingHeld'
  <2>1. \A c \in C : c \in Workers /\ pc[c] \in TakeLabels
                     => req[c].group \in adrift'
    BY TakenIsAdrift
  <2>2. adrift \subseteq adrift'
    BY DEF GoAdrift
  <2> QED  BY <1>1, <2>1, <2>2 DEF JobInv, ProcessingHeld
<1>6. MarkedAnswered' /\ CompletedIsInterpreted' /\ AskOpen'
  BY <1>1, <1>2 DEF JobInv, MarkedAnswered, CompletedIsInterpreted, AskOpen
<1> QED  BY <1>3, <1>4, <1>5, <1>6 DEF JobInv

\* The steps of the other pages.
LEMMA OthersKeepJobs ==
  ASSUME TypeInv, JobInv, NEW c \in Clients, NEW L,
         MovesIn(c, L), L \cap JobLabels = {}, UNCHANGED jobVars
  PROVE  JobInv'
<1>1. pc[c] \notin JobLabels /\ pc'[c] \notin JobLabels
  BY PagesApart DEF MovesIn
<1>2. /\ TakeLabels \subseteq JobLabels
      /\ pc'[c] \notin {"lockJob", "putOff", "markDone", "ask", "writeRuns"}
  BY <1>1 DEF TakeLabels, WorkLabels, JobLabels
<1> QED
  BY <1>1, <1>2, JobRests DEF MovesIn, Alone, jobVars, WorksOn, KeepsJob

\* Every step keeps the invariant of jobs.
LEMMA NextKeepsJobs ==
  ASSUME TypeInv, JobInv, [Next]_vars
  PROVE  JobInv'
<1>1. CallTypes
  BY DEF TypeInv
<1>2. ASSUME NEW c \in Clients,
             ReplayAction(c) \/ EvalAction(c) \/ StrategyAction(c),
             UNCHANGED jobVars
      PROVE  JobInv'
  <2>1. \/ MovesIn(c, ReplayLabels) \/ MovesIn(c, EvalLabels)
        \/ MovesIn(c, StrategyLabels)
    BY <1>1, <1>2, ReplayMoves, EvalMoves, StrategyMoves
  <2> QED  BY <1>2, <2>1, PagesApart, OthersKeepJobs
<1>3. CASE Dies
  <2>1. PICK C \in SUBSET Clients : Lose(C) /\ Leave(C)
    <3>1. Visitors \in SUBSET Clients /\ \A w \in Workers : {w} \in SUBSET Clients
      BY ApiConstants DEF Visitors
    <3> QED  BY <1>3, <3>1 DEF Dies
  <2> QED  BY <1>3, <2>1, DiesKeepsJobs DEF Dies, Leave
<1>4. CASE UNCHANGED vars
  BY <1>4
     DEF vars, apiVars, jobVars, JobInv, WorkersWork, AtWorkFits, OneAtWork,
         LockFits, AttemptsLeft, ProcessingHeld, MarkedAnswered,
         CompletedIsInterpreted, AskOpen, Created, Exists
<1> QED
  BY <1>2, <1>3, <1>4, StepsOf, JobActionKeeps, JobDue, FailsKeepJobs

\* It holds at the start.
LEMMA InitJobs ==
  ASSUME Init
  PROVE  JobInv
<1>1. Created = {} /\ pc = [c \in Clients |-> "idle"]
  BY DEF Init, ApiInit, JobInit, Created, Exists
<1>2. "idle" \notin TakeLabels \cup JobLabels \cup {"lockJob"}
  BY PagesApart DEF TakeLabels, WorkLabels, JobLabels
<1> QED
  BY <1>1, <1>2, ApiConstants, TakeStored
     DEF JobInv, WorkersWork, AtWorkFits, OneAtWork, LockFits, AttemptsLeft,
         ProcessingHeld, MarkedAnswered, CompletedIsInterpreted, AskOpen

\* ... and so always.
LEMMA AlwaysJobs == Spec => [](TypeInv /\ JobInv)
<1>1. Init => TypeInv /\ JobInv
  BY InitTyped, InitJobs
<1>2. TypeInv /\ JobInv /\ [Next]_vars => (TypeInv /\ JobInv)'
  BY NextTyped, NextKeepsJobs
<1> QED  BY <1>1, <1>2, PTL DEF Spec

-----------------------------------------------------------------------------
\* A job is completed only with its interpretation, although three writers meet
\* over it and the page and the worker write the status by id.
THEOREM CompletedOnlyInterpreted == Spec => []CompletedIsInterpreted
<1>1. JobInv => CompletedIsInterpreted
  BY DEF JobInv
<1> QED  BY <1>1, AlwaysJobs, PTL

\* A job is started at most MaxAttempts times: the count that was read before
\* the lock is the count of the row whenever the lock succeeds.
THEOREM AttemptsAlwaysBounded == Spec => []AttemptsBounded
<1>1. JobInv => AttemptsBounded
  BY DEF JobInv, AttemptsLeft, AttemptsBounded
<1> QED  BY <1>1, AlwaysJobs, PTL

\* One worker is at a group in phase refine and at a job in processing, unless
\* it ended there, or the Agent is to answer.
THEOREM WorkAlwaysHeldOnce == Spec => []WorkHeldOnce
<1>1. ASSUME TypeInv, ReplayInv, JobInv PROVE WorkHeldOnce
  <2> DEFINE R(h) == {w \in Workers : /\ pc[w] \in {"loadGroup", "runRefine",
                                                    "storeRefined", "failGroup"}
                                      /\ req[w].hash = h}
             J(g) == {w \in Workers : /\ pc[w] \in {"readRuns", "ask",
                                          "writeRuns", "markDone", "putOff"}
                                      /\ req[w].group = g}
  <2>1. ASSUME NEW h \in Stored, replay[h].phase = "refine", h \notin forsaken
        PROVE  Cardinality(R(h)) = 1
    <3>1. PICK w \in Clients : pc[w] \in HoldLabels /\ req[w].hash = h
      BY <1>1, <2>1 DEF ReplayInv, RefineHeld
    <3>2. R(h) = {w}
      BY <1>1, <3>1, ApiConstants
         DEF ReplayInv, WorkersHold, OneHolder, HoldLabels
    <3> QED  BY <3>2, FS_Singleton
  <2>2. ASSUME NEW g \in Created, job[g].status = "processing",
               g \notin adrift, ~job[g].managed
        PROVE  Cardinality(J(g)) = 1
    <3>1. PICK w \in Workers : pc[w] \in TakeLabels /\ req[w].group = g
      BY <1>1, <2>2 DEF JobInv, ProcessingHeld
    <3>2. J(g) = {w}
      BY <1>1, <3>1 DEF JobInv, OneAtWork, TakeLabels, WorkLabels
    <3> QED  BY <3>2, FS_Singleton
  <2> QED  BY <2>1, <2>2 DEF WorkHeldOnce
<1> QED  BY <1>1, AlwaysReplays, AlwaysJobs, PTL

\* What a step does to the interpretation of a replay that has one.
LEMMA ReadingStep ==
  ASSUME TypeInv, ReplayInv, Next, NEW h \in Stored,
         replay[h].reading # None, replay'[h].reading # replay[h].reading
  PROVE  \E c \in outrun : pc[c] = "writeSummary" /\ req[c].hash = h
<1>1. PICK c \in Clients : ReplayAction(c)
  BY StepsOf DEF replayVars, Fails, Dies
<1> DEFINE r == req[c]
           g == replay[r.hash]
<1>2. /\ h \in Hashes /\ replay[h] \in Group /\ replay[h].phase = "done"
      /\ replay \in [Hashes -> Group \cup {None}]
  BY DEF TypeInv, ReplayTypes, ReplayTypeOK, Stored, Born, ReplayInv, ReadingDone
<1> USE DEF HoldLabels, StoredLabels, ReplayLabels, ReadingLabels
<1>3. pc[c] \in StoredLabels => r.hash \in Hashes /\ g \in Group
  BY GroupOf
<1>4. CASE WriteSummary(c)
  <2>1. pc[c] = "writeSummary" /\ r.hash = h
    BY <1>2, <1>3, <1>4 DEF WriteSummary
  <2>2. c \in outrun
    BY <2>1 DEF ReplayInv, SeenOpen, AskLabels
  <2> QED  BY <2>1, <2>2
<1>5. CASE InsertGroup(c)
  <2>1. replay'[h] = replay[h]
    BY <1>2, <1>5 DEF InsertGroup, Stored
  <2> QED  BY <2>1
<1>6. CASE LockGroup(c) \/ FailGroup(c)
  <2>1. replay'[h].reading = replay[h].reading
    BY <1>2, <1>3, <1>6 DEF LockGroup, FailGroup, Group
  <2> QED  BY <2>1
<1>7. CASE StoreRefined(c) \/ StoreUnanswered(c)
  <2>1. g.phase = "refine"
    BY <1>7 DEF StoreRefined, StoreUnanswered, ReplayInv, HoldersFit
  <2>2. replay'[h] = replay[h]
    BY <1>2, <1>7, <2>1 DEF StoreRefined, StoreUnanswered
  <2> QED  BY <2>2
<1> QED
  BY <1>1, <1>4, <1>5, <1>6, <1>7
     DEF ReplayAction, ReplayStep, RefineStep, ReplayRequest, ShowRequest,
         FindGroup, RunFast, ShowReplay, ReadSummary, Interpret, PickGroup,
         LoadGroup, RunRefine, replayVars

\* What a step does to the interpretation of a job that has one.
LEMMA AnswerStep ==
  ASSUME TypeInv, JobInv, Next, NEW g \in Created,
         job[g].answer # None, job'[g].answer # job[g].answer
  PROVE  \E c \in Clients : /\ req[c] # None /\ req[c].group = g
                            /\ \/ pc[c] = "writeBack"
                               \/ pc[c] = "writeRuns" /\ c \in surpassed
<1>1. /\ g \in Groups /\ job[g] \in Job
      /\ job \in [Groups -> Job \cup {None}]
  BY DEF TypeInv, JobTypes, JobTypeOK, Created, Exists
<1>2. ASSUME NEW d \in Groups, ComesDue(d) PROVE FALSE
  BY <1>1, <1>2 DEF ComesDue, TypeInv, JobTypes, JobTypeOK, Exists, Job
<1>3. PICK c \in Clients : JobAction(c)
  BY <1>2, StepsOf DEF jobVars, Fails, Dies
<1> DEFINE r == req[c]
           j == job[r.group]
<1> USE DEF JobLabels, WorkLabels, NewJobLabels
<1>4. pc[c] \in JobLabels \ NewJobLabels => r.group \in Groups /\ j \in Job
  BY JobOf
<1>5. pc[c] \in JobLabels => r # None
  BY FitsTyped DEF TypeInv, CallTypes
<1>6. CASE WriteRuns(c) \/ WriteBack(c)
  <2>1. r.group = g /\ r # None /\ pc[c] \in {"writeRuns", "writeBack"}
    BY <1>1, <1>4, <1>5, <1>6 DEF WriteRuns, WriteBack
  <2>2. pc[c] = "writeRuns" => c \in surpassed
    BY <2>1 DEF JobInv, AskOpen
  <2> QED  BY <2>1, <2>2
<1>7. CASE CreateJob(c)
  <2>1. job'[g] = job[g]
    BY <1>1, <1>7, NextIdFound DEF CreateJob
  <2> QED  BY <2>1
<1>8. CASE LockJob(c) \/ MarkDone(c) \/ PutOff(c)
  <2>1. pc[c] \in JobLabels \ NewJobLabels
    BY <1>8 DEF LockJob, MarkDone, PutOff
  <2>2. /\ g \in Groups /\ r.group \in Groups /\ j \in Job
        /\ job \in [Groups -> Job \cup {None}]
    BY <1>1, <1>4, <2>1 DEF Created, TypeInv, JobTypes, JobTypeOK
  <2>3. CASE r.group # g
    BY <1>8, <2>2, <2>3 DEF LockJob, MarkDone, PutOff
  <2>4. CASE r.group = g
    <3>1. CASE LockJob(c)
      BY <2>2, <2>4, <3>1 DEF LockJob, Job
    <3>2. CASE MarkDone(c)
      BY <2>2, <2>4, <3>2 DEF MarkDone, Job
    <3>3. CASE PutOff(c)
      BY <2>2, <2>4, <3>3 DEF PutOff, Job
    <3> QED  BY <1>8, <3>1, <3>2, <3>3
  <2> QED  BY <2>3, <2>4
<1> QED
  BY <1>3, <1>6, <1>7, <1>8
     DEF JobAction, JobStep, WorkStep, StrategyRequest, ShowJobRequest,
         WriteBackRequest, RunStrategies, ShowJob, ReadRuns, Ask, ReadGroup,
         PickJob, jobVars

\* An interpretation that is there is not asked for again: it is replaced only
\* by a request that had looked before it was there, or by the Agent's own.
THEOREM ReadingsAlwaysStay == Spec => ReadingsStay
<1>1. TypeInv /\ ReplayInv /\ JobInv /\ [Next]_vars =>
        [ /\ \A h \in Stored :
                replay[h].reading # None /\ replay'[h].reading # replay[h].reading
                => \E c \in outrun : pc[c] = "writeSummary" /\ req[c].hash = h
          /\ \A g \in Created :
                job[g].answer # None /\ job'[g].answer # job[g].answer
                => \E c \in Clients : /\ req[c] # None /\ req[c].group = g
                                      /\ \/ pc[c] = "writeBack"
                                         \/ /\ pc[c] = "writeRuns"
                                            /\ c \in surpassed
        ]_vars
  BY ReadingStep, AnswerStep
<1> QED  BY <1>1, AlwaysReplays, AlwaysJobs, PTL DEF Spec, ReadingsStay


-----------------------------------------------------------------------------
(***************************************************************************)
(* Summaries.  The owner of a result that changed is not enough: each pair *)
(* of owner and scope is settled, or on the list of the request that       *)
(* changed it, which has counted the change as saved, or about to be       *)
(* deleted.                                                                *)
(***************************************************************************)
Settled(o, s) == \/ summary[o][s] = Counted(o, s)
                 \/ summary[o][s] = None /\ Counted(o, s) = NoItems

Owed(c, o, s) == \/ pc[c] = "deleteSummaries" /\ o \in req[c].owners
                 \/ /\ pc[c] \in BatchLabels \cup SummaryLabels
                    /\ req[c].saved > 0 /\ <<o, s>> \in req[c].touched

SummaryInv ==
    \A o \in Owners, s \in Scopes :
        Settled(o, s) \/ o \in lagging \/ \E c \in Clients : Owed(c, o, s)

\* A summary is computed from the results of its owner and stock alone.
LEMMA CountedKept ==
  ASSUME NEW o, NEW s,
         \A j \in HistoryRows :
            OwnerOf[j] = o /\ s \in {None, CodeOf[j]} => result'[j] = result[j]
  PROVE  Counted(o, s)' = Counted(o, s)
<1> DEFINE D == {j \in Within({o}) : result[j] # None /\ s \in {None, CodeOf[j]}}
<1>1. D' = D /\ \A j \in D : result'[j] = result[j]
  BY DEF Within
<1>2. Counted(o, s) = [i \in D |-> result[i]]
  BY DEF Counted
<1>3. Counted(o, s)' = [i \in D' |-> result'[i]]
  BY DEF Counted
<1> HIDE DEF D
<1> QED  BY <1>1, <1>2, <1>3

\* ... so the summary over all stocks tells whether any of them has results.
LEMMA NothingCounted ==
  ASSUME NEW o, NEW s, Counted(o, None) = NoItems
  PROVE  Counted(o, s) = NoItems
<1> DEFINE D(x) == {j \in Within({o}) : result[j] # None /\ x \in {None, CodeOf[j]}}
<1>1. \A x : Counted(o, x) = [i \in D(x) |-> result[i]]
  BY DEF Counted
<1>2. DOMAIN Counted(o, None) = {}
  BY DEF NoItems
<1>3. D(None) = {} /\ D(s) \subseteq D(None)
  BY <1>1, <1>2
<1>4. D(s) = {}
  BY <1>3
<1> HIDE DEF D
<1>5. Counted(o, s) = [i \in {} |-> result[i]]
  BY <1>1, <1>4
<1> QED  BY <1>5 DEF NoItems

\* A step of request c leaves what others owe, so it has to account for what it
\* unsettles and for what it owed.
LEMMA SummaryKept ==
  ASSUME SummaryInv, NEW c \in Clients,
         \A d \in Clients \ {c} : pc'[d] = pc[d] /\ req'[d] = req[d],
         lagging \subseteq lagging',
         \A o \in Owners, s \in Scopes :
            Settled(o, s) \/ Owed(c, o, s)
            => Settled(o, s)' \/ o \in lagging' \/ Owed(c, o, s)'
  PROVE  SummaryInv'
<1> SUFFICES ASSUME NEW o \in Owners, NEW s \in Scopes
             PROVE  Settled(o, s)' \/ o \in lagging'
                    \/ \E d \in Clients : Owed(d, o, s)'
  BY DEF SummaryInv
<1>1. \A d \in Clients \ {c} : Owed(d, o, s) => Owed(d, o, s)'
  BY DEF Owed
<1>2. Settled(o, s) \/ o \in lagging \/ \E d \in Clients : Owed(d, o, s)
  BY DEF SummaryInv
<1> HIDE DEF Owed, Settled
<1> QED  BY <1>1, <1>2

\* Where neither a result nor a summary changes, what is settled stays so.
LEMMA SettledStays ==
  ASSUME UNCHANGED <<result, summary>>, NEW o, NEW s
  PROVE  Settled(o, s)' <=> Settled(o, s)
<1>1. Counted(o, s)' = Counted(o, s)
  BY CountedKept
<1> QED  BY <1>1 DEF Settled
\* The steps of the page of evaluations.
LEMMA EvalActionKeeps ==
  ASSUME TypeInv, SummaryInv, NEW c \in Clients, EvalAction(c)
  PROVE  SummaryInv'
<1> DEFINE r == req[c]
<1>1. CallTypes /\ \A d \in Clients \ {c} : pc'[d] = pc[d] /\ req'[d] = req[d]
  BY EvalMoves DEF TypeInv, MovesIn
<1>2. \A l, x : ComesTo(c, l, x) => pc'[c] = l /\ req'[c] = x
  BY <1>1, ComesThere
<1>3. pc[c] \in EvalLabels => r \in EvalCall /\ r.saved \in Nat
                              /\ (pc[c] \in SummaryLabels => r.saved > 0)
  BY <1>1, FitsOf DEF EvalFits, EvalCall
<1>4. /\ result \in [HistoryRows -> Evals \cup {None}]
      /\ summary \in [Owners -> [Scopes -> Counts \cup {None}]]
  BY DEF TypeInv, EvalTypeOK
<1> USE DEF EvalLabels, BatchLabels, SummaryLabels
\* What c owes in a batch it goes on owing, as long as it keeps the list.
<1>5. ASSUME UNCHANGED evalVars, pc[c] \in EvalLabels \ {"deleteSummaries"},
             \/ /\ pc'[c] \in BatchLabels \cup SummaryLabels
                /\ req'[c].saved = r.saved /\ r.touched \subseteq req'[c].touched
             \/ r.saved = 0
      PROVE  SummaryInv'
  <2>1. \A o \in Owners, s \in Scopes : Owed(c, o, s) => Owed(c, o, s)'
    BY <1>5 DEF Owed
  <2>2. \A o \in Owners, s \in Scopes : Settled(o, s) => Settled(o, s)'
    BY <1>5, SettledStays DEF evalVars
  <2> QED  BY <1>1, <1>5, <2>1, <2>2, SummaryKept DEF evalVars
<1>6. CASE RunRequest(c) \/ RecomputeRequest(c)
  <2>1. UNCHANGED evalVars /\ pc[c] = "idle"
    BY <1>6 DEF RunRequest, RecomputeRequest, Arrive
  <2>2. \A o \in Owners, s \in Scopes : ~Owed(c, o, s)
    BY <2>1 DEF Owed
  <2>3. \A o \in Owners, s \in Scopes : Settled(o, s) => Settled(o, s)'
    BY <2>1, SettledStays DEF evalVars
  <2> QED  BY <1>1, <2>1, <2>2, <2>3, SummaryKept DEF evalVars
<1>7. CASE DeleteResults(c)
  <2>1. /\ pc[c] = "deleteResults" /\ pc'[c] = "deleteSummaries" /\ req'[c] = r
        /\ UNCHANGED <<summary, lagging>>
        /\ result' = [i \in HistoryRows |->
                        IF OwnerOf[i] \in r.owners THEN None ELSE result[i]]
    BY <1>2, <1>7 DEF DeleteResults, ComesTo
  <2> SUFFICES ASSUME NEW o \in Owners, NEW s \in Scopes, Settled(o, s)
               PROVE  Settled(o, s)' \/ Owed(c, o, s)'
    BY <1>1, <2>1, SummaryKept DEF Owed
  <2>2. CASE o \in r.owners
    BY <2>1, <2>2 DEF Owed
  <2>3. CASE o \notin r.owners
    <3>1. Counted(o, s)' = Counted(o, s)
      BY <2>1, <2>3, CountedKept
    <3> QED  BY <2>1, <3>1 DEF Settled
  <2> QED  BY <2>2, <2>3
<1>8. CASE DeleteSummaries(c)
  <2>1. /\ pc[c] = "deleteSummaries" /\ result' = result
        /\ lagging' = lagging \cup {o \in r.owners : Counted(o, None) # NoItems}
        /\ summary' = [o \in Owners |-> IF o \in r.owners
                                        THEN [s \in Scopes |-> None]
                                        ELSE summary[o]]
    BY <1>8 DEF DeleteSummaries
  <2> SUFFICES ASSUME NEW o \in Owners, NEW s \in Scopes,
                      Settled(o, s) \/ Owed(c, o, s)
               PROVE  Settled(o, s)' \/ o \in lagging'
    BY <1>1, <2>1, SummaryKept
  <2>2. Counted(o, s)' = Counted(o, s)
    BY <2>1, CountedKept
  <2>3. CASE o \in r.owners
    <3>1. summary'[o][s] = None
      BY <2>1, <2>3
    <3>2. Counted(o, None) = NoItems => Counted(o, s) = NoItems
      BY NothingCounted
    <3> QED  BY <2>1, <2>2, <2>3, <3>1, <3>2 DEF Settled
  <2>4. CASE o \notin r.owners
    <3>1. summary'[o] = summary[o] /\ Settled(o, s)
      BY <2>1, <2>4 DEF Owed
    <3> QED  BY <2>2, <3>1 DEF Settled
  <2> QED  BY <2>3, <2>4
<1>9. CASE ReadBatch(c)
  <2> DEFINE x == [r EXCEPT !.batch = FirstFew(Candidates(r), r)]
  <2>1. pc[c] = "readBatch" /\ UNCHANGED evalVars
    BY <1>9 DEF ReadBatch
  <2>2. x.saved = r.saved /\ x.touched = r.touched
    BY <1>3, <2>1 DEF EvalCall
  <2>3. \/ pc'[c] = "evaluate" /\ req'[c] = x
        \/ pc'[c] = "readRows" /\ req'[c] = r
        \/ r.saved = 0
    <3>1. \/ Goto(c, "evaluate", x) \/ Goto(c, "readRows", r) \/ ~(r.saved > 0)
      BY <1>9 DEF ReadBatch
    <3> QED  BY <1>2, <1>3, <2>1, <3>1 DEF ComesTo
  <2> HIDE DEF x
  <2> QED  BY <1>5, <2>1, <2>2, <2>3
<1>10. CASE Evaluate(c)
  <2>1. PICK got \in SUBSET r.batch :
           Goto(c, "saveItems", [r EXCEPT !.items = got, !.batch = {},
                                          !.cursor = Highest(r.batch)])
    BY <1>10 DEF Evaluate
  <2> DEFINE x == [r EXCEPT !.items = got, !.batch = {},
                            !.cursor = Highest(r.batch)]
  <2>2. pc[c] = "evaluate" /\ UNCHANGED evalVars
    BY <1>10 DEF Evaluate
  <2>3. x.saved = r.saved /\ x.touched = r.touched
    BY <1>3, <2>2 DEF EvalCall
  <2>4. pc'[c] = "saveItems" /\ req'[c] = x
    BY <1>2, <2>1 DEF ComesTo
  <2> HIDE DEF x
  <2> QED  BY <1>5, <2>2, <2>3, <2>4
<1>11. CASE SaveItem(c)
  <2> DEFINE i == NextItem(r)
  <2>1. /\ pc[c] = "saveItems" /\ r \in EvalCall /\ r.items # {}
        /\ UNCHANGED <<summary, lagging>>
    BY <1>3, <1>11 DEF SaveItem
  <2>2. PICK e \in Evals :
           /\ result' = [result EXCEPT ![i] = e]
           /\ Goto(c, "saveItems", [After(r, i, e) EXCEPT !.saved = @ + 1])
    BY <1>11 DEF SaveItem
  <2> DEFINE y == After(r, i, e)
             x == [y EXCEPT !.saved = @ + 1]
  <2>3. /\ y \in EvalCall /\ y.saved = r.saved /\ i \in HistoryRows
        /\ y.touched = r.touched \cup {<<OwnerOf[i], None>>,
                                       <<OwnerOf[i], CodeOf[i]>>}
    BY <2>1, ItemFound
  <2>4. pc'[c] = "saveItems" /\ req'[c] = x
    BY <1>2, <2>2 DEF ComesTo
  <2> HIDE DEF i, y
  <2>5. x.touched = y.touched /\ x.saved > 0
    BY <2>3 DEF EvalCall
  <2> HIDE DEF x
  <2> SUFFICES ASSUME NEW o \in Owners, NEW s \in Scopes,
                      Settled(o, s) \/ Owed(c, o, s)
               PROVE  Settled(o, s)' \/ Owed(c, o, s)'
    BY <1>1, <2>1, SummaryKept
  <2>6. CASE Owed(c, o, s)
    BY <2>1, <2>3, <2>4, <2>5, <2>6 DEF Owed
  <2>7. CASE o = OwnerOf[i] /\ s \in {None, CodeOf[i]}
    BY <2>3, <2>4, <2>5, <2>7 DEF Owed
  <2>8. CASE Settled(o, s) /\ ~(o = OwnerOf[i] /\ s \in {None, CodeOf[i]})
    <3>1. \A j \in HistoryRows \ {i} : result'[j] = result[j]
      BY <1>4, <2>2 DEF i
    <3>2. Counted(o, s)' = Counted(o, s)
      BY <2>8, <3>1, CountedKept
    <3> QED  BY <2>1, <2>8, <3>2 DEF Settled
  <2> QED  BY <2>6, <2>7, <2>8
<1>12. CASE SaveFails(c)
  <2>1. pc[c] = "saveItems" /\ r \in EvalCall /\ r.items # {} /\ UNCHANGED evalVars
    BY <1>3, <1>12 DEF SaveFails
  <2>2. PICK e \in Evals : Throws(c, "saveItems", After(r, NextItem(r), e))
    BY <1>12 DEF SaveFails
  <2> DEFINE x == After(r, NextItem(r), e)
  <2>3. x.saved = r.saved /\ r.touched \subseteq x.touched
    BY <2>1, ItemFound
  <2>4. pc'[c] = "saveItems" /\ req'[c] = x
    BY <1>2, <2>2 DEF ComesTo
  <2> HIDE DEF x
  <2> QED  BY <1>5, <2>1, <2>3, <2>4
<1>13. CASE Saved(c)
  <2>1. pc[c] = "saveItems" /\ UNCHANGED evalVars
    BY <1>13 DEF Saved
  <2>2. \/ pc'[c] \in {"readBatch", "readRows"} /\ req'[c] = r
        \/ r.saved = 0
    BY <1>2, <1>3, <1>13, <2>1 DEF Saved, ComesTo
  <2> QED  BY <1>5, <2>1, <2>2
<1>14. CASE ReadRows(c)
  <2> DEFINE x == [r EXCEPT !.rows = Counted(NextSummary(r)[1],
                                             NextSummary(r)[2])]
  <2>1. pc[c] = "readRows" /\ UNCHANGED evalVars /\ Goto(c, "writeRows", x)
    BY <1>14 DEF ReadRows
  <2>2. x.saved = r.saved /\ x.touched = r.touched
    BY <1>3, <2>1 DEF EvalCall
  <2>3. pc'[c] = "writeRows" /\ req'[c] = x
    BY <1>2, <2>1 DEF ComesTo
  <2> HIDE DEF x
  <2> QED  BY <1>5, <2>1, <2>2, <2>3
<1>15. CASE WriteRows(c)
  <2> DEFINE t == NextSummary(r)
             left == [r EXCEPT !.touched = @ \ {t}, !.rows = None]
  <2>1. /\ pc[c] = "writeRows" /\ r \in EvalCall /\ r.saved > 0
        /\ result' = result
        /\ summary' = [summary EXCEPT ![t[1]][t[2]] = r.rows]
        /\ lagging' = IF r.rows = Counted(t[1], t[2]) THEN lagging
                      ELSE lagging \cup {t[1]}
    BY <1>3, <1>15 DEF WriteRows
  <2>2. r.touched # {}
    BY <1>1, <2>1, FitsOf DEF EvalFits
  <2>3. /\ t = <<t[1], t[2]>> /\ t[1] \in Owners /\ t[2] \in Scopes
    BY <2>1, <2>2, SummaryFound
  <2>4. left.saved > 0 /\ left.touched = r.touched \ {t}
    BY <2>1 DEF EvalCall
  <2>5. left.touched # {} => pc'[c] = "readRows" /\ req'[c] = left
    BY <1>2, <1>15 DEF WriteRows, ComesTo
  <2> HIDE DEF left
  <2> SUFFICES ASSUME NEW o \in Owners, NEW s \in Scopes,
                      Settled(o, s) \/ Owed(c, o, s)
               PROVE  Settled(o, s)' \/ o \in lagging' \/ Owed(c, o, s)'
    BY <1>1, <2>1, SummaryKept
  <2>6. Counted(o, s)' = Counted(o, s)
    BY <2>1, CountedKept
  <2>7. CASE o = t[1] /\ s = t[2]
    <3>1. summary'[o][s] = r.rows
      BY <1>4, <2>1, <2>7
    <3> QED  BY <2>1, <2>6, <2>7, <3>1 DEF Settled
  <2>8. CASE <<o, s>> # t
    <3>1. summary'[o][s] = summary[o][s]
      BY <1>4, <2>1, <2>3, <2>8
    <3>2. Owed(c, o, s) => Owed(c, o, s)'
      BY <2>1, <2>4, <2>5, <2>8 DEF Owed
    <3> QED  BY <2>6, <3>1, <3>2 DEF Settled
  <2> QED  BY <2>3, <2>7, <2>8
<1> QED
  BY <1>6, <1>7, <1>8, <1>9, <1>10, <1>11, <1>12, <1>13, <1>14, <1>15
     DEF EvalAction, EvalStep

\* What is owed for a summary is owed by a request that counts its owner as not
\* yet summarised.
LEMMA OwedIsUnsummarised ==
  ASSUME NEW c, NEW o, NEW s, Owed(c, o, s)
  PROVE  o \in Unsummarised(c) /\ pc[c] \in EvalLabels
<1>1. CASE pc[c] = "deleteSummaries" /\ o \in req[c].owners
  BY <1>1 DEF Unsummarised, EvalLabels
<1>2. CASE pc[c] \in BatchLabels \cup SummaryLabels /\ <<o, s>> \in req[c].touched
  <2>1. <<o, s>>[1] = o
    OBVIOUS
  <2>2. Unsummarised(c) = {t[1] : t \in req[c].touched}
    BY <1>2 DEF Unsummarised, BatchLabels, SummaryLabels
  <2> QED  BY <1>2, <2>1, <2>2 DEF EvalLabels
<1> QED  BY <1>1, <1>2 DEF Owed

\* Requests that end leave the owners they owe a summary on record; those of
\* the other pages owe none.
LEMMA SummaryLeft ==
  ASSUME SummaryInv, UNCHANGED <<result, summary>>, NEW C \in SUBSET Clients,
         \A d \in Clients \ C : pc'[d] = pc[d] /\ req'[d] = req[d],
         \/ LagBehind(C)
         \/ lagging' = lagging /\ \A c \in C : pc[c] \notin EvalLabels
  PROVE  SummaryInv'
<1> SUFFICES ASSUME NEW o \in Owners, NEW s \in Scopes
             PROVE  \/ Settled(o, s) \/ o \in lagging'
                    \/ \E d \in Clients : Owed(d, o, s)'
  BY SettledStays DEF SummaryInv
<1>1. \/ Settled(o, s) \/ o \in lagging \/ \E d \in Clients : Owed(d, o, s)
  BY DEF SummaryInv
<1>2. lagging \subseteq lagging'
  BY DEF LagBehind
<1>3. ASSUME NEW d \in Clients, Owed(d, o, s)
      PROVE  o \in lagging' \/ Owed(d, o, s)'
  <2>1. CASE d \in C
    BY <1>3, <2>1, OwedIsUnsummarised DEF LagBehind
  <2>2. CASE d \notin C
    BY <1>3, <2>2 DEF Owed
  <2> QED  BY <2>1, <2>2
<1> QED  BY <1>1, <1>2, <1>3

\* An exception.
LEMMA FailsKeepSummaries ==
  ASSUME TypeInv, SummaryInv, NEW c \in Clients, Fails(c)
  PROVE  SummaryInv'
<1>1. CallTypes /\ UNCHANGED <<result, summary>>
  BY DEF Fails, TypeInv
<1>2. \E l, x : ComesTo(c, l, x)
  BY DEF Fails, ComesTo, CallFails
<1>3. \A d \in Clients \ {c} : pc'[d] = pc[d] /\ req'[d] = req[d]
  BY <1>1, <1>2, ComesThere
<1>4. LagBehind({c}) \/ (lagging' = lagging /\ pc[c] \notin EvalLabels)
  <2>1. CASE Handler(c) = "return"
    BY <2>1 DEF Fails, Leave
  <2>2. CASE Handler(c) # "return"
    <3>1. lagging' = lagging
      BY <2>2 DEF Fails
    <3>2. pc[c] \notin EvalLabels
      BY <1>1, <2>2, HandlerOf
         DEF ReadingLabels, WorkLabels, EvalLabels, BatchLabels, SummaryLabels
    <3> QED  BY <3>1, <3>2
  <2> QED  BY <2>1, <2>2
<1> QED  BY <1>1, <1>3, <1>4, SummaryLeft

\* Every step keeps the invariant of summaries.
LEMMA NextKeepsSummaries ==
  ASSUME TypeInv, SummaryInv, [Next]_vars
  PROVE  SummaryInv'
<1>1. CallTypes
  BY DEF TypeInv
<1>2. ASSUME NEW c \in Clients,
             ReplayAction(c) \/ JobAction(c) \/ StrategyAction(c),
             UNCHANGED evalVars
      PROVE  SummaryInv'
  <2>1. \/ MovesIn(c, ReplayLabels) \/ MovesIn(c, JobLabels)
        \/ MovesIn(c, StrategyLabels)
    BY <1>1, <1>2, ReplayMoves, JobMoves, StrategyMoves
  <2>2. pc[c] \notin EvalLabels
    BY <2>1, PagesApart DEF MovesIn
  <2>3. \A d \in Clients \ {c} : pc'[d] = pc[d] /\ req'[d] = req[d]
    BY <2>1 DEF MovesIn
  <2>4. {c} \in SUBSET Clients /\ \A d \in {c} : pc[d] \notin EvalLabels
    BY <2>2
  <2> QED  BY <1>2, <2>3, <2>4, SummaryLeft DEF evalVars
<1>3. CASE Dies
  <2>1. PICK C \in SUBSET Clients : Lose(C) /\ Leave(C)
    <3>1. Visitors \in SUBSET Clients /\ \A w \in Workers : {w} \in SUBSET Clients
      BY ApiConstants DEF Visitors
    <3> QED  BY <1>3, <3>1 DEF Dies
  <2>2. \A d \in Clients \ C : pc'[d] = pc[d] /\ req'[d] = req[d]
    BY <2>1 DEF Lose
  <2> QED  BY <1>3, <2>1, <2>2, SummaryLeft DEF Dies, Leave
<1>4. ASSUME UNCHANGED <<pc, req, evalVars>> PROVE SummaryInv'
  <2>1. /\ {} \in SUBSET Clients /\ \A c \in {} : pc[c] \notin EvalLabels
        /\ \A d \in Clients \ {} : pc'[d] = pc[d] /\ req'[d] = req[d]
    BY <1>4
  <2> QED  BY <1>4, <2>1, SummaryLeft DEF evalVars
<1>5. \A g \in Groups : ComesDue(g) => UNCHANGED <<pc, req>>
  BY DEF ComesDue, apiVars
<1>6. UNCHANGED vars => UNCHANGED <<pc, req, evalVars>>
  BY DEF vars, apiVars
<1> QED
  BY <1>2, <1>3, <1>4, <1>5, <1>6, StepsOf, EvalActionKeeps, FailsKeepSummaries

\* Every summary tells what the results of its owner say, once the request that
\* changed them is done: unless it failed on the way, or two of them crossed.
THEOREM SummariesAlwaysCurrent == Spec => []SummariesCurrent
<1>1. Init => SummaryInv
  <2> SUFFICES ASSUME Init, NEW o \in Owners, NEW s \in Scopes
               PROVE  Settled(o, s)
    BY DEF SummaryInv
  <2>1. result = [i \in HistoryRows |-> None] /\ summary[o][s] = None
    BY DEF Init, EvalInit
  <2>2. {j \in Within({o}) : result[j] # None /\ s \in {None, CodeOf[j]}} = {}
    BY <2>1 DEF Within
  <2>3. Counted(o, s) = NoItems
    BY <2>2 DEF Counted, NoItems
  <2> QED  BY <2>1, <2>3 DEF Settled
<1>2. TypeInv /\ SummaryInv /\ [Next]_vars => (TypeInv /\ SummaryInv)'
  BY NextTyped, NextKeepsSummaries
<1>3. SummaryInv => SummariesCurrent
  <2>1. \A c \in Clients, o \in Owners, s \in Scopes :
           Owed(c, o, s) => o \in Unsummarised(c)
    BY OwedIsUnsummarised
  <2> QED  BY <2>1 DEF SummaryInv, Settled, SummariesCurrent
<1> QED  BY <1>1, <1>2, <1>3, InitTyped, PTL DEF Spec

-----------------------------------------------------------------------------
(***************************************************************************)
(* Saved strategies.  An update that no other has overtaken since it read  *)
(* the row writes back what is there; a row that is deleted and made anew  *)
(* under an update does not come about, because an id is used once.  The   *)
(* rows and the drafts fit their templates, so that normalising a row once *)
(* more leaves it as it is.                                                *)
(***************************************************************************)
RowsFit ==
    /\ \A i \in Slots : strategy[i] # None => Fits(strategy[i])
    /\ \A c \in Clients : pc[c] \in {"insert", "update"} => Fits(req[c].row)

DraftFits ==
    \A c \in Clients \ overwrote :
        pc[c] = "update" /\ strategy[req[c].slot] # None
        => EditKept(req[c].edit, strategy[req[c].slot], req[c].row)

IdsUsedOnce ==
    \A c \in Clients :
        pc[c] = "insert" =>
            /\ strategy[req[c].slot] = None
            /\ \A d \in Clients \ {c} :
                  pc[d] \in StrategyLabels => req[d].slot # req[c].slot

DraftInv == RowsFit /\ DraftFits /\ IdsUsedOnce

\* Normalising accepted parameters makes some that are accepted, too, and that
\* normalising again does not change.
LEMMA NormalFits ==
  ASSUME NEW t \in Templates, NEW p \in Params, Accepted(t, p)
  PROVE  /\ Accepted(t, Normal(t, p))
         /\ Normal(t, Normal(t, p)) = Normal(t, p)
<1>1. CASE t = Dsl
  BY <1>1 DEF Normal, Accepted
<1>2. CASE t # Dsl
  <2> DEFINE q == Normal(t, p)
  <2>1. /\ FieldsOf[t] \subseteq Fields \ {Entry}
        /\ \A f \in FieldsOf[t] : /\ NumberOf(p, f) \in Nat
                                  /\ Least[f] \in Nat /\ Most[f] \in Nat
                                  /\ Whole(Least[f]) = Least[f]
    BY <1>2, StrategyConstants DEF NumberOf, Params
  <2>2. \A n \in Nat : /\ Whole(n) \in Nat /\ Whole(n) <= n
                       /\ Whole(Whole(n)) = Whole(n)
    BY DEF Whole
  <2>3. \A m, n \in Nat : m <= n => Whole(m) <= Whole(n)
    BY DEF Whole
  <2>4. \A f \in FieldsOf[t] : q[f] = Whole(NumberOf(p, f))
    BY <1>2, <2>1 DEF Normal
  <2>5. \A f \in FieldsOf[t] : NumberOf(q, f) = q[f]
    BY <2>1, <2>2, <2>4, StrategyConstants DEF NumberOf
  <2>6. Normal(t, q) = q
    <3>1. \A f \in FieldsOf[t] : Whole(NumberOf(q, f)) = Whole(NumberOf(p, f))
      BY <2>1, <2>2, <2>4, <2>5
    <3>2. Normal(t, q) = [f \in Fields |->
             IF f \in FieldsOf[t] THEN Whole(NumberOf(q, f)) ELSE None]
      BY <1>2 DEF Normal
    <3>3. q = [f \in Fields |->
             IF f \in FieldsOf[t] THEN Whole(NumberOf(p, f)) ELSE None]
      BY <1>2 DEF Normal
    <3> HIDE DEF q
    <3> QED  BY <3>1, <3>2, <3>3
  <2>7. \A f \in FieldsOf[t] : NumberOf(q, f) \in Least[f] .. Most[f]
    <3> SUFFICES ASSUME NEW f \in FieldsOf[t]
                 PROVE  q[f] \in Least[f] .. Most[f]
      BY <2>5
    <3>1. Least[f] <= NumberOf(p, f) /\ NumberOf(p, f) <= Most[f]
      BY <1>2, <2>1 DEF Accepted
    <3>2. Least[f] <= Whole(NumberOf(p, f))
      BY <2>1, <2>3, <3>1
    <3>3. /\ Whole(NumberOf(p, f)) \in Nat
          /\ Whole(NumberOf(p, f)) <= NumberOf(p, f)
      BY <2>1, <2>2
    <3> QED  BY <2>1, <2>4, <3>1, <3>2, <3>3
  <2>8. \A f, g \in FieldsOf[t] : <<f, g>> \in Below => q[f] < q[g]
    BY <1>2 DEF Accepted
  <2> HIDE DEF q
  <2>9. Accepted(t, q)
    BY <1>2, <2>6, <2>7, <2>8 DEF Accepted
  <2> QED  BY <2>6, <2>9 DEF q
<1> QED  BY <1>1, <1>2

\* The rows that there may be at the start, or that requests make, fit.
LEMMA NewRowsFit ==
  ASSUME NEW row \in Rows
  PROVE  Fits(row)
<1>1. PICK t \in Templates, n \in Names, p \in Given :
         Accepted(t, p) /\ row = RowOf(n, t, p)
  BY DEF Rows, RowsOf
<1>2. p \in Params
  BY StrategyConstants
<1> QED  BY <1>1, <1>2, NormalFits DEF RowOf, Fits

\* So does a draft, which keeps what the update does not name.
LEMMA DraftTakes ==
  ASSUME NEW e \in Edit, NEW row \in Strategy, Fits(row),
         Accepted(Merged(e, row).template, Merged(e, row).params)
  PROVE  /\ Fits(Draft(e, row))
         /\ EditKept(e, row, Draft(e, row))
<1> DEFINE m == Merged(e, row)
           d == Draft(e, row)
<1>1. m.template \in Templates /\ m.params \in Params /\ d \in Strategy
  BY DraftTyped
<1>2. /\ d.template = m.template /\ d.params = Normal(m.template, m.params)
      /\ d.name = m.name /\ d.description = m.description
  BY DEF Draft, Merged
<1>3. Fits(d)
  BY <1>1, <1>2, NormalFits DEF Fits
<1>4. /\ e.name = None => d.name = row.name
      /\ e.description = None => d.description = row.description
      /\ e.template = None => d.template = row.template
  <2>1. /\ e.name = None => m.name = row.name
        /\ e.description = None => m.description = row.description
        /\ e.template = None => m.template = row.template
    BY StrategyConstants DEF Merged
  <2> HIDE DEF m, d
  <2> QED  BY <1>2, <2>1
<1>5. ASSUME e.params = None
      PROVE  d.params = Normal(d.template, row.params)
  <2>1. m.params = row.params
    BY <1>5 DEF Merged
  <2> HIDE DEF m, d
  <2> QED  BY <1>2, <2>1
<1>6. d.template = row.template => Normal(d.template, row.params) = row.params
  BY DEF Fits
<1>7. d.template = Dsl => Normal(d.template, row.params) = row.params
  BY DEF Normal
<1>8. d.template # Dsl => \A f \in Fields :
         Normal(d.template, row.params)[f] =
            IF f \notin FieldsOf[d.template] THEN None
            ELSE IF row.params[f] = None THEN DefaultOf[f]
            ELSE Whole(row.params[f])
  BY <1>1, <1>2, StrategyConstants DEF Normal, NumberOf
<1> HIDE DEF m, d
<1>9. EditKept(e, row, d)
  BY <1>4, <1>5, <1>6, <1>7, <1>8 DEF EditKept
<1> QED  BY <1>3, <1>9 DEF d

\* Requests that end, or are of other pages.
LEMMA DraftLeft ==
  ASSUME DraftInv, UNCHANGED strategyVars, NEW C \in SUBSET Clients,
         \A d \in Clients \ C : pc'[d] = pc[d] /\ req'[d] = req[d],
         \A c \in C : pc'[c] \notin StrategyLabels
  PROVE  DraftInv'
<1>1. \A c \in C : pc'[c] \notin {"insert", "update"}
  BY DEF StrategyLabels
<1>2. DraftFits'
  BY <1>1 DEF DraftInv, DraftFits, strategyVars
<1>3. IdsUsedOnce'
  BY <1>1 DEF DraftInv, IdsUsedOnce, strategyVars
<1>4. RowsFit'
  BY <1>1 DEF DraftInv, RowsFit, strategyVars
<1> QED  BY <1>2, <1>3, <1>4 DEF DraftInv

\* The slot of a request for a saved strategy.
LEMMA SlotOf ==
  ASSUME TypeInv, NEW c \in Clients, pc[c] \in StrategyLabels
  PROVE  req[c] \in StrategyCall /\ req[c].slot \in Slots /\ req[c] # None
<1>1. req[c] \in StrategyCall /\ req[c].slot \in Slots
  BY FitsOf DEF TypeInv, StrategyFits, StrategyCall
<1>2. req[c] # None
  BY FitsTyped, PagesApart DEF TypeInv, CallTypes
<1> QED  BY <1>1, <1>2

\* The steps of the page of strategies.
LEMMA StrategyActionKeeps ==
  ASSUME TypeInv, DraftInv, NEW c \in Clients, StrategyAction(c)
  PROVE  DraftInv'
<1> DEFINE r == req[c]
<1>1. CallTypes /\ \A d \in Clients \ {c} : pc'[d] = pc[d] /\ req'[d] = req[d]
  BY StrategyMoves DEF TypeInv, MovesIn
<1>2. \A l, x : ComesTo(c, l, x) => pc'[c] = l /\ req'[c] = x
  BY <1>1, ComesThere
<1>3. strategy \in [Slots -> Strategy \cup {None}]
  BY DEF TypeInv, StrategyTypeOK
<1>4. \A d \in Clients : pc[d] \in StrategyLabels =>
         req[d] \in StrategyCall /\ req[d].slot \in Slots /\ req[d] # None
  BY SlotOf
<1>5. \A d \in Clients : pc[d] \in {"insert", "update", "require", "delete"}
                         <=> pc[d] \in StrategyLabels
  BY DEF StrategyLabels
<1>6. CASE NewStrategy(c)
  <2>1. PICK i \in Slots, s \in Rows :
           /\ strategy[i] = None
           /\ \A d \in Clients : req[d] # None => req[d].slot # i
           /\ Arrive(c, "insert", [op |-> "newStrategy", slot |-> i,
                                   edit |-> s, row |-> s])
    BY <1>6 DEF NewStrategy
  <2> DEFINE x == [op |-> "newStrategy", slot |-> i, edit |-> s, row |-> s]
  <2>2. pc'[c] = "insert" /\ req'[c] = x /\ x.slot = i /\ Fits(x.row)
    BY <1>2, <2>1, NewRowsFit DEF ComesTo
  <2> HIDE DEF x
  <2>3. UNCHANGED <<strategy, overwrote>>
    BY <1>6 DEF NewStrategy, strategyVars
  <2>4. DraftFits'
    BY <1>1, <2>2, <2>3 DEF DraftInv, DraftFits
  <2>5. IdsUsedOnce'
    BY <1>1, <1>4, <1>5, <2>1, <2>2, <2>3 DEF DraftInv, IdsUsedOnce
  <2>6. RowsFit'
    BY <1>1, <2>2, <2>3 DEF DraftInv, RowsFit
  <2> QED  BY <2>4, <2>5, <2>6 DEF DraftInv
<1>7. CASE EditStrategy(c) \/ RemoveStrategy(c)
  <2>1. PICK i \in Slots, o \in {"edit", "remove"}, e \in Edit :
           /\ strategy[i] # None
           /\ Arrive(c, "require", [op |-> o, slot |-> i, edit |-> e,
                                    row |-> None])
    <3>1. CASE EditStrategy(c)
      BY <3>1, EditsTyped DEF EditStrategy
    <3>2. CASE RemoveStrategy(c)
      BY <3>2, EditsTyped DEF RemoveStrategy
    <3> QED  BY <1>7, <3>1, <3>2
  <2> DEFINE x == [op |-> o, slot |-> i, edit |-> e, row |-> None]
  <2>2. pc'[c] = "require" /\ req'[c] = x /\ x.slot = i
    BY <1>2, <2>1 DEF ComesTo
  <2> HIDE DEF x
  <2>3. UNCHANGED <<strategy, overwrote>>
    BY <1>7 DEF EditStrategy, RemoveStrategy, strategyVars
  <2>4. DraftFits'
    BY <1>1, <2>2, <2>3 DEF DraftInv, DraftFits
  <2>5. IdsUsedOnce'
    BY <1>1, <1>4, <1>5, <2>1, <2>2, <2>3 DEF DraftInv, IdsUsedOnce
  <2>6. RowsFit'
    BY <1>1, <2>2, <2>3 DEF DraftInv, RowsFit
  <2> QED  BY <2>4, <2>5, <2>6 DEF DraftInv
<1>8. CASE InsertStrategy(c)
  <2>1. /\ pc[c] = "insert" /\ pc'[c] = "idle" /\ overwrote' = overwrote
        /\ r.slot \in Slots
        /\ strategy' \in {strategy, [strategy EXCEPT ![r.slot] = r.row]}
    BY <1>2, <1>4, <1>5, <1>8 DEF InsertStrategy, Finish, ComesTo
  <2>2. \A d \in Clients \ {c} : pc[d] \in {"insert", "update"} =>
           strategy'[req[d].slot] = strategy[req[d].slot]
    BY <1>3, <1>4, <1>5, <2>1 DEF DraftInv, IdsUsedOnce
  <2>3. DraftFits'
    BY <1>1, <2>1, <2>2 DEF DraftInv, DraftFits
  <2>4. IdsUsedOnce'
    BY <1>1, <1>5, <2>1, <2>2 DEF DraftInv, IdsUsedOnce, StrategyLabels
  <2>5. RowsFit'
    BY <1>1, <1>3, <2>1 DEF DraftInv, RowsFit
  <2> QED  BY <2>3, <2>4, <2>5 DEF DraftInv
<1>9. CASE RequireStrategy(c)
  <2> DEFINE row == strategy[r.slot]
             x == [r EXCEPT !.row = Draft(r.edit, row)]
  <2>1. /\ pc[c] = "require" /\ r \in StrategyCall /\ r.slot \in Slots
        /\ strategy' = strategy /\ overwrote' = overwrote \ {c}
    BY <1>4, <1>5, <1>9 DEF RequireStrategy
  <2>2. /\ x.slot = r.slot /\ x.edit = r.edit
        /\ x.row = Draft(r.edit, row)
    BY <2>1 DEF StrategyCall
  <2>3. \/ pc'[c] = "delete" /\ req'[c] = r
        \/ /\ pc'[c] = "update" /\ req'[c] = x
           /\ Fits(x.row) /\ EditKept(x.edit, row, x.row)
        \/ pc'[c] = "idle"
    <3>1. CASE row = None \/ r.op = "remove"
      BY <1>2, <1>9, <3>1 DEF RequireStrategy, Finish, ComesTo
    <3>2. CASE ~Accepted(Merged(r.edit, row).template,
                         Merged(r.edit, row).params)
      BY <1>2, <1>9, <3>2 DEF RequireStrategy, Finish, ComesTo
    <3>3. CASE /\ row # None /\ r.op # "remove"
               /\ Accepted(Merged(r.edit, row).template,
                           Merged(r.edit, row).params)
      <4>1. row \in Strategy /\ Fits(row) /\ r.edit \in Edit
        BY <1>3, <2>1, <3>3 DEF DraftInv, RowsFit, StrategyCall
      <4>2. Fits(Draft(r.edit, row)) /\ EditKept(r.edit, row, Draft(r.edit, row))
        BY <3>3, <4>1, DraftTakes
      <4>3. Goto(c, "update", x)
        BY <1>9, <3>3 DEF RequireStrategy
      <4> HIDE DEF x
      <4> QED  BY <1>2, <2>2, <4>2, <4>3 DEF ComesTo
    <3> QED  BY <3>1, <3>2, <3>3
  <2> HIDE DEF x
  <2>4. DraftFits'
    BY <1>1, <2>1, <2>2, <2>3 DEF DraftInv, DraftFits
  <2>5. IdsUsedOnce'
    BY <1>1, <1>5, <2>1, <2>2, <2>3 DEF DraftInv, IdsUsedOnce, StrategyLabels
  <2>6. RowsFit'
    BY <1>1, <2>1, <2>3 DEF DraftInv, RowsFit
  <2> QED  BY <2>4, <2>5, <2>6 DEF DraftInv
<1>10. CASE UpdateStrategy(c)
  <2>1. /\ pc[c] = "update" /\ pc'[c] = "idle" /\ r.slot \in Slots
        /\ \/ UNCHANGED <<strategy, overwrote>>
           \/ /\ strategy' = [strategy EXCEPT ![r.slot] = r.row]
              /\ strategy[r.slot] # None
              /\ overwrote' = overwrote \cup
                   {d \in Clients : /\ d # c /\ pc[d] = "update"
                                    /\ req[d].slot = r.slot}
    BY <1>2, <1>4, <1>5, <1>10
       DEF UpdateStrategy, Finish, ComesTo, strategyVars
  <2>2. \A d \in Clients \ {c} :
           \/ pc[d] = "insert"
           \/ pc[d] = "update" /\ d \notin overwrote'
           => strategy'[req[d].slot] = strategy[req[d].slot]
    BY <1>3, <1>4, <1>5, <2>1 DEF DraftInv, IdsUsedOnce
  <2>3. overwrote \subseteq overwrote'
    BY <2>1
  <2>4. DraftFits'
    BY <1>1, <2>1, <2>2, <2>3 DEF DraftInv, DraftFits
  <2>5. IdsUsedOnce'
    BY <1>1, <1>5, <2>1, <2>2 DEF DraftInv, IdsUsedOnce, StrategyLabels
  <2>6. RowsFit'
    BY <1>1, <1>3, <2>1 DEF DraftInv, RowsFit
  <2> QED  BY <2>4, <2>5, <2>6 DEF DraftInv
<1>11. CASE DeleteStrategy(c)
  <2>1. /\ pc[c] = "delete" /\ pc'[c] = "idle" /\ overwrote' = overwrote
        /\ r.slot \in Slots /\ strategy' = [strategy EXCEPT ![r.slot] = None]
    BY <1>2, <1>4, <1>5, <1>11 DEF DeleteStrategy, Finish, ComesTo
  <2>2. \A d \in Clients \ {c} : pc[d] \in StrategyLabels =>
           strategy'[req[d].slot] \in {None, strategy[req[d].slot]}
    BY <1>3, <1>4, <2>1
  <2>3. DraftFits'
    BY <1>1, <1>5, <2>1, <2>2 DEF DraftInv, DraftFits
  <2>4. IdsUsedOnce'
    BY <1>1, <1>5, <2>1, <2>2 DEF DraftInv, IdsUsedOnce, StrategyLabels
  <2>5. RowsFit'
    BY <1>1, <1>3, <2>1 DEF DraftInv, RowsFit
  <2> QED  BY <2>3, <2>4, <2>5 DEF DraftInv
<1> QED
  BY <1>6, <1>7, <1>8, <1>9, <1>10, <1>11 DEF StrategyAction, StrategyStep

\* Every step keeps the invariant of saved strategies.
LEMMA NextKeepsDrafts ==
  ASSUME TypeInv, DraftInv, [Next]_vars
  PROVE  DraftInv'
<1>1. CallTypes
  BY DEF TypeInv
<1>2. ASSUME NEW c \in Clients, UNCHANGED strategyVars,
             \A d \in Clients \ {c} : pc'[d] = pc[d] /\ req'[d] = req[d],
             pc'[c] \notin StrategyLabels
      PROVE  DraftInv'
  <2>1. {c} \in SUBSET Clients /\ \A d \in {c} : pc'[d] \notin StrategyLabels
    BY <1>2
  <2> QED  BY <1>2, <2>1, DraftLeft
<1>3. ASSUME NEW c \in Clients, ReplayAction(c) \/ JobAction(c) \/ EvalAction(c),
             UNCHANGED strategyVars
      PROVE  DraftInv'
  <2>1. \/ MovesIn(c, ReplayLabels) \/ MovesIn(c, JobLabels)
        \/ MovesIn(c, EvalLabels)
    BY <1>1, <1>3, ReplayMoves, JobMoves, EvalMoves
  <2>2. pc'[c] \notin StrategyLabels
    BY <2>1, PagesApart DEF MovesIn
  <2> QED  BY <1>2, <1>3, <2>1, <2>2 DEF MovesIn
<1>4. ASSUME NEW c \in Clients, Fails(c) PROVE DraftInv'
  <2>1. PICK l, x : ComesTo(c, l, x) /\ l \notin StrategyLabels
    <3>1. CASE Handler(c) = "return"
      BY <1>4, <3>1, PagesApart DEF Fails, ComesTo, CallFails
    <3>2. CASE Handler(c) # "return"
      <4>1. Handler(c) \notin StrategyLabels
        BY <1>1, <3>2, HandlerOf DEF StrategyLabels
      <4> QED  BY <1>4, <3>2, <4>1 DEF Fails, ComesTo
    <3> QED  BY <3>1, <3>2
  <2>2. /\ pc'[c] \notin StrategyLabels
        /\ \A d \in Clients \ {c} : pc'[d] = pc[d] /\ req'[d] = req[d]
    BY <1>1, <2>1, ComesThere
  <2> QED  BY <1>2, <1>4, <2>2 DEF Fails
<1>5. CASE Dies
  <2>1. PICK C \in SUBSET Clients : Lose(C)
    <3>1. Visitors \in SUBSET Clients /\ \A w \in Workers : {w} \in SUBSET Clients
      BY ApiConstants DEF Visitors
    <3> QED  BY <1>5, <3>1 DEF Dies
  <2>2. /\ \A d \in Clients \ C : pc'[d] = pc[d] /\ req'[d] = req[d]
        /\ \A d \in C : pc'[d] \notin StrategyLabels
    BY <2>1, PagesApart DEF Lose
  <2> QED  BY <1>5, <2>1, <2>2, DraftLeft DEF Dies
<1>6. ASSUME UNCHANGED <<pc, req, strategyVars>> PROVE DraftInv'
  BY <1>6 DEF DraftInv, RowsFit, DraftFits, IdsUsedOnce, strategyVars
<1>7. \A g \in Groups : ComesDue(g) => UNCHANGED <<pc, req>>
  BY DEF ComesDue, apiVars
<1>8. UNCHANGED vars => UNCHANGED <<pc, req, strategyVars>>
  BY DEF vars, apiVars
<1> QED
  BY <1>3, <1>4, <1>5, <1>6, <1>7, <1>8, StepsOf, StrategyActionKeeps

\* A saved strategy always fits its template, so that no run refuses it.  An
\* update takes back a field it did not name only when another update came
\* between its read and its write, and of the parameters drops and fills in only
\* what a new template makes necessary.
THEOREM EditsAlwaysKept == Spec => EditsKept
<1> DEFINE AllFit == \A i \in Slots : strategy[i] # None => Fits(strategy[i])
           Kept == \A c \in Clients :
            LET old == strategy[req[c].slot]
                new == strategy'[req[c].slot]
            IN  /\ pc[c] = "update" /\ pc'[c] = "idle" /\ c \notin overwrote
                /\ old # None /\ new # None
                => EditKept(req[c].edit, old, new)
<1>1. Init => DraftInv
  <2> SUFFICES ASSUME Init PROVE DraftInv
    OBVIOUS
  <2>1. \A c \in Clients : pc[c] = "idle"
    BY DEF Init, ApiInit
  <2>2. \A i \in Slots : strategy[i] # None => strategy[i] \in Rows
    BY DEF Init, StrategyInit
  <2>3. RowsFit
    BY <2>1, <2>2, NewRowsFit DEF RowsFit
  <2> QED  BY <2>1, <2>3 DEF DraftInv, DraftFits, IdsUsedOnce
<1>2. TypeInv /\ DraftInv /\ [Next]_vars => (TypeInv /\ DraftInv)'
  BY NextTyped, NextKeepsDrafts
<1>3. ASSUME TypeInv, DraftInv, [Next]_vars PROVE [Kept]_vars
  <2> SUFFICES ASSUME Next, NEW c \in Clients, pc[c] = "update",
                      c \notin overwrote, pc'[c] = "idle",
                      strategy[req[c].slot] # None,
                      strategy'[req[c].slot] # None
               PROVE  EditKept(req[c].edit, strategy[req[c].slot],
                               strategy'[req[c].slot])
    BY <1>3
  <2>1. CASE strategy'[req[c].slot] = strategy[req[c].slot]
    BY <2>1 DEF EditKept
  <2>2. CASE strategy'[req[c].slot] # strategy[req[c].slot]
    <3>1. PICK d \in Clients : StrategyAction(d)
      BY <2>2, StepsOf DEF strategyVars, Fails, Dies
    <3>2. d = c
      <4>1. MovesIn(d, StrategyLabels)
        BY <1>3, <3>1, StrategyMoves DEF TypeInv
      <4> QED  BY <4>1 DEF MovesIn
    <3>3. UpdateStrategy(c)
      BY <3>1, <3>2
         DEF StrategyAction, StrategyStep, NewStrategy, EditStrategy,
             RemoveStrategy, InsertStrategy, RequireStrategy, DeleteStrategy,
             Arrive
    <3>4. /\ strategy' = [strategy EXCEPT ![req[c].slot] = req[c].row]
          /\ req[c].slot \in Slots
      BY <1>3, <2>2, <3>3, SlotOf DEF UpdateStrategy, strategyVars, StrategyLabels
    <3>5. strategy'[req[c].slot] = req[c].row
      BY <1>3, <3>4 DEF TypeInv, StrategyTypeOK
    <3> QED  BY <1>3, <3>5 DEF DraftInv, DraftFits
  <2> QED  BY <2>1, <2>2
<1>4. DraftInv => AllFit
  BY DEF DraftInv, RowsFit
<1> QED  BY <1>1, <1>2, <1>3, <1>4, InitTyped, PTL DEF Spec, EditsKept

=============================================================================
