----------------------------- MODULE TradingSession -----------------------------
(***************************************************************************)
(* The trading session guard: whether an order may be placed now, and when *)
(* it may be next, told from a list of windows that recur on weekdays.  A  *)
(* day has few minutes here, and local time runs from Sunday 0:00; the     *)
(* exchange's time zone has no daylight saving.                            *)
(*                                                                         *)
(* The guard asks Intl for both hour12: false and hourCycle: 'h23'.  The   *)
(* first overrides the second, and the runtime then writes the hour after  *)
(* midnight as hour 24 of the day that begins: the guard reads the minutes *)
(* of that hour as past the end of the day.                                *)
(***************************************************************************)
EXTENDS Integers, SequencesExt

CONSTANTS
    DayLength,      \* bound: minutes of a day
    HourLength,     \* minutes of the hour after midnight
    ZoneOffset,     \* minutes of local time ahead of UTC
    MaxWindows      \* bound: windows of a day

ASSUME SessionConstants ==
    /\ DayLength \in Nat \ {0} /\ HourLength \in 1 .. DayLength
    /\ ZoneOffset \in Nat /\ MaxWindows \in Nat

VARIABLES
    sessions,   \* ANALYSIS_AUTO_ORDER_TRADING_SESSIONS, in the given order
    clock       \* the minute of the week it is

sessionVars == <<sessions, clock>>

\* parseTradingSessions drops the windows that do not end after they start.
\* Bound: a window ends with its day, as the default ones do.
Windows == {w \in [start : 0 .. DayLength, end : 0 .. DayLength] :
                w.end > w.start}

WeekLength == 7 * DayLength

SessionInit ==
    /\ sessions \in BoundedSeq(Windows, MaxWindows)
    /\ clock \in 0 .. WeekLength - 1

Tick == /\ clock' = (clock + 1) % WeekLength
        /\ UNCHANGED sessions

Weekday(m)   == m \div DayLength        \* 0 is Sunday
MinuteOf(m)  == m % DayLength
IsWeekend(m) == Weekday(m) \in {0, 6}

\* getZonedDateParts: the hour after midnight is read as hour 24, of its own
\* day; and the time the parts make when they are put together again.
InMidnightHour(m) == MinuteOf(m) < HourLength
ReadMinute(m) == MinuteOf(m) + (IF InMidnightHour(m) THEN DayLength ELSE 0)
ReadTime(m)   == m - MinuteOf(m) + ReadMinute(m)

InSession(m) ==
    /\ ~IsWeekend(m)
    /\ \E i \in DOMAIN sessions : /\ sessions[i].start <= ReadMinute(m)
                                  /\ ReadMinute(m) < sessions[i].end

\* evaluateTradingSessionGuard: without windows there is no guard.
Allowed(m) == sessions = <<>> \/ InSession(m)

\* Today it is the first window in the list that starts later, on another day
\* the first in the list.
CandidateStart_First(m, day) ==
    IF sessions = <<>> THEN {}
    ELSE IF day = 0
    THEN IF sessions[1].start > ReadMinute(m) THEN {sessions[1].start} ELSE {}
    ELSE {sessions[1].start}
CandidateStart(m, day) ==
    IF day = 0
    THEN LET later == SelectSeq(sessions, LAMBDA w : w.start > ReadMinute(m))
         IN  IF later = <<>> THEN {} ELSE {Head(later).start}
    ELSE IF sessions = <<>> THEN {} ELSE {Head(sessions).start}

\* buildUtcDateForLocalTime: the wanted local time is first taken for UTC, and
\* corrected four times by what the parts of the guess miss it by.
Corrected(wanted) ==
    LET guess[k \in 0 .. 4] ==
            IF k = 0 THEN wanted + ZoneOffset
            ELSE guess[k - 1] + wanted - ReadTime(guess[k - 1])
    IN  guess[4]

\* resolveNextOpenAt: minutes from m to the opening it announces, on one of 14
\* days, the first that is not of a weekend and has a candidate.
OpeningsOn(m, day) ==
    LET midnight == m - MinuteOf(m) + day * DayLength
    IN  IF Weekday(midnight % WeekLength) \in {0, 6} THEN {}
        ELSE {Corrected(midnight + s) - m : s \in CandidateStart(m, day)}

Wait(m) ==
    LET days == {d \in 0 .. 13 : OpeningsOn(m, d) # {}}
    IN  IF days = {} THEN -1
        ELSE CHOOSE w \in OpeningsOn(m, Min(days)) : TRUE

\* The minutes to the next time orders are allowed, looked for one by one.
NextAllowed(m) ==
    Min({k \in 1 .. WeekLength : Allowed((m + k) % WeekLength)})

\* The default lists its windows from morning to afternoon.
InOrder ==
    \A i \in 1 .. Len(sessions) - 1 : sessions[i].start <= sessions[i + 1].start

\* No window begins in the hour the guard takes for the end of the day.
AfterMidnightHour ==
    \A i \in DOMAIN sessions : sessions[i].start >= HourLength

SessionTypeOK ==
    /\ sessions \in Seq(Windows)
    /\ clock \in 0 .. WeekLength - 1

=============================================================================
