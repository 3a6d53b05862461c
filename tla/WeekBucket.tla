----------------------------- MODULE WeekBucket -----------------------------
(***************************************************************************)
(* _week_bucket_label of sync/organize.py: the week under which a file is  *)
(* put into the final tree, by a rollover of a weekday and an hour that    *)
(* config.yaml gives.                                                      *)
(*                                                                         *)
(* Time is counted in hours since a Monday's midnight: minutes decide      *)
(* nothing, for the rollover is at a full hour.  The label YYYY-WW of the  *)
(* ISO calendar is the number of the week; labels sort as weeks do.        *)
(***************************************************************************)
EXTENDS Integers

CONSTANTS
    Weekdays,       \* the boundary weekdays that may be configured, Monday 0
    Hours,          \* the boundary hours
    LastHour        \* how long the clock is followed

ASSUME WeekAssumption ==
    /\ Weekdays \subseteq 0..6
    /\ Hours \subseteq 0..23
    /\ LastHour \in Nat

VARIABLES
    weekday, hour,  \* week_boundary_weekday and week_boundary_hour_local
    now             \* the time of the shot at hand; shots come in order

weekVars == <<weekday, hour, now>>

Sunday == 6

WeekdayOf(t) == (t \div 24) % 7
HourOf(t)    == t % 24

\* isocalendar's week.
IsoWeek(t) == t \div 168

\* Mutant: the boundary hour itself is not past the rollover.
PastRolloverLate(t) == WeekdayOf(t) = weekday /\ HourOf(t) > hour

\* The boundary day, at or after the boundary hour.
PastRollover(t) == WeekdayOf(t) = weekday /\ HourOf(t) >= hour

DaysToNextMonday(t) ==
    IF (7 - WeekdayOf(t)) % 7 = 0 THEN 7 ELSE (7 - WeekdayOf(t)) % 7

Label(t) == IsoWeek(IF PastRollover(t) THEN t + 24 * DaysToNextMonday(t) ELSE t)

-----------------------------------------------------------------------------
WeekInit ==
    /\ weekday \in Weekdays
    /\ hour \in Hours
    /\ now = 0

\* An hour later.
Tick ==
    /\ now < LastHour
    /\ now' = now + 1
    /\ UNCHANGED <<weekday, hour>>

\* The clock is followed no longer.
Stop == now = LastHour /\ UNCHANGED weekVars

WeekNext == Tick \/ Stop

WeekSpec == WeekInit /\ [][WeekNext]_weekVars

-----------------------------------------------------------------------------
(* Correctness.                                                            *)

WeekTypeOK == weekday \in 0..6 /\ hour \in 0..23 /\ now \in Nat

\* With the rollover on a Sunday a later shot is never filed under an earlier
\* week, and none is skipped.  (On another weekday the day after the rollover is
\* filed under the old week again.)
NeverBack ==
    [][weekday = Sunday => Label(now') \in {Label(now), Label(now) + 1}]_weekVars

\* The reference: weeks that begin at the rollover instead of at Monday's
\* midnight, numbered by the ISO week they reach into.
WeekSinceRollover(t) == (t + 168 - (24 * weekday + hour)) \div 168

\* With the rollover on a Sunday the label is the number of rollovers so far.
LabelIsWeekSinceRollover ==
    weekday = Sunday => Label(now) = WeekSinceRollover(now)

\* On every weekday the label is the week of the day, or, from the boundary hour
\* to the end of the boundary day, the next one.
AtMostOneWeekAhead ==
    /\ Label(now) = IsoWeek(now) + (IF PastRollover(now) THEN 1 ELSE 0)
    /\ WeekSinceRollover(now) - Label(now) \in {0, 1}
=============================================================================
