---------------------------- MODULE MarketHours ----------------------------
(***************************************************************************)
(* What GET /market/status says of the market's hours: whether it is open, *)
(* from an answer that is kept for a while, and next to it when it closes  *)
(* or opens and its phase, worked out from the clock when the answer is    *)
(* made.  The clock counts steps of Argentina's time, from a Sunday on.    *)
(***************************************************************************)
EXTENDS Naturals

CONSTANTS
    Opening,    \* 10:00, as steps of a day
    Closing,    \* 17:00
    LastRun,    \* 18:00, up to which the jobs run and the market counts as open
    StepsOfDay, \* steps of a day
    KeptFor,    \* how long the answer is kept: 30 seconds, which are a step here
    LastWall    \* bound: the clock stops here

ASSUME HoursAssumption ==
    /\ Opening \in Nat /\ Closing \in Nat /\ LastRun \in Nat /\ StepsOfDay \in Nat /\ LastWall \in Nat
    /\ Opening < Closing /\ Closing <= LastRun /\ LastRun < StepsOfDay
    /\ KeptFor \in Nat \ {0}
    /\ 7 * StepsOfDay <= LastWall + 1

VARIABLES
    wall,       \* the clock
    keptStatus, \* the answer that is kept: whether the market was open, and how long it is used
    asking,     \* a request: since when, and the status it got
    hours       \* what the last request was told

hoursVars == <<wall, keptStatus, asking, hours>>

Never == LastWall + 9 * StepsOfDay
Sunday == 0
Saturday == 6
WeekdayOf(t) == (t \div StepsOfDay) % 7
Weekend(t) == WeekdayOf(t) \in {Sunday, Saturday}
TimeOf(t) == t % StepsOfDay
DayOf(t) == t - TimeOf(t)

\* The server starts at any moment of the week.
HoursInit ==
    /\ wall \in 0 .. 7 * StepsOfDay - 1
    /\ keptStatus = [open |-> FALSE, until |-> 0]
    /\ asking = [pc |-> "idle", since |-> 0, open |-> FALSE]
    /\ hours = [at |-> Never, open |-> FALSE, closes |-> Never, next |-> Never, phase |-> "CLOSED"]

\* isArgentineMarketOpen: the whole hour from 17:00 on counts.
MarketOpen(t) == ~Weekend(t) /\ Opening <= TimeOf(t) /\ TimeOf(t) < LastRun

\* getMarketStatus.
ReadStatus ==
    /\ asking.pc = "idle"
    /\ keptStatus' = IF wall < keptStatus.until THEN keptStatus
                     ELSE [open |-> MarketOpen(wall), until |-> wall + KeptFor]
    /\ asking' = [pc |-> "status", since |-> wall, open |-> keptStatus'.open]
    /\ UNCHANGED <<wall, hours>>

\* Mutant of NextMorning: Saturday is a day like others.
NextMorning_Saturday(t) == DayOf(t) + StepsOfDay + Opening

\* The next day, or Monday after a Friday.
NextMorning(t) == DayOf(t) + Opening + (IF WeekdayOf(t + StepsOfDay) = Saturday THEN 3 ELSE 1) * StepsOfDay

MondayOpen(t) == DayOf(t) + (IF WeekdayOf(t) = Sunday THEN 1 ELSE 2) * StepsOfDay + Opening

\* buildNextOpenAndClose.
NextOpenAndClose(open, t) ==
    CASE Weekend(t) -> [closes |-> Never, next |-> MondayOpen(t)]
      [] ~Weekend(t) /\ open -> [closes |-> DayOf(t) + Closing, next |-> Never]
      [] ~Weekend(t) /\ ~open /\ TimeOf(t) < Opening -> [closes |-> Never, next |-> DayOf(t) + Opening]
      [] OTHER -> [closes |-> Never, next |-> NextMorning(t)]

\* resolveMarketPhase.
PhaseOf(open, t) ==
    CASE open -> "CONTINUOUS_TRADING"
      [] ~open /\ Weekend(t) -> "CLOSED_WEEKEND"
      [] ~open /\ ~Weekend(t) /\ TimeOf(t) < Opening -> "PRE_OPEN"
      [] ~open /\ ~Weekend(t) /\ TimeOf(t) >= Closing -> "POST_CLOSE"
      [] OTHER -> "CLOSED"

TellHours ==
    /\ asking.pc = "status"
    /\ LET fields == NextOpenAndClose(asking.open, wall) IN
       hours' = [at |-> wall, open |-> asking.open, closes |-> fields.closes, next |-> fields.next,
                 phase |-> PhaseOf(asking.open, wall)]
    /\ asking' = [asking EXCEPT !.pc = "idle"]
    /\ UNCHANGED <<wall, keptStatus>>

\* A request is answered within a step.
WallPasses ==
    /\ wall < LastWall
    /\ asking.pc = "status" => wall = asking.since
    /\ wall' = wall + 1
    /\ UNCHANGED <<keptStatus, asking, hours>>

HoursNext == ReadStatus \/ TellHours \/ WallPasses

HoursSpec == HoursInit /\ [][HoursNext]_hoursVars
-----------------------------------------------------------------------------
(* Types: the clock, the status that is kept, and what was told. *)
HoursTypeOK ==
    /\ wall \in 0..LastWall
    /\ keptStatus \in [open : BOOLEAN, until : Nat]
    /\ asking \in [pc : {"idle", "status"}, since : 0..LastWall, open : BOOLEAN]
    /\ hours.at \in Nat /\ hours.next \in Nat /\ hours.closes \in Nat

Told == hours.at # Never

\* When the market opens after t, and when it closes.
Opens(t) == CHOOSE s \in t + 1 .. t + 4 * StepsOfDay :
    /\ ~Weekend(s) /\ TimeOf(s) = Opening
    /\ \A r \in t + 1 .. s - 1 : Weekend(r) \/ TimeOf(r) # Opening

\* MarketController: whatever the moment and however old the kept status, the opening that is
\* named is the next one that there is, and when none is named the closing is that of the day;
\* the market is as it is said to be, or was within the time for which its status is kept; and a
\* phase of neither trading nor rest is told only when the market has just opened.
OpeningIsNext ==
    Told =>
        /\ hours.next # Never => hours.next = Opens(hours.at)
        /\ hours.next # Never \/ hours.closes = DayOf(hours.at) + Closing
        /\ \E t \in 0..hours.at : t + KeptFor >= hours.at /\ MarketOpen(t) = hours.open
        /\ hours.phase = "CLOSED" => MarketOpen(hours.at)
=============================================================================
