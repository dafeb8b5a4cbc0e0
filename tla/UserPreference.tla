---------------------------- MODULE UserPreference ----------------------------
(***************************************************************************)
(* The preference entity: which channels may carry an event to its owner,  *)
(* and when.  No state of its own.                                         *)
(***************************************************************************)
EXTENDS Integers

CONSTANTS
    EventTypes,    \* values of event.eventType
    MinutesPerDay, \* 24 * 60
    Null

Channels == {"EMAIL", "IN_APP"}
Minute == 0 .. (MinutesPerDay - 1)

ASSUME PreferenceAssumption ==
    /\ MinutesPerDay \in Nat \ {0}
    /\ Null \notin Minute

\* quietHoursStart and quietHoursEnd after parseTimeToMinutes, which gives null
\* for a text that is not a time of day.
Preference == [optInChannels: SUBSET Channels, disabledEventTypes: SUBSET EventTypes,
               start: Minute \cup {Null}, end: Minute \cup {Null}]

\* isInsideQuietHours: from start to end, end excluded, over midnight if start
\* is the later of the two, all day if they are equal.
InsideQuietHours(pref, minute) ==
    /\ pref.start # Null /\ pref.end # Null
    /\ \/ pref.start = pref.end
       \/ pref.start < pref.end /\ minute >= pref.start /\ minute < pref.end
       \/ pref.start > pref.end /\ (minute >= pref.start \/ minute < pref.end)

\* canReceiveEventVia.
CanReceiveEventVia(pref, type, channel, minute) ==
    /\ type \notin pref.disabledEventTypes
    /\ channel \in pref.optInChannels
    /\ ~InsideQuietHours(pref, minute)
=============================================================================
