---------------------------- MODULE SessionClock ----------------------------
(***************************************************************************)
(* The trading window of an experiment, SessionClock                       *)
(* (src/internal/engine/session.go).  A session is a record                *)
(*   open   session_open_time, in minutes of the day                       *)
(*   delay  entry_delay_minutes                                            *)
(*   eod    eod_close_time                                                 *)
(*   days   the days on which it trades (weekdays_only / weekend_only)     *)
(* and an instant is a record [day, minute] in the session's timezone.     *)
(***************************************************************************)
EXTENDS Integers

DayAllowed(session, now) == now.day \in session.days

\* New positions may be opened: after open + delay and before EOD.
EntriesAllowed(session, now) ==
    /\ DayAllowed(session, now)
    /\ now.minute < session.eod
    /\ now.minute >= session.open + session.delay

\* Seeded fault: off by one at the EOD minute.
ShouldForceClose_Strict(session, now) ==
    DayAllowed(session, now) /\ now.minute > session.eod

\* Open positions must be closed: from EOD to the end of the day.
ShouldForceClose(session, now) ==
    DayAllowed(session, now) /\ now.minute >= session.eod

\* The day has begun: from the opening on, with no upper end.
IsSessionOpen(session, now) ==
    DayAllowed(session, now) /\ now.minute >= session.open
=============================================================================
