---------------------------- MODULE MarketStream ----------------------------
(***************************************************************************)
(* The market data stream: the loop that dials, authorizes again when the  *)
(* token has expired and waits between attempts                            *)
(* (src/internal/engine/broker/websocket.go, client.go), and the alarm     *)
(* that calls a person when the stream is down                             *)
(* (src/internal/engine/broker/stream_alarm.go).                           *)
(*                                                                         *)
(* Time passes in ticks, parts of a minute, while the loop waits or a      *)
(* session lasts; an attempt takes none.  The instants of the alarm are    *)
(* kept as ages.                                                           *)
(***************************************************************************)
EXTENDS Integers

CONSTANTS
    MaxBackoff,  \* maxBackoff
    AlertAfter,  \* streamDownAlertAfter
    AlertRepeat, \* streamAlertRepeat
    MinuteTicks, \* ticks of a minute, to which down rounds the outage
    DayLength,   \* ticks of a day and night
    NightFrom    \* the tick of the day at which the night begins

\* The alarm waits for whole minutes, and the day is long enough for an attempt
\* to fall into it after AlertAfter.
ASSUME MarketStreamAssumption ==
    /\ {MaxBackoff, AlertAfter, AlertRepeat, MinuteTicks} \subseteq Nat \ {0}
    /\ AlertAfter % MinuteTicks = 0
    /\ DayLength \in Nat /\ NightFrom \in (2 * MaxBackoff)..DayLength

VARIABLES
    phase,      \* what the loop is at
    backoff,    \* the next pause
    wait,       \* what is left of the pause
    network,    \* the server can be reached
    token,      \* the access token is accepted
    refresh,    \* the refresh token is accepted
    clock,      \* the time of day
    downSince,  \* streamAlarm.downSince, as an age, or Unset
    lastAlert,  \* streamAlarm.lastAlert, as an age, or Unset
    told,       \* what the person has been told last
    outage      \* how long there has been no session

loop == <<phase, backoff, wait>>
environment == <<network, token, refresh, clock>>
alarm == <<downSince, lastAlert, told>>
vars == <<loop, environment, alarm, outage>>

Unset == -1
Causes == {"network", "auth"}

\* isWSQuietPeriod
Night == clock >= NightFrom

-----------------------------------------------------------------------------
(* streamAlarm                                                             *)

\* Round(time.Minute): half a minute counts as one.
Rounded(age) ==
    LET rest == age % MinuteTicks
    IN  IF 2 * rest < MinuteTicks THEN age - rest ELSE age - rest + MinuteTicks

\* Seeded fault: every failure begins the outage anew.
Down_Restarts(cause) ==
    LET since  == 0
        silent == lastAlert # Unset /\ lastAlert < AlertRepeat
        raised == ~silent /\ (cause = "auth" \/ (Rounded(since) >= AlertAfter /\ ~Night))
    IN  /\ downSince' = since
        /\ lastAlert' = IF raised THEN 0 ELSE lastAlert
        /\ told' = IF raised THEN cause ELSE told

\* down: another attempt has failed.
Down(cause) ==
    LET since  == IF downSince = Unset THEN 0 ELSE downSince
        silent == lastAlert # Unset /\ lastAlert < AlertRepeat
        raised == ~silent /\ (cause = "auth" \/ (Rounded(since) >= AlertAfter /\ ~Night))
    IN  /\ downSince' = since
        /\ lastAlert' = IF raised THEN 0 ELSE lastAlert
        /\ told' = IF raised THEN cause ELSE told

\* Seeded fault: the alarm is reset before it is asked whether it was raised.
Up_ResetFirst == downSince' = Unset /\ lastAlert' = Unset /\ told' = told

\* Seeded fault: only the alert is reset.
Up_KeepsOutage ==
    /\ told' = IF lastAlert # Unset THEN "ok" ELSE told
    /\ lastAlert' = Unset
    /\ UNCHANGED downSince

\* up: the session stands; the all-clear goes out when there was an alert.
Up ==
    /\ told' = IF lastAlert # Unset THEN "ok" ELSE told
    /\ downSince' = Unset /\ lastAlert' = Unset

-----------------------------------------------------------------------------
(* SubscribeMarketDataFanOut                                               *)

Pause == phase' = "pause" /\ wait' = backoff

\* The handshake succeeds: onConnected.
Dial ==
    /\ phase = "dial" /\ network /\ token
    /\ phase' = "session" /\ Up /\ outage' = 0
    /\ UNCHANGED <<backoff, wait, environment>>

\* The handshake fails, for want of a network or with HTTP 401.
DialFails ==
    /\ phase = "dial" /\ ~network
    /\ Pause /\ Down("network")
    /\ UNCHANGED <<backoff, environment, outage>>

Unauthorized ==
    /\ phase = "dial" /\ network /\ ~token
    /\ phase' = "connect"
    /\ UNCHANGED <<backoff, wait, environment, alarm, outage>>

\* Seeded fault: the new access token is not stored.
Connect_TokenKept ==
    /\ phase = "connect" /\ network /\ refresh
    /\ phase' = "dial" /\ backoff' = 1
    /\ UNCHANGED <<wait, network, token, refresh, clock, alarm, outage>>

\* Connect gets a new access token: dial again without a pause.
Connect ==
    /\ phase = "connect" /\ network /\ refresh
    /\ token' = TRUE
    /\ phase' = "dial" /\ backoff' = 1
    /\ UNCHANGED <<wait, network, refresh, clock, alarm, outage>>

\* Connect fails; a network error counts as a refusal too.
ConnectFails ==
    /\ phase = "connect" /\ ~(network /\ refresh)
    /\ Pause /\ Down("auth")
    /\ UNCHANGED <<backoff, environment, outage>>

\* A session never ends without an error: the branch for one is dead code.
SessionEnds ==
    /\ phase = "session"
    /\ Pause /\ Down("network")
    /\ UNCHANGED <<backoff, environment, outage>>

\* Seeded fault: the pause doubles without a ceiling.
NextBackoff_Unbounded == 2 * backoff

NextBackoff == IF 2 * backoff > MaxBackoff THEN MaxBackoff ELSE 2 * backoff

Wake ==
    /\ phase = "pause" /\ wait = 0
    /\ phase' = "dial" /\ backoff' = NextBackoff
    /\ UNCHANGED <<wait, environment, alarm, outage>>

-----------------------------------------------------------------------------
(* Time and the world                                                      *)

Older(age, cap) == IF age = Unset \/ age = cap THEN age ELSE age + 1

Tick ==
    /\ \/ phase = "session" /\ UNCHANGED <<wait, outage>>
       \/ phase = "pause" /\ wait > 0 /\ wait' = wait - 1
             /\ outage' = Older(outage, AlertAfter)
    /\ clock' = (clock + 1) % DayLength
    /\ downSince' = Older(downSince, AlertAfter)
    /\ lastAlert' = Older(lastAlert, AlertRepeat)
    /\ UNCHANGED <<phase, backoff, network, token, refresh, told>>

NetworkChanges ==
    /\ network' = ~network
    /\ UNCHANGED <<loop, token, refresh, clock, alarm, outage>>

\* The access token lives for minutes, longer than an attempt takes; the refresh
\* token for 90 days.
TokenExpires ==
    /\ phase \in {"session", "pause"}
    /\ token /\ token' = FALSE
    /\ UNCHANGED <<loop, network, refresh, clock, alarm, outage>>

RefreshTokenExpires ==
    /\ refresh /\ refresh' = FALSE
    /\ UNCHANGED <<loop, network, token, clock, alarm, outage>>

-----------------------------------------------------------------------------
\* BuildDependencies has connected once before the loop begins.
Init ==
    /\ phase = "dial" /\ backoff = 1 /\ wait = 0
    /\ network = TRUE /\ token = TRUE /\ refresh = TRUE
    /\ clock \in 0..(DayLength - 1)
    /\ downSince = Unset /\ lastAlert = Unset /\ told = "ok"
    /\ outage = 0

Loop == Dial \/ DialFails \/ Unauthorized \/ Connect \/ ConnectFails \/ Wake

Next ==
    \/ Loop \/ SessionEnds \/ Tick
    \/ NetworkChanges \/ TokenExpires \/ RefreshTokenExpires

\* Calls return (every one has a timeout), time passes, and a session whose
\* network is gone ends at its read deadline.
Fairness == WF_vars(Loop) /\ WF_vars(Tick) /\ WF_vars(~network /\ SessionEnds)

Spec == Init /\ [][Next]_vars
FairSpec == Spec /\ Fairness

-----------------------------------------------------------------------------
\* Values have their types; no pause is longer than the ceiling.
TypeOK ==
    /\ phase \in {"dial", "connect", "session", "pause"}
    /\ backoff \in 1..MaxBackoff /\ wait \in 0..MaxBackoff
    /\ {network, token, refresh} \subseteq BOOLEAN
    /\ clock \in 0..(DayLength - 1)
    /\ downSince \in Unset..AlertAfter /\ lastAlert \in Unset..AlertRepeat
    /\ told \in {"ok"} \cup Causes
    /\ outage \in 0..AlertAfter

\* Once the stream is up, the person who was called has had the all-clear.
AllClearIsGiven == phase = "session" => told = "ok"

\* A break that is shorter than AlertAfter by more than half a minute calls
\* nobody, however many came before it: only a refused authorization does.
ShortBreaksAreSilent ==
    told = "network" => 2 * outage + MinuteTicks >= 2 * AlertAfter

\* A stream that stays down calls a person, at the latest when the night is over.
OutageIsAlerted == phase # "session" ~> (phase = "session" \/ told # "ok")

\* When the server can be reached and the refresh token is good, from some
\* moment on, there is a session again and again, whatever happened before.
Reconnects == <>[](network /\ refresh) => []<>(phase = "session")

\* stream_alarm.go and docs/architecture.md: a refused authorization is told at
\* once, for it does not heal by itself.
RefusalIsToldAtOnce ==
    [][phase = "connect" /\ ~refresh /\ phase' = "pause" => told' = "auth"]_vars
=============================================================================
