------------------------------ MODULE BarFeed ------------------------------
(***************************************************************************)
(* The way of a candle from the WebSocket to the strategies: the read loop *)
(* that dispatches an update to every route of its ticker                  *)
(* (src/internal/engine/broker/websocket.go), the barCloser of each route, *)
(* which turns updates of a forming bar into closed bars                   *)
(* (src/internal/engine/datafeed/barcloser.go), and the strategy that      *)
(* takes them.  Channels are bounded and sends block.                      *)
(*                                                                         *)
(* A bar is named by the time it begins at.  An update [time, at] is what  *)
(* the exchange said of the bar at the instant at; prices are left out, at *)
(* tells one update from another.                                          *)
(***************************************************************************)
EXTENDS Integers, Sequences

CONSTANTS
    Routes,     \* subscribers of one ticker and timeframe, one closer each
    BarDur,     \* the length of a bar
    CloseGrace, \* closeGrace
    RawCap,     \* buffer of the channel to a closer (64 in the code)
    OutCap,     \* buffer of the channel to a strategy (64 in the code)
    MaxDelay,   \* bound: how old an update may be when it arrives
    MaxBars     \* bound: how many bars the run covers

ASSUME BarFeedAssumption ==
    /\ Routes # {}
    /\ BarDur \in Nat \ {0} /\ CloseGrace \in Nat
    /\ RawCap \in Nat \ {0} /\ OutCap \in Nat \ {0}
    /\ MaxDelay \in Nat /\ MaxBars \in Nat \ {0}

VARIABLES
    now,        \* the wall clock
    sent,       \* bar -> instant of the last update the exchange sent, or -1
    msg,        \* the update being dispatched, or NoBar
    left,       \* the routes it has still to be sent to
    raw,        \* route -> updates on the way to its closer
    pending,    \* route -> closer's pending bar, or NoBar
    emitted,    \* route -> time of the last bar it closed, or -1
    sending,    \* route -> the closed bar its closer is sending, or NoBar
    out,        \* route -> closed bars on the way to the strategy
    handled,    \* route -> the bar the strategy has handled last, or NoBar
    cancelled

vars == <<now, sent, msg, left, raw, pending, emitted, sending, out, handled, cancelled>>

NoBar == [time |-> -1, at |-> -1]

Times == {k * BarDur : k \in 0..(MaxBars - 1)}

\* Long enough for the timer to close the last bar.
MaxTime == MaxBars * BarDur + CloseGrace

-----------------------------------------------------------------------------
(* The exchange and the read loop                                          *)

\* The exchange has an update of a bar, perhaps of one that is over, perhaps
\* for the second time.  Updates of different bars may overtake each other.
Receive ==
    /\ ~cancelled /\ msg = NoBar
    /\ \E t \in Times : \E at \in t..(t + BarDur - 1) :
          /\ at \in (now - MaxDelay)..now /\ at >= sent[t]
          /\ msg' = [time |-> t, at |-> at]
          /\ sent' = [sent EXCEPT ![t] = at]
    /\ left' = Routes
    /\ UNCHANGED <<now, raw, pending, emitted, sending, out, handled, cancelled>>

\* dispatchCandle blocks until the route has room.
Dispatch(r) ==
    /\ ~cancelled /\ msg # NoBar /\ r \in left
    /\ Len(raw[r]) < RawCap
    /\ raw' = [raw EXCEPT ![r] = Append(@, msg)]
    /\ left' = left \ {r}
    /\ msg' = IF left = {r} THEN NoBar ELSE msg
    /\ UNCHANGED <<now, sent, pending, emitted, sending, out, handled, cancelled>>

-----------------------------------------------------------------------------
(* barCloser                                                               *)

\* Seeded fault: updates of a bar that is closed already are not dropped.
Update_Replays(r, c) ==
    IF pending[r] = NoBar \/ c.time = pending[r].time
    THEN /\ pending' = [pending EXCEPT ![r] = c]
         /\ UNCHANGED <<emitted, sending>>
    ELSE IF c.time < pending[r].time
    THEN UNCHANGED <<pending, emitted, sending>>
    ELSE /\ sending' = [sending EXCEPT ![r] = pending[r]]
         /\ emitted' = [emitted EXCEPT ![r] = pending[r].time]
         /\ pending' = [pending EXCEPT ![r] = c]

\* Seeded fault: the first update of a bar is kept.
Update_KeepsFirst(r, c) ==
    IF c.time <= emitted[r]
    THEN UNCHANGED <<pending, emitted, sending>>
    ELSE IF pending[r] = NoBar
    THEN /\ pending' = [pending EXCEPT ![r] = c]
         /\ UNCHANGED <<emitted, sending>>
    ELSE IF c.time <= pending[r].time
    THEN UNCHANGED <<pending, emitted, sending>>
    ELSE /\ sending' = [sending EXCEPT ![r] = pending[r]]
         /\ emitted' = [emitted EXCEPT ![r] = pending[r].time]
         /\ pending' = [pending EXCEPT ![r] = c]

\* Seeded fault: a newer bar takes the place of the pending one, unsent.
Update_Loses(r, c) ==
    /\ pending' = IF c.time > emitted[r] /\ c.time >= pending[r].time
                  THEN [pending EXCEPT ![r] = c] ELSE pending
    /\ UNCHANGED <<emitted, sending>>

\* update: a newer bar closes the pending one; the past is dropped.
Update(r, c) ==
    IF c.time <= emitted[r]
    THEN UNCHANGED <<pending, emitted, sending>>
    ELSE IF pending[r] = NoBar \/ c.time = pending[r].time
    THEN /\ pending' = [pending EXCEPT ![r] = c]
         /\ UNCHANGED <<emitted, sending>>
    ELSE IF c.time < pending[r].time
    THEN UNCHANGED <<pending, emitted, sending>>
    ELSE /\ sending' = [sending EXCEPT ![r] = pending[r]]
         /\ emitted' = [emitted EXCEPT ![r] = pending[r].time]
         /\ pending' = [pending EXCEPT ![r] = c]

\* The closer is at its select.
Ready(r) == ~cancelled /\ sending[r] = NoBar

ReadUpdate(r) ==
    /\ Ready(r) /\ raw[r] # <<>>
    /\ Update(r, Head(raw[r]))
    /\ raw' = [raw EXCEPT ![r] = Tail(@)]
    /\ UNCHANGED <<now, sent, msg, left, out, handled, cancelled>>

\* Seeded fault: the timer counts from the beginning of the bar.
Due_FromStart(r) == pending[r] # NoBar /\ now >= pending[r].time + CloseGrace

Due(r) == pending[r] # NoBar /\ now >= pending[r].time + BarDur + CloseGrace

\* flush, on the timer.
Flush(r) ==
    /\ Ready(r) /\ Due(r)
    /\ sending' = [sending EXCEPT ![r] = pending[r]]
    /\ emitted' = [emitted EXCEPT ![r] = pending[r].time]
    /\ pending' = [pending EXCEPT ![r] = NoBar]
    /\ UNCHANGED <<now, sent, msg, left, raw, out, handled, cancelled>>

Send(r) ==
    /\ ~cancelled /\ sending[r] # NoBar /\ Len(out[r]) < OutCap
    /\ out' = [out EXCEPT ![r] = Append(@, sending[r])]
    /\ sending' = [sending EXCEPT ![r] = NoBar]
    /\ UNCHANGED <<now, sent, msg, left, raw, pending, emitted, handled, cancelled>>

\* The strategy takes a closed bar.
Handle(r) ==
    /\ ~cancelled /\ out[r] # <<>>
    /\ handled' = [handled EXCEPT ![r] = Head(out[r])]
    /\ out' = [out EXCEPT ![r] = Tail(@)]
    /\ UNCHANGED <<now, sent, msg, left, raw, pending, emitted, sending, cancelled>>

-----------------------------------------------------------------------------
Advance ==
    /\ ~cancelled /\ now < MaxTime
    /\ now' = now + 1
    /\ UNCHANGED <<sent, msg, left, raw, pending, emitted, sending, out, handled, cancelled>>

\* The context is cancelled: every loop returns.
Cancel ==
    /\ ~cancelled /\ cancelled' = TRUE
    /\ UNCHANGED <<now, sent, msg, left, raw, pending, emitted, sending, out, handled>>

Stopped == cancelled /\ UNCHANGED vars

Init ==
    /\ now = 0 /\ cancelled = FALSE
    /\ sent = [t \in Times |-> -1]
    /\ msg = NoBar /\ left = {}
    /\ raw = [r \in Routes |-> <<>>] /\ out = [r \in Routes |-> <<>>]
    /\ pending = [r \in Routes |-> NoBar] /\ emitted = [r \in Routes |-> -1]
    /\ sending = [r \in Routes |-> NoBar] /\ handled = [r \in Routes |-> NoBar]

Closer(r) == ReadUpdate(r) \/ Send(r)

Next ==
    \/ Receive \/ Advance \/ Cancel \/ Stopped
    \/ \E r \in Routes : Dispatch(r) \/ Closer(r) \/ Flush(r) \/ Handle(r)

\* Goroutines that can go on do; the closer's select does not starve its timer.
Fairness ==
    /\ WF_vars(Advance)
    /\ \A r \in Routes :
          WF_vars(Dispatch(r)) /\ WF_vars(Closer(r)) /\ SF_vars(Flush(r)) /\ WF_vars(Handle(r))

Spec == Init /\ [][Next]_vars
FairSpec == Spec /\ Fairness

-----------------------------------------------------------------------------
Updates == [time : Int, at : Int]

\* Values have their types, the buffers their capacity, and an update is being
\* dispatched exactly while a route is left.
TypeOK ==
    /\ now \in Nat /\ cancelled \in BOOLEAN
    /\ sent \in [Times -> Int]
    /\ msg \in Updates /\ left \subseteq Routes /\ (msg = NoBar <=> left = {})
    /\ raw \in [Routes -> Seq(Updates)] /\ out \in [Routes -> Seq(Updates)]
    /\ \A r \in Routes : Len(raw[r]) <= RawCap /\ Len(out[r]) <= OutCap
    /\ pending \in [Routes -> Updates] /\ emitted \in [Routes -> Int]
    /\ sending \in [Routes -> Updates] /\ handled \in [Routes -> Updates]

\* A strategy decides on closed bars only: the bar it has been given is over.
OnlyClosedBars ==
    \A r \in Routes : handled[r] # NoBar => handled[r].time + BarDur <= now

\* No bar comes twice or after a later one, whatever is resent.
BarsInOrder ==
    [][\A r \in Routes : handled'[r] # handled[r] => handled'[r].time > handled[r].time]_vars

\* A bar is closed by the last of its updates: when the one a closer sends is
\* not the last the exchange has sent, the last one is still on its way to it.
ClosedByLastUpdate ==
    [][\A r \in Routes :
          LET bar == sending'[r]
              last == [time |-> bar.time, at |-> sent[bar.time]] IN
          bar # sending[r] /\ bar # NoBar =>
             \/ bar = last
             \/ \E i \in DOMAIN raw[r] : raw[r][i] = last
             \/ msg = last /\ r \in left]_vars

\* No bar is lost: one that is pending is given to the strategy, by the next
\* bar or, in silence, by the timer.
EveryBarCloses ==
    \A r \in Routes, t \in Times :
        pending[r].time = t ~> (handled[r].time = t \/ cancelled)
=============================================================================
