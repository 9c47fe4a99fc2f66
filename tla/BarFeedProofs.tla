--------------------------- MODULE BarFeedProofs ---------------------------
(***************************************************************************)
(* For any number of routes, any bar length and any buffers, a strategy is *)
(* given only bars that are over, each once, in order and complete.        *)
(***************************************************************************)
EXTENDS BarFeed, TLAPS

\* u is an update that has been made, of its own bar.
Arrived(u) ==
    /\ u.time \in Times
    /\ u.time <= u.at /\ u.at < u.time + BarDur /\ u.at <= now

\* b is a bar that is over.
Over(b) == b.time \in Times /\ b.time + BarDur <= now

\* What is on its way to a closer, or waits in it, has arrived.
UpdatesArrived ==
    /\ msg # NoBar => Arrived(msg)
    /\ \A r \in Routes :
          /\ \A i \in 1..Len(raw[r]) : Arrived(raw[r][i])
          /\ pending[r] # NoBar => Arrived(pending[r]) /\ pending[r].time > emitted[r]

\* What has left a closer is over.
ClosedBarsOver ==
    \A r \in Routes :
        /\ sending[r] # NoBar => Over(sending[r])
        /\ \A i \in 1..Len(out[r]) : Over(out[r][i])
        /\ handled[r] # NoBar => Over(handled[r])

\* The bars handled, in the channel and being sent go forward.
Ordered ==
    \A r \in Routes :
        /\ \A i, j \in 1..Len(out[r]) : i < j => out[r][i].time < out[r][j].time
        /\ \A i \in 1..Len(out[r]) :
              handled[r].time < out[r][i].time /\ out[r][i].time <= emitted[r]
        /\ sending[r] # NoBar =>
              /\ sending[r].time = emitted[r] /\ handled[r].time < sending[r].time
              /\ \A i \in 1..Len(out[r]) : out[r][i].time < sending[r].time
        /\ handled[r].time <= emitted[r]

IInv == TypeOK /\ UpdatesArrived /\ ClosedBarsOver /\ Ordered

-----------------------------------------------------------------------------
(* Instants                                                                *)

\* Bars begin at natural numbers.
LEMMA TimesAreNat == Times \subseteq Nat
BY BarFeedAssumption DEF Times

\* A later bar begins when the earlier one is over, or after that.
LEMMA LaterBar ==
    ASSUME NEW s \in Times, NEW t \in Times, s < t
    PROVE  s + BarDur <= t
<1>1. PICK j \in 0..(MaxBars - 1) : s = j * BarDur
  BY DEF Times
<1>2. PICK k \in 0..(MaxBars - 1) : t = k * BarDur
  BY DEF Times
<1>3. j \in Nat /\ k \in Nat /\ BarDur \in Nat /\ BarDur > 0
  BY BarFeedAssumption
<1>4. j < k
  BY <1>1, <1>2, <1>3
<1>5. (j + 1) * BarDur <= k * BarDur
  BY <1>3, <1>4
<1>6. (j + 1) * BarDur = j * BarDur + BarDur
  BY <1>3
<1> QED
  BY <1>1, <1>2, <1>3, <1>5, <1>6

\* NoBar is no update of a bar.
LEMMA NoBarIsNone ==
    ASSUME NEW u \in Updates, u.time \in Times
    PROVE  u # NoBar
BY TimesAreNat DEF NoBar, Updates

\* What a channel holds are updates, with their two numbers.
LEMMA InChannel ==
    ASSUME NEW q \in Seq(Updates), NEW i \in 1..Len(q)
    PROVE  q[i] \in Updates /\ q[i].time \in Int
<1>1. q[i] \in Updates
  OBVIOUS
<1> QED
  BY <1>1 DEF Updates

\* The times of typed updates are integers.
LEMMA BarTimes ==
    ASSUME TypeOK, NEW r \in Routes
    PROVE  /\ pending[r] \in Updates /\ sending[r] \in Updates /\ handled[r] \in Updates
           /\ pending[r].time \in Int /\ sending[r].time \in Int /\ handled[r].time \in Int
           /\ raw[r] \in Seq(Updates) /\ out[r] \in Seq(Updates)
           /\ \A i \in 1..Len(raw[r]) : raw[r][i] \in Updates /\ raw[r][i].time \in Int
           /\ \A i \in 1..Len(out[r]) : out[r][i] \in Updates /\ out[r][i].time \in Int
           /\ Len(raw[r]) \in Nat /\ Len(out[r]) \in Nat
<1>1. /\ pending[r] \in Updates /\ sending[r] \in Updates /\ handled[r] \in Updates
      /\ raw[r] \in Seq(Updates) /\ out[r] \in Seq(Updates)
  BY DEF TypeOK
<1>2. pending[r].time \in Int /\ sending[r].time \in Int /\ handled[r].time \in Int
  BY <1>1 DEF Updates
<1>3. /\ \A i \in 1..Len(raw[r]) : raw[r][i] \in Updates /\ raw[r][i].time \in Int
      /\ \A i \in 1..Len(out[r]) : out[r][i] \in Updates /\ out[r][i].time \in Int
  BY <1>1, InChannel
<1>4. Len(raw[r]) \in Nat /\ Len(out[r]) \in Nat
  BY <1>1
<1> QED
  BY <1>1, <1>2, <1>3, <1>4

-----------------------------------------------------------------------------
(* The invariant                                                           *)

\* The feed starts empty.
LEMMA InitInv == Init => IInv
<1> SUFFICES ASSUME Init PROVE IInv
  OBVIOUS
<1>1. <<>> \in Seq(Updates) /\ Len(<<>>) = 0 /\ NoBar \in Updates /\ NoBar.time = -1
  BY DEF Updates, NoBar
<1>2. \A r \in Routes :
          /\ raw[r] = <<>> /\ out[r] = <<>> /\ emitted[r] = -1
          /\ pending[r] = NoBar /\ sending[r] = NoBar /\ handled[r] = NoBar
  BY DEF Init
<1>a. \A r \in Routes : Len(raw[r]) = 0 /\ Len(out[r]) = 0
  BY <1>1, <1>2, Zenon
<1>b. \A r \in Routes :
          /\ raw[r] \in Seq(Updates) /\ Len(raw[r]) = 0 /\ 1..Len(raw[r]) = {}
          /\ out[r] \in Seq(Updates) /\ Len(out[r]) = 0 /\ 1..Len(out[r]) = {}
  <2> SUFFICES ASSUME NEW r \in Routes
               PROVE  /\ raw[r] \in Seq(Updates) /\ Len(raw[r]) = 0 /\ 1..Len(raw[r]) = {}
                      /\ out[r] \in Seq(Updates) /\ Len(out[r]) = 0 /\ 1..Len(out[r]) = {}
    OBVIOUS
  <2>1. raw[r] \in Seq(Updates) /\ out[r] \in Seq(Updates)
    BY <1>1, <1>2
  <2>2. Len(raw[r]) = 0 /\ Len(out[r]) = 0
    BY <1>a
  <2>3. 1..0 = {}
    OBVIOUS
  <2> QED
    BY <2>1, <2>2, <2>3, Zenon
<1>3. TypeOK
  <2>1. raw \in [Routes -> Seq(Updates)] /\ out \in [Routes -> Seq(Updates)]
    BY <1>1 DEF Init
  <2>2. \A r \in Routes : Len(raw[r]) <= RawCap /\ Len(out[r]) <= OutCap
    <3>1. 0 <= RawCap /\ 0 <= OutCap
      BY BarFeedAssumption
    <3> QED
      BY <1>b, <3>1, Zenon
  <2>3. sent \in [Times -> Int] /\ emitted \in [Routes -> Int]
    BY DEF Init
  <2>4. /\ pending \in [Routes -> Updates] /\ sending \in [Routes -> Updates]
        /\ handled \in [Routes -> Updates] /\ msg \in Updates
    BY <1>1 DEF Init
  <2> QED
    BY <2>1, <2>2, <2>3, <2>4 DEF Init, TypeOK
<1>4. UpdatesArrived
  BY <1>1, <1>2 DEF Init, UpdatesArrived
<1>5. ClosedBarsOver
  BY <1>1, <1>2, <1>b DEF ClosedBarsOver
<1>6. Ordered
  <2>1. \A r \in Routes : handled[r].time = -1 /\ emitted[r] = -1 /\ sending[r] = NoBar
    BY <1>1, <1>2, Zenon
  <2>2. -1 <= -1
    OBVIOUS
  <2> QED
    BY <1>b, <2>1, <2>2, Zenon DEF Ordered
<1> QED
  BY <1>3, <1>4, <1>5, <1>6 DEF IInv

\* A message taken from the socket.
LEMMA ReceiveInv == IInv /\ Receive => IInv'
<1> SUFFICES ASSUME IInv, Receive PROVE IInv'
  OBVIOUS
<1> USE DEF IInv
<1>1. PICK t \in Times : \E at \in t..(t + BarDur - 1) :
          /\ at \in (now - MaxDelay)..now
          /\ msg' = [time |-> t, at |-> at]
          /\ sent' = [sent EXCEPT ![t] = at]
  BY DEF Receive
<1>2. PICK at \in t..(t + BarDur - 1) :
          /\ at \in (now - MaxDelay)..now
          /\ msg' = [time |-> t, at |-> at]
          /\ sent' = [sent EXCEPT ![t] = at]
  BY <1>1
<1>3. t \in Nat /\ at \in Int /\ BarDur \in Nat /\ now \in Nat
  BY TimesAreNat, BarFeedAssumption DEF TypeOK
<1>4. msg' \in Updates /\ msg' # NoBar
  BY <1>2, <1>3 DEF Updates, NoBar
<1>5. TypeOK'
  BY <1>2, <1>3, <1>4, BarFeedAssumption DEF TypeOK, Receive
<1>6. UpdatesArrived'
  <2>1. Arrived(msg)'
    BY <1>2, <1>3 DEF Arrived, Receive
  <2> QED
    BY <2>1 DEF UpdatesArrived, Arrived, Receive
<1>7. ClosedBarsOver' /\ Ordered'
  BY DEF ClosedBarsOver, Over, Ordered, Receive
<1> QED
  BY <1>5, <1>6, <1>7

\* A candle handed to the channel of a route.
LEMMA DispatchInv == ASSUME NEW r \in Routes PROVE IInv /\ Dispatch(r) => IInv'
<1> SUFFICES ASSUME IInv, Dispatch(r) PROVE IInv'
  OBVIOUS
<1> USE DEF IInv
<1>1. raw[r] \in Seq(Updates) /\ msg \in Updates /\ NoBar \in Updates
  BY DEF TypeOK, Updates, NoBar
<1>2. raw'[r] = Append(raw[r], msg) /\ \A s \in Routes : s # r => raw'[s] = raw[s]
  BY DEF Dispatch, TypeOK
<1>3. TypeOK'
  <2>1. raw' \in [Routes -> Seq(Updates)]
    BY <1>1 DEF Dispatch, TypeOK
  <2>2. \A s \in Routes : Len(raw'[s]) <= RawCap
    BY <1>1, <1>2, BarFeedAssumption DEF Dispatch, TypeOK
  <2>3. msg' \in Updates /\ left' \subseteq Routes
    BY <1>1 DEF Dispatch, TypeOK
  <2>4. msg' = NoBar <=> left' = {}
    BY DEF Dispatch, TypeOK
  <2> QED
    BY <2>1, <2>2, <2>3, <2>4 DEF Dispatch, TypeOK
<1>4. UpdatesArrived'
  <2>1. Arrived(msg) /\ (msg' # NoBar => Arrived(msg'))
    BY DEF Dispatch, UpdatesArrived
  <2>2. \A s \in Routes : \A i \in 1..Len(raw'[s]) : Arrived(raw'[s][i])
    BY <1>1, <1>2, <2>1 DEF UpdatesArrived
  <2> QED
    BY <2>1, <2>2 DEF UpdatesArrived, Arrived, Dispatch
<1>5. ClosedBarsOver' /\ Ordered'
  BY DEF ClosedBarsOver, Over, Ordered, Dispatch
<1> QED
  BY <1>3, <1>4, <1>5

\* A closer that closes its pending bar keeps the order.
LEMMA CloseInv ==
    ASSUME NEW r \in Routes, IInv, Ready(r), pending[r] # NoBar,
           pending[r].time + BarDur <= now,
           sending' = [sending EXCEPT ![r] = pending[r]],
           emitted' = [emitted EXCEPT ![r] = pending[r].time],
           UNCHANGED <<now, out, handled>>
    PROVE  ClosedBarsOver' /\ Ordered'
<1> USE DEF IInv
<1>1. /\ sending'[r] = pending[r] /\ emitted'[r] = pending[r].time
      /\ \A s \in Routes : s # r => sending'[s] = sending[s] /\ emitted'[s] = emitted[s]
  BY DEF TypeOK
<1>2. Arrived(pending[r]) /\ pending[r].time > emitted[r] /\ emitted[r] \in Int
      /\ pending[r].time \in Int
  BY BarTimes DEF UpdatesArrived, TypeOK
<1>3. Over(sending'[r])
  BY <1>1, <1>2 DEF Over, Arrived
<1>4. ClosedBarsOver'
  BY <1>1, <1>3 DEF ClosedBarsOver, Over
<1>5. \A s \in Routes : handled[s].time \in Int /\ \A i \in 1..Len(out[s]) : out[s][i].time \in Int
  BY BarTimes
<1>6. ASSUME NEW s \in Routes, s # r
      PROVE  /\ sending'[s] = sending[s] /\ emitted'[s] = emitted[s]
             /\ out'[s] = out[s] /\ handled'[s] = handled[s]
  BY <1>1, <1>6
<1>7. /\ \A i \in 1..Len(out[r]) : out[r][i].time < pending[r].time
      /\ handled[r].time < pending[r].time
  BY <1>2, <1>5 DEF Ordered
<1>8. Ordered'
  BY <1>1, <1>2, <1>5, <1>6, <1>7 DEF Ordered
<1> QED
  BY <1>4, <1>8

\* An update read by the bar closer.
LEMMA ReadUpdateInv == ASSUME NEW r \in Routes PROVE IInv /\ ReadUpdate(r) => IInv'
<1> SUFFICES ASSUME IInv, ReadUpdate(r) PROVE IInv'
  OBVIOUS
<1> USE DEF IInv
<1> DEFINE c == Head(raw[r])
<1>1. raw[r] \in Seq(Updates) /\ raw[r] # <<>> /\ raw'[r] = Tail(raw[r])
      /\ \A s \in Routes : s # r => raw'[s] = raw[s]
  BY DEF ReadUpdate, TypeOK
<1>2. c \in Updates /\ Arrived(c)
  <2>1. 1 \in 1..Len(raw[r]) /\ c = raw[r][1]
    BY <1>1
  <2> QED
    BY <1>1, <2>1 DEF UpdatesArrived
<1>3. Tail(raw[r]) \in Seq(Updates) /\ Len(Tail(raw[r])) = Len(raw[r]) - 1
      /\ \A i \in 1..Len(Tail(raw[r])) : Tail(raw[r])[i] = raw[r][i + 1]
  BY <1>1
<1>4. /\ pending[r] \in Updates /\ emitted[r] \in Int /\ c.time \in Int /\ now \in Nat
      /\ pending[r].time \in Int /\ BarDur \in Nat
  BY <1>2, BarFeedAssumption DEF TypeOK, Updates
<1>5. c # NoBar
  BY <1>2, NoBarIsNone DEF Arrived
<1>6. \A s \in Routes : /\ Len(raw'[s]) <= RawCap
                         /\ \A i \in 1..Len(raw'[s]) : Arrived(raw'[s][i])
  <2>1. \A i \in 1..Len(raw'[r]) : i + 1 \in 1..Len(raw[r])
    BY <1>1, <1>3
  <2>2. \A i \in 1..Len(raw'[r]) : Arrived(raw'[r][i])
    BY <1>1, <1>3, <2>1 DEF UpdatesArrived
  <2>3. Len(raw'[r]) <= RawCap
    BY <1>1, <1>3, BarFeedAssumption DEF TypeOK
  <2> QED
    BY <1>1, <2>2, <2>3 DEF TypeOK, UpdatesArrived
<1>7. raw' \in [Routes -> Seq(Updates)]
  BY <1>1, <1>3 DEF TypeOK, ReadUpdate
<1>8. UNCHANGED <<now, sent, msg, left, out, handled, cancelled>>
  BY DEF ReadUpdate
<1>9. CASE UNCHANGED <<pending, emitted, sending>>
  <2>1. TypeOK'
    BY <1>6, <1>7, <1>8, <1>9 DEF TypeOK
  <2>2. UpdatesArrived'
    BY <1>6, <1>8, <1>9 DEF UpdatesArrived, Arrived
  <2>3. ClosedBarsOver' /\ Ordered'
    BY <1>8, <1>9 DEF ClosedBarsOver, Over, Ordered
  <2> QED
    BY <2>1, <2>2, <2>3
<1>10. CASE /\ c.time > emitted[r]
            /\ pending' = [pending EXCEPT ![r] = c]
            /\ UNCHANGED <<emitted, sending>>
  <2>1. TypeOK'
    BY <1>2, <1>6, <1>7, <1>8, <1>10 DEF TypeOK
  <2>2. UpdatesArrived'
    BY <1>2, <1>6, <1>8, <1>10 DEF UpdatesArrived, Arrived, TypeOK
  <2>3. ClosedBarsOver' /\ Ordered'
    BY <1>8, <1>10 DEF ClosedBarsOver, Over, Ordered
  <2> QED
    BY <2>1, <2>2, <2>3
<1>11. CASE /\ pending[r] # NoBar /\ c.time > pending[r].time
            /\ sending' = [sending EXCEPT ![r] = pending[r]]
            /\ emitted' = [emitted EXCEPT ![r] = pending[r].time]
            /\ pending' = [pending EXCEPT ![r] = c]
  <2>1. TypeOK'
    BY <1>2, <1>4, <1>6, <1>7, <1>8, <1>11 DEF TypeOK
  <2>2. /\ emitted'[r] = pending[r].time /\ pending'[r] = c
        /\ \A s \in Routes : s # r => pending'[s] = pending[s] /\ emitted'[s] = emitted[s]
    BY <1>11 DEF TypeOK
  <2>3. UpdatesArrived'
    BY <1>2, <1>6, <1>8, <1>11, <2>2 DEF UpdatesArrived, Arrived
  <2>4. pending[r].time + BarDur <= now
    <3>1. pending[r].time \in Times /\ c.time \in Times /\ c.time <= c.at /\ c.at <= now
          /\ c.at \in Int
      BY <1>2, <1>11 DEF UpdatesArrived, Arrived, Updates
    <3>2. pending[r].time + BarDur <= c.time
      BY <1>4, <1>11, <3>1, LaterBar
    <3> QED
      BY <1>4, <3>1, <3>2
  <2>5. ClosedBarsOver' /\ Ordered'
    BY <1>8, <1>11, <2>4, CloseInv DEF ReadUpdate
  <2> QED
    BY <2>1, <2>3, <2>5
<1>12. Update(r, c)
  BY DEF ReadUpdate
<1>13. CASE c.time <= emitted[r]
  BY <1>9, <1>12, <1>13 DEF Update
<1>14. CASE c.time > emitted[r] /\ (pending[r] = NoBar \/ c.time = pending[r].time)
  BY <1>4, <1>10, <1>12, <1>14 DEF Update
<1>15. CASE c.time > emitted[r] /\ pending[r] # NoBar /\ c.time < pending[r].time
  BY <1>4, <1>9, <1>12, <1>15 DEF Update
<1>16. CASE c.time > emitted[r] /\ pending[r] # NoBar /\ c.time > pending[r].time
  BY <1>4, <1>11, <1>12, <1>16 DEF Update
<1> QED
  BY <1>4, <1>13, <1>14, <1>15, <1>16

\* A bar closed by the timer.
LEMMA FlushInv == ASSUME NEW r \in Routes PROVE IInv /\ Flush(r) => IInv'
<1> SUFFICES ASSUME IInv, Flush(r) PROVE IInv'
  OBVIOUS
<1> USE DEF IInv
<1>1. pending[r] \in Updates /\ pending[r].time \in Int /\ NoBar \in Updates
  BY DEF TypeOK, Updates, NoBar
<1>2. TypeOK'
  BY <1>1 DEF TypeOK, Flush
<1>3. UpdatesArrived'
  BY <1>1 DEF UpdatesArrived, Arrived, Flush, TypeOK
<1>4. pending[r].time + BarDur <= now
  BY <1>1, BarFeedAssumption DEF Flush, Due, TypeOK
<1>5. ClosedBarsOver' /\ Ordered'
  BY <1>4, CloseInv DEF Flush, Due
<1> QED
  BY <1>2, <1>3, <1>5

\* A closed bar sent to the slot.
LEMMA SendInv == ASSUME NEW r \in Routes PROVE IInv /\ Send(r) => IInv'
<1> SUFFICES ASSUME IInv, Send(r) PROVE IInv'
  OBVIOUS
<1> USE DEF IInv
<1>1. out[r] \in Seq(Updates) /\ sending[r] \in Updates /\ NoBar \in Updates
  BY DEF TypeOK, Updates, NoBar
<1>2. /\ out'[r] = Append(out[r], sending[r]) /\ sending'[r] = NoBar
      /\ \A s \in Routes : s # r => out'[s] = out[s] /\ sending'[s] = sending[s]
  BY DEF Send, TypeOK
<1>3. Append(out[r], sending[r]) \in Seq(Updates) /\ Len(out'[r]) = Len(out[r]) + 1
      /\ \A i \in 1..Len(out'[r]) :
            out'[r][i] = IF i = Len(out[r]) + 1 THEN sending[r] ELSE out[r][i]
  BY <1>1, <1>2
<1>4. TypeOK'
  <2>1. out' \in [Routes -> Seq(Updates)] /\ sending' \in [Routes -> Updates]
    BY <1>1, <1>3 DEF Send, TypeOK
  <2>2. \A s \in Routes : Len(out'[s]) <= OutCap
    BY <1>1, <1>2, <1>3, BarFeedAssumption DEF Send, TypeOK
  <2> QED
    BY <2>1, <2>2 DEF Send, TypeOK
<1>5. UpdatesArrived'
  BY DEF UpdatesArrived, Arrived, Send
<1>6. ClosedBarsOver'
  BY <1>1, <1>2, <1>3 DEF ClosedBarsOver, Over, Send
<1>7. Ordered'
  <2>1. \A i \in 1..Len(out[r]) : out[r][i].time < sending[r].time
    BY DEF Ordered, Send
  <2>2. sending[r].time = emitted[r] /\ handled[r].time < sending[r].time
        /\ emitted[r] \in Int
    BY DEF Ordered, Send, TypeOK
  <2>3. \A i, j \in 1..Len(out'[r]) : i < j => out'[r][i].time < out'[r][j].time
    <3> SUFFICES ASSUME NEW i \in 1..Len(out'[r]), NEW j \in 1..Len(out'[r]), i < j
                 PROVE  out'[r][i].time < out'[r][j].time
      OBVIOUS
    <3>1. i \in 1..Len(out[r]) /\ Len(out[r]) \in Nat
      BY <1>1, <1>3
    <3>2. CASE j = Len(out[r]) + 1
      BY <1>3, <2>1, <3>1, <3>2, SMTT(20)
    <3>3. CASE j # Len(out[r]) + 1
      <4>1. j \in 1..Len(out[r])
        BY <1>3, <3>1, <3>3
      <4> QED
        BY <1>3, <3>1, <3>3, <4>1, SMTT(20) DEF Ordered
    <3> QED
      BY <3>2, <3>3
  <2>4. \A i \in 1..Len(out'[r]) :
            handled[r].time < out'[r][i].time /\ out'[r][i].time <= emitted[r]
    BY <1>1, <1>3, <2>2, SMTT(20) DEF Ordered
  <2>5. UNCHANGED <<emitted, handled>>
    BY DEF Send
  <2> QED
    BY <1>2, <2>3, <2>4, <2>5 DEF Ordered
<1> QED
  BY <1>4, <1>5, <1>6, <1>7

\* The bar a strategy takes is later than the one before.
LEMMA HandleForward ==
    ASSUME NEW r \in Routes, IInv, Handle(r)
    PROVE  /\ 1 \in 1..Len(out[r]) /\ Head(out[r]) = out[r][1]
           /\ handled'[r] = out[r][1] /\ handled[r].time < out[r][1].time
<1>1. out[r] \in Seq(Updates) /\ out[r] # <<>>
  BY DEF Handle, IInv, TypeOK
<1>2. 1 \in 1..Len(out[r]) /\ Head(out[r]) = out[r][1]
  BY <1>1
<1> QED
  BY <1>2 DEF Handle, IInv, TypeOK, Ordered

\* A closed bar handled by the slot.
LEMMA HandleInv == ASSUME NEW r \in Routes PROVE IInv /\ Handle(r) => IInv'
<1> SUFFICES ASSUME IInv, Handle(r) PROVE IInv'
  OBVIOUS
<1>a. /\ 1 \in 1..Len(out[r]) /\ Head(out[r]) = out[r][1]
      /\ handled'[r] = out[r][1] /\ handled[r].time < out[r][1].time
  BY HandleForward
<1> USE DEF IInv
<1>1. out[r] \in Seq(Updates) /\ out[r][1] \in Updates
  BY <1>a DEF TypeOK
<1>2. /\ out'[r] = Tail(out[r])
      /\ \A s \in Routes : s # r => out'[s] = out[s] /\ handled'[s] = handled[s]
  BY DEF Handle, TypeOK
<1>3. Tail(out[r]) \in Seq(Updates) /\ Len(out'[r]) = Len(out[r]) - 1
      /\ \A i \in 1..Len(out'[r]) : out'[r][i] = out[r][i + 1]
  BY <1>1, <1>2, <1>a
<1>4. TypeOK'
  <2>1. out' \in [Routes -> Seq(Updates)] /\ handled' \in [Routes -> Updates]
    BY <1>1, <1>3, <1>a DEF Handle, TypeOK
  <2>2. \A s \in Routes : Len(out'[s]) <= OutCap
    <3>1. Len(out[r]) <= OutCap /\ Len(out[r]) \in Nat
      BY <1>1 DEF TypeOK
    <3>2. Len(out'[r]) <= OutCap
      BY <1>3, <3>1, BarFeedAssumption
    <3> QED
      BY <1>2, <3>2 DEF TypeOK
  <2> QED
    BY <2>1, <2>2 DEF Handle, TypeOK
<1>5. UpdatesArrived'
  BY DEF UpdatesArrived, Arrived, Handle
<1>6. ClosedBarsOver'
  BY <1>1, <1>2, <1>3, <1>a DEF ClosedBarsOver, Over, Handle
<1>7. Ordered'
  <2>1. \A i \in 1..Len(out'[r]) : i + 1 \in 1..Len(out[r]) /\ 1 < i + 1
    BY <1>1, <1>3
  <2>2. \A i, j \in 1..Len(out'[r]) : i < j => out'[r][i].time < out'[r][j].time
    BY <1>1, <1>3, <2>1 DEF Ordered
  <2>3. \A i \in 1..Len(out'[r]) :
            out[r][1].time < out'[r][i].time /\ out'[r][i].time <= emitted[r]
    BY <1>3, <1>a, <2>1 DEF Ordered
  <2>4. sending[r] # NoBar =>
            /\ sending[r].time = emitted[r] /\ out[r][1].time < sending[r].time
            /\ \A i \in 1..Len(out'[r]) : out'[r][i].time < sending[r].time
    BY <1>3, <1>a, <2>1 DEF Ordered
  <2>5. out[r][1].time <= emitted[r]
    BY <1>a DEF Ordered
  <2>6. UNCHANGED <<emitted, sending>>
    BY DEF Handle
  <2> QED
    BY <1>2, <1>a, <2>2, <2>3, <2>4, <2>5, <2>6 DEF Ordered
<1> QED
  BY <1>4, <1>5, <1>6, <1>7

\* Time passes.
LEMMA AdvanceInv == IInv /\ Advance => IInv'
<1> SUFFICES ASSUME IInv, Advance PROVE IInv'
  OBVIOUS
<1> USE DEF IInv
<1>1. now \in Nat /\ now' = now + 1 /\ BarDur \in Nat
  BY BarFeedAssumption DEF Advance, TypeOK
<1>2. TypeOK'
  BY <1>1 DEF TypeOK, Advance
<1>3. ASSUME NEW u \in Updates, Arrived(u) PROVE Arrived(u)'
  BY <1>1, <1>3 DEF Arrived, Updates
<1>4. ASSUME NEW b \in Updates, Over(b) PROVE Over(b)'
  BY <1>1, <1>4, TimesAreNat DEF Over, Times
<1>5. \A r \in Routes : /\ \A i \in 1..Len(raw[r]) : raw[r][i] \in Updates
                         /\ \A j \in 1..Len(out[r]) : out[r][j] \in Updates
  BY BarTimes
<1>6. UpdatesArrived'
  BY <1>3, <1>5 DEF UpdatesArrived, Arrived, Advance, TypeOK
<1>7. ClosedBarsOver'
  BY <1>4, <1>5 DEF ClosedBarsOver, Over, Advance, TypeOK
<1>8. Ordered'
  BY DEF Ordered, Advance
<1> QED
  BY <1>2, <1>6, <1>7, <1>8

\* Every step keeps the invariant.
LEMMA StepInv == IInv /\ [Next]_vars => IInv'
<1> SUFFICES ASSUME IInv, [Next]_vars PROVE IInv'
  OBVIOUS
<1>1. CASE UNCHANGED vars
  BY <1>1 DEF vars, IInv, TypeOK, UpdatesArrived, Arrived, ClosedBarsOver, Over, Ordered
<1>2. CASE Cancel
  BY <1>2 DEF Cancel, IInv, TypeOK, UpdatesArrived, Arrived, ClosedBarsOver, Over, Ordered
<1>3. CASE Next
  BY <1>1, <1>2, <1>3, ReceiveInv, AdvanceInv, DispatchInv, ReadUpdateInv, SendInv,
     FlushInv, HandleInv DEF Next, Closer, Stopped
<1> QED
  BY <1>1, <1>3

-----------------------------------------------------------------------------
\* The variables keep their types, the channels their capacity (64 in the code,
\* websocket.go and datafeed.go), and an update being dispatched has a route left.
THEOREM TypeCorrect == Spec => []TypeOK
BY InitInv, StepInv, PTL DEF Spec, IInv

\* A strategy is given closed bars only, as barcloser.go promises: whatever is
\* delayed or resent, the bar it handles is over.
THEOREM StrategySeesClosedBars == Spec => []OnlyClosedBars
<1>1. IInv => OnlyClosedBars
  BY DEF IInv, ClosedBarsOver, Over, OnlyClosedBars
<1> QED
  BY <1>1, InitInv, StepInv, PTL DEF Spec

\* A closed bar is not played again, nor one that is older than a bar played.
THEOREM StrategySeesBarsInOrder == Spec => BarsInOrder
<1> DEFINE Forward == \A r \in Routes :
                          handled'[r] # handled[r] => handled'[r].time > handled[r].time
<1>1. IInv /\ [Next]_vars => [Forward]_vars
  <2> SUFFICES ASSUME IInv, Next, NEW r \in Routes, handled'[r] # handled[r]
               PROVE  handled'[r].time > handled[r].time
    BY DEF vars
  <2>1. \E s \in Routes : Handle(s)
    BY DEF Next, Receive, Advance, Cancel, Stopped, vars, Dispatch, Closer, ReadUpdate,
           Send, Flush
  <2>2. Handle(r)
    BY <2>1 DEF Handle, IInv, TypeOK
  <2>3. handled'[r] = out[r][1] /\ handled[r].time < out[r][1].time /\ 1 \in 1..Len(out[r])
    BY <2>2, HandleForward
  <2>4. handled[r].time \in Int /\ out[r][1].time \in Int
    BY <2>3, BarTimes DEF IInv
  <2> QED
    BY <2>3, <2>4
<1> QED
  BY <1>1, InitInv, StepInv, PTL DEF Spec, BarsInOrder

-----------------------------------------------------------------------------
(* The last update of a bar                                                *)

\* The last the exchange has said of bar t.
Last(t) == [time |-> t, at |-> sent[t]]

\* What is being dispatched is the last update of its bar, and nothing on the
\* way is newer than that.
NothingIsNewer ==
    /\ msg # NoBar => msg.at = sent[msg.time]
    /\ \A r \in Routes :
          /\ \A i \in 1..Len(raw[r]) : raw[r][i].at <= sent[raw[r][i].time]
          /\ pending[r] # NoBar => pending[r].at <= sent[pending[r].time]

\* Updates of one bar reach its closer in the order in which they were made.
NewerComesLater ==
    \A r \in Routes :
        /\ \A i, j \in 1..Len(raw[r]) :
              i < j /\ raw[r][i].time = raw[r][j].time => raw[r][i].at <= raw[r][j].at
        /\ \A i \in 1..Len(raw[r]) :
              pending[r] # NoBar /\ raw[r][i].time = pending[r].time
                 => pending[r].at <= raw[r][i].at

\* The last update of a bar that may still be closed waits in the closer, in
\* its channel, or in the dispatcher.
LastIsOnItsWay ==
    \A r \in Routes, t \in Times :
        sent[t] # -1 /\ t > emitted[r] /\ t >= pending[r].time =>
           \/ pending[r] = Last(t)
           \/ \E i \in 1..Len(raw[r]) : raw[r][i] = Last(t)
           \/ msg = Last(t) /\ r \in left

LastInv == NothingIsNewer /\ NewerComesLater /\ LastIsOnItsWay

\* What the last update's way consists of.
feedIn == <<sent, msg, left, raw, pending, emitted>>

\* No update is on its way at the start.
LEMMA InitLast == Init => LastInv
<1> SUFFICES ASSUME Init PROVE LastInv
  OBVIOUS
<1>1. \A r \in Routes : raw[r] = <<>> /\ pending[r] = NoBar
  BY DEF Init
<1>2. \A r \in Routes : 1..Len(raw[r]) = {}
  <2>1. Len(<<>>) = 0
    OBVIOUS
  <2>2. \A r \in Routes : Len(raw[r]) = 0
    BY <1>1, <2>1
  <2>3. 1..0 = {}
    OBVIOUS
  <2> QED
    BY <2>2, <2>3
<1>3. NothingIsNewer /\ NewerComesLater
  BY <1>1, <1>2 DEF Init, NothingIsNewer, NewerComesLater
<1>4. LastIsOnItsWay
  BY DEF Init, LastIsOnItsWay
<1> QED
  BY <1>3, <1>4 DEF LastInv

\* The closed bars' way to the strategy has no part in it.
LEMMA QuietLast == LastInv /\ UNCHANGED feedIn => LastInv'
BY DEF feedIn, LastInv, NothingIsNewer, NewerComesLater, LastIsOnItsWay, Last

\* What the exchange sends is the last update until it sends the next.
LEMMA ReceiveLast == IInv /\ LastInv /\ Receive => LastInv'
<1> SUFFICES ASSUME IInv, LastInv, Receive PROVE LastInv'
  OBVIOUS
<1> USE DEF IInv
<1>1. PICK t \in Times, at \in Int : /\ at >= sent[t]
                                     /\ msg' = [time |-> t, at |-> at]
                                     /\ sent' = [sent EXCEPT ![t] = at]
  <2>1. PICK t \in Times : \E at \in t..(t + BarDur - 1) :
              /\ at >= sent[t] /\ msg' = [time |-> t, at |-> at]
              /\ sent' = [sent EXCEPT ![t] = at]
    BY DEF Receive
  <2>2. t \in Int /\ t + BarDur - 1 \in Int
    BY TimesAreNat, BarFeedAssumption
  <2>3. PICK at \in t..(t + BarDur - 1) :
              /\ at >= sent[t] /\ msg' = [time |-> t, at |-> at]
              /\ sent' = [sent EXCEPT ![t] = at]
    BY <2>1
  <2>4. at \in Int
    BY <2>2
  <2> QED
    BY <2>3, <2>4
<1>2. msg = NoBar /\ left' = Routes /\ UNCHANGED <<raw, pending, emitted>>
  BY DEF Receive
<1>3. \A u \in Times : sent[u] \in Int /\ sent'[u] \in Int /\ sent[u] <= sent'[u]
  BY <1>1 DEF TypeOK
<1>4. \A u \in Times : u # t => sent'[u] = sent[u]
  BY <1>1 DEF TypeOK
<1>5. sent'[t] = at
  BY <1>1 DEF TypeOK
<1>6. NothingIsNewer'
  <2>1. msg'.at = sent'[msg'.time]
    BY <1>1, <1>5
  <2>2. ASSUME NEW u \in Updates, u.time \in Times, u.at <= sent[u.time]
        PROVE  u.at <= sent'[u.time]
    BY <1>3, <2>2 DEF Updates
  <2>3. ASSUME NEW r \in Routes
        PROVE  /\ \A i \in 1..Len(raw[r]) : raw[r][i].at <= sent'[raw[r][i].time]
               /\ pending[r] # NoBar => pending[r].at <= sent'[pending[r].time]
    BY <2>2, BarTimes DEF NothingIsNewer, LastInv, UpdatesArrived, Arrived
  <2> QED
    BY <1>2, <2>1, <2>3 DEF NothingIsNewer
<1>7. NewerComesLater'
  BY <1>2 DEF NewerComesLater, LastInv
<1>8. LastIsOnItsWay'
  <2> SUFFICES ASSUME NEW r \in Routes, NEW u \in Times,
                      sent'[u] # -1, u > emitted[r], u >= pending[r].time
               PROVE  \/ pending[r] = Last(u)'
                      \/ \E i \in 1..Len(raw[r]) : raw[r][i] = Last(u)'
                      \/ msg' = Last(u)' /\ r \in left'
    BY <1>2 DEF LastIsOnItsWay
  <2>1. CASE u = t
    BY <1>1, <1>2, <1>5, <2>1 DEF Last
  <2>2. CASE u # t
    <3>1. Last(u)' = Last(u) /\ sent[u] # -1
      BY <1>4, <2>2 DEF Last
    <3>2. msg # Last(u)
      BY <1>2, TimesAreNat DEF Last, NoBar
    <3> QED
      BY <3>1, <3>2 DEF LastInv, LastIsOnItsWay
  <2> QED
    BY <2>1, <2>2
<1> QED
  BY <1>6, <1>7, <1>8 DEF LastInv

\* A dispatched update goes behind the older ones.
LEMMA DispatchLast ==
    ASSUME NEW r \in Routes PROVE IInv /\ LastInv /\ Dispatch(r) => LastInv'
<1> SUFFICES ASSUME IInv, LastInv, Dispatch(r) PROVE LastInv'
  OBVIOUS
<1> USE DEF IInv
<1>1. raw[r] \in Seq(Updates) /\ msg \in Updates /\ msg # NoBar /\ r \in left
  BY DEF TypeOK, Dispatch
<1>2. raw'[r] = Append(raw[r], msg) /\ \A s \in Routes : s # r => raw'[s] = raw[s]
  BY DEF Dispatch, TypeOK
<1>3. UNCHANGED <<sent, pending, emitted>> /\ left' = left \ {r}
      /\ msg' = IF left = {r} THEN NoBar ELSE msg
  BY DEF Dispatch
<1>4. /\ Len(raw'[r]) = Len(raw[r]) + 1 /\ Len(raw[r]) \in Nat
      /\ raw'[r][Len(raw[r]) + 1] = msg
      /\ \A i \in 1..Len(raw[r]) : raw'[r][i] = raw[r][i]
  BY <1>1, <1>2
<1>5. msg.at = sent[msg.time] /\ msg.at \in Int
  BY <1>1 DEF LastInv, NothingIsNewer, Updates
<1>6. NothingIsNewer'
  <2>1. ASSUME NEW i \in 1..Len(raw'[r])
        PROVE  raw'[r][i].at <= sent[raw'[r][i].time]
    <3>1. CASE i = Len(raw[r]) + 1
      BY <1>4, <1>5, <3>1
    <3>2. CASE i \in 1..Len(raw[r])
      BY <1>4, <3>2 DEF LastInv, NothingIsNewer
    <3> QED
      BY <1>4, <3>1, <3>2
  <2> QED
    BY <1>2, <1>3, <1>5, <2>1 DEF LastInv, NothingIsNewer
<1>7. NewerComesLater'
  <2>1. ASSUME NEW i \in 1..Len(raw'[r]), NEW j \in 1..Len(raw'[r]), i < j,
               raw'[r][i].time = raw'[r][j].time
        PROVE  raw'[r][i].at <= raw'[r][j].at
    <3>1. i \in 1..Len(raw[r]) /\ raw'[r][i] = raw[r][i]
      BY <1>4, <2>1
    <3>2. CASE j = Len(raw[r]) + 1
      BY <1>4, <1>5, <2>1, <3>1, <3>2 DEF LastInv, NothingIsNewer
    <3>3. CASE j \in 1..Len(raw[r])
      BY <1>4, <2>1, <3>1, <3>3 DEF LastInv, NewerComesLater
    <3> QED
      BY <1>4, <3>2, <3>3
  <2>2. ASSUME NEW i \in 1..Len(raw'[r]), pending[r] # NoBar,
               raw'[r][i].time = pending[r].time
        PROVE  pending[r].at <= raw'[r][i].at
    <3>1. CASE i = Len(raw[r]) + 1
      BY <1>4, <1>5, <2>2, <3>1 DEF LastInv, NothingIsNewer
    <3>2. CASE i \in 1..Len(raw[r])
      BY <1>4, <2>2, <3>2 DEF LastInv, NewerComesLater
    <3> QED
      BY <1>4, <3>1, <3>2
  <2> QED
    BY <1>2, <1>3, <2>1, <2>2 DEF LastInv, NewerComesLater
<1>8. LastIsOnItsWay'
  <2> SUFFICES ASSUME NEW s \in Routes, NEW u \in Times,
                      sent[u] # -1, u > emitted[s], u >= pending[s].time
               PROVE  \/ pending[s] = Last(u)
                      \/ \E i \in 1..Len(raw'[s]) : raw'[s][i] = Last(u)
                      \/ msg' = Last(u) /\ s \in left'
    BY <1>3 DEF LastIsOnItsWay, Last
  <2>1. \/ pending[s] = Last(u)
        \/ \E i \in 1..Len(raw[s]) : raw[s][i] = Last(u)
        \/ msg = Last(u) /\ s \in left
    BY DEF LastInv, LastIsOnItsWay
  <2>2. CASE s = r
    <3>1. Len(raw[r]) + 1 \in 1..Len(raw'[r]) /\ 1..Len(raw[r]) \subseteq 1..Len(raw'[r])
      BY <1>4
    <3> QED
      BY <1>4, <2>1, <2>2, <3>1
  <2>3. CASE s # r
    BY <1>2, <1>3, <2>1, <2>3
  <2> QED
    BY <2>2, <2>3
<1> QED
  BY <1>6, <1>7, <1>8 DEF LastInv

\* A closer drops what is over, and keeps the newest of what is not.
LEMMA ReadUpdateLast ==
    ASSUME NEW r \in Routes PROVE IInv /\ LastInv /\ ReadUpdate(r) => LastInv'
<1> SUFFICES ASSUME IInv, LastInv, ReadUpdate(r) PROVE LastInv'
  OBVIOUS
<1> USE DEF IInv
<1> DEFINE c == raw[r][1]
<1>1. raw[r] \in Seq(Updates) /\ raw[r] # <<>> /\ raw'[r] = Tail(raw[r])
      /\ \A s \in Routes : s # r => raw'[s] = raw[s]
  BY DEF ReadUpdate, TypeOK
<1>2. /\ Len(raw'[r]) = Len(raw[r]) - 1 /\ Len(raw[r]) \in Nat /\ 1 \in 1..Len(raw[r])
      /\ \A i \in 1..Len(raw'[r]) : raw'[r][i] = raw[r][i + 1] /\ i + 1 \in 1..Len(raw[r])
      /\ Head(raw[r]) = c
  BY <1>1
<1>3. UNCHANGED <<sent, msg, left>> /\ Update(r, c)
  BY <1>2 DEF ReadUpdate
<1>4. /\ c \in Updates /\ c.time \in Times /\ c.time \in Int /\ c.at \in Int
      /\ c.at <= sent[c.time] /\ sent[c.time] \in Int /\ c # NoBar
  <2>1. c \in Updates /\ c.time \in Times
    BY <1>1, <1>2, BarTimes DEF UpdatesArrived, Arrived
  <2>2. c.time \in Int /\ c.at \in Int
    BY <2>1 DEF Updates
  <2>3. c.at <= sent[c.time]
    BY <1>2 DEF LastInv, NothingIsNewer
  <2>4. sent[c.time] \in Int
    BY <2>1 DEF TypeOK
  <2> QED
    BY <2>1, <2>2, <2>3, <2>4, NoBarIsNone
<1>5. /\ pending[r] \in Updates /\ pending[r].time \in Int /\ pending[r].at \in Int
      /\ emitted[r] \in Int
      /\ pending[r] # NoBar => pending[r].time \in Times
  BY DEF TypeOK, Updates, UpdatesArrived, Arrived
<1>6. CASE c.time <= emitted[r] \/ (pending[r] # NoBar /\ c.time < pending[r].time)
  <2>1. UNCHANGED <<pending, emitted, sending>>
    <3>1. CASE c.time <= emitted[r]
      BY <1>3, <3>1 DEF Update
    <3>2. CASE pending[r] # NoBar /\ c.time < pending[r].time
      <4>1. c.time # pending[r].time
        BY <1>4, <1>5, <3>2
      <4> QED
        BY <1>3, <3>2, <4>1 DEF Update
    <3> QED
      BY <1>6, <3>1, <3>2
  <2>2. NothingIsNewer'
    <3>1. \A i \in 1..Len(raw'[r]) : raw'[r][i].at <= sent[raw'[r][i].time]
      BY <1>2 DEF LastInv, NothingIsNewer
    <3>2. \A s \in Routes \ {r} :
             \A i \in 1..Len(raw'[s]) : raw'[s][i].at <= sent[raw'[s][i].time]
      BY <1>1 DEF LastInv, NothingIsNewer
    <3> QED
      BY <1>3, <2>1, <3>1, <3>2 DEF LastInv, NothingIsNewer
  <2>3. NewerComesLater'
    <3>1. \A i, j \in 1..Len(raw'[r]) : i < j => i + 1 < j + 1
      BY <1>2
    <3>2. \A i, j \in 1..Len(raw'[r]) :
             i < j /\ raw'[r][i].time = raw'[r][j].time => raw'[r][i].at <= raw'[r][j].at
      BY <1>2, <3>1 DEF LastInv, NewerComesLater
    <3>3. \A i \in 1..Len(raw'[r]) :
             pending[r] # NoBar /\ raw'[r][i].time = pending[r].time
                => pending[r].at <= raw'[r][i].at
      BY <1>2 DEF LastInv, NewerComesLater
    <3> QED
      BY <1>1, <2>1, <3>2, <3>3 DEF LastInv, NewerComesLater
  <2>4. LastIsOnItsWay'
    <3> SUFFICES ASSUME NEW s \in Routes, NEW u \in Times,
                        sent[u] # -1, u > emitted[s], u >= pending[s].time
                 PROVE  \/ pending[s] = Last(u)
                        \/ \E i \in 1..Len(raw'[s]) : raw'[s][i] = Last(u)
                        \/ msg = Last(u) /\ s \in left
      BY <1>3, <2>1 DEF LastIsOnItsWay, Last
    <3>1. \/ pending[s] = Last(u)
          \/ \E i \in 1..Len(raw[s]) : raw[s][i] = Last(u)
          \/ msg = Last(u) /\ s \in left
      BY DEF LastInv, LastIsOnItsWay
    <3>2. CASE s # r
      BY <1>1, <3>1, <3>2
    <3>3. CASE s = r
      <4>1. u \in Int
        BY TimesAreNat
      <4>2. c # Last(u)
        BY <1>4, <1>5, <1>6, <3>3, <4>1 DEF Last
      <4>3. ASSUME NEW i \in 1..Len(raw[r]), raw[r][i] = Last(u)
            PROVE  i - 1 \in 1..Len(raw'[r]) /\ raw'[r][i - 1] = Last(u)
        <5>1. i # 1
          BY <4>2, <4>3
        <5>2. i - 1 \in 1..Len(raw'[r]) /\ (i - 1) + 1 = i
          BY <1>2, <5>1
        <5> QED
          BY <1>2, <4>3, <5>2
      <4> QED
        BY <3>1, <3>3, <4>3
    <3> QED
      BY <3>2, <3>3
  <2> QED
    BY <2>2, <2>3, <2>4 DEF LastInv
<1>7. CASE c.time > emitted[r] /\ (pending[r] = NoBar \/ c.time >= pending[r].time)
  <2>1. /\ pending' = [pending EXCEPT ![r] = c]
        /\ \A s \in Routes \ {r} : emitted'[s] = emitted[s]
        /\ emitted'[r] >= emitted[r] /\ emitted'[r] \in Int
    <3>1. pending[r] # NoBar => pending[r].time > emitted[r]
      BY DEF UpdatesArrived
    <3>2. CASE pending[r] = NoBar \/ c.time = pending[r].time
      <4>1. pending' = [pending EXCEPT ![r] = c] /\ emitted' = emitted
        BY <1>3, <1>4, <1>5, <1>7, <3>2 DEF Update
      <4> QED
        BY <1>5, <4>1
    <3>3. CASE pending[r] # NoBar /\ c.time > pending[r].time
      <4>1. /\ pending' = [pending EXCEPT ![r] = c]
            /\ emitted' = [emitted EXCEPT ![r] = pending[r].time]
        BY <1>3, <1>4, <1>5, <1>7, <3>3 DEF Update
      <4> QED
        BY <1>5, <3>1, <3>3, <4>1 DEF TypeOK
    <3> QED
      BY <1>4, <1>5, <1>7, <3>2, <3>3
  <2>2. pending'[r] = c /\ \A s \in Routes : s # r => pending'[s] = pending[s]
    BY <2>1 DEF TypeOK
  <2>3. NothingIsNewer'
    <3>1. ASSUME NEW s \in Routes
          PROVE  /\ \A i \in 1..Len(raw'[s]) : raw'[s][i].at <= sent[raw'[s][i].time]
                 /\ pending'[s] # NoBar => pending'[s].at <= sent[pending'[s].time]
      <4>1. CASE s = r
        BY <1>2, <1>4, <2>2, <4>1 DEF LastInv, NothingIsNewer
      <4>2. CASE s # r
        BY <1>1, <2>2, <4>2 DEF LastInv, NothingIsNewer
      <4> QED
        BY <4>1, <4>2
    <3> QED
      BY <1>3, <3>1 DEF LastInv, NothingIsNewer
  <2>4. NewerComesLater'
    <3>1. \A i, j \in 1..Len(raw'[r]) : i < j => i + 1 < j + 1
      BY <1>2
    <3>2. \A i, j \in 1..Len(raw'[r]) :
             i < j /\ raw'[r][i].time = raw'[r][j].time => raw'[r][i].at <= raw'[r][j].at
      BY <1>2, <3>1 DEF LastInv, NewerComesLater
    <3>3. \A i \in 1..Len(raw'[r]) : 1 < i + 1
      BY <1>2
    <3>4. \A i \in 1..Len(raw'[r]) : raw'[r][i].time = c.time => c.at <= raw'[r][i].at
      BY <1>2, <3>3 DEF LastInv, NewerComesLater
    <3>5. ASSUME NEW s \in Routes, s # r
          PROVE  raw'[s] = raw[s] /\ pending'[s] = pending[s]
      BY <1>1, <2>2, <3>5
    <3>6. \A s \in Routes \ {r} :
            /\ \A i, j \in 1..Len(raw'[s]) :
                  i < j /\ raw'[s][i].time = raw'[s][j].time => raw'[s][i].at <= raw'[s][j].at
            /\ \A i \in 1..Len(raw'[s]) :
                  pending'[s] # NoBar /\ raw'[s][i].time = pending'[s].time
                     => pending'[s].at <= raw'[s][i].at
      BY <3>5 DEF LastInv, NewerComesLater
    <3>7. \A i \in 1..Len(raw'[r]) :
              pending'[r] # NoBar /\ raw'[r][i].time = pending'[r].time
                 => pending'[r].at <= raw'[r][i].at
      BY <2>2, <3>4
    <3> QED
      BY <3>2, <3>6, <3>7 DEF NewerComesLater
  <2>5. LastIsOnItsWay'
    <3> SUFFICES ASSUME NEW s \in Routes, NEW u \in Times,
                        sent[u] # -1, u > emitted'[s], u >= pending'[s].time
                 PROVE  \/ pending'[s] = Last(u)
                        \/ \E i \in 1..Len(raw'[s]) : raw'[s][i] = Last(u)
                        \/ msg = Last(u) /\ s \in left
      BY <1>3 DEF LastIsOnItsWay, Last
    <3>1. u \in Int /\ u >= 0
      BY TimesAreNat
    <3>2. CASE s # r
      BY <1>1, <2>1, <2>2, <3>2 DEF LastInv, LastIsOnItsWay
    <3>3. CASE s = r
      <4>1. u > emitted[r] /\ u >= c.time
        BY <1>5, <2>1, <2>2, <3>1, <3>3
      <4>2. u >= pending[r].time
        BY <1>4, <1>5, <1>7, <3>1, <4>1 DEF NoBar
      <4>3. \/ pending[r] = Last(u)
            \/ \E i \in 1..Len(raw[r]) : raw[r][i] = Last(u)
            \/ msg = Last(u) /\ r \in left
        BY <4>1, <4>2 DEF LastInv, LastIsOnItsWay
      <4>4. CASE pending[r] = Last(u)
        <5>1. pending[r].time = u /\ pending[r].at = sent[u]
          BY <4>4 DEF Last
        <5>2. pending[r] # NoBar
          BY <3>1, <5>1 DEF NoBar
        <5>3. c.time = u
          BY <1>4, <1>7, <3>1, <4>1, <5>1, <5>2
        <5>4. pending[r].at <= c.at
          BY <1>2, <5>1, <5>2, <5>3 DEF LastInv, NewerComesLater
        <5>5. c.at = sent[u]
          BY <1>4, <1>5, <5>1, <5>3, <5>4
        <5> QED
          BY <1>4, <2>2, <3>3, <5>3, <5>5 DEF Last, Updates
      <4>5. CASE \E i \in 1..Len(raw[r]) : raw[r][i] = Last(u)
        <5>1. PICK i \in 1..Len(raw[r]) : raw[r][i] = Last(u)
          BY <4>5
        <5>2. CASE i = 1
          BY <2>2, <3>3, <5>1, <5>2
        <5>3. CASE i # 1
          <6>1. i - 1 \in 1..Len(raw'[r]) /\ (i - 1) + 1 = i
            BY <1>2, <5>3
          <6> QED
            BY <1>2, <3>3, <5>1, <6>1
        <5> QED
          BY <5>2, <5>3
      <4> QED
        BY <3>3, <4>3, <4>4, <4>5
    <3> QED
      BY <3>2, <3>3
  <2> QED
    BY <2>3, <2>4, <2>5 DEF LastInv
<1> QED
  BY <1>4, <1>5, <1>6, <1>7

\* A bar closed by the timer is not waited for any more.
LEMMA FlushLast ==
    ASSUME NEW r \in Routes PROVE IInv /\ LastInv /\ Flush(r) => LastInv'
<1> SUFFICES ASSUME IInv, LastInv, Flush(r) PROVE LastInv'
  OBVIOUS
<1> USE DEF IInv
<1>1. /\ UNCHANGED <<sent, msg, left, raw>> /\ pending[r] # NoBar
      /\ emitted'[r] = pending[r].time /\ pending'[r] = NoBar
      /\ \A s \in Routes : s # r => emitted'[s] = emitted[s] /\ pending'[s] = pending[s]
  BY DEF Flush, Due, TypeOK
<1>2. pending[r].time \in Int /\ emitted[r] \in Int /\ pending[r].time > emitted[r]
  BY <1>1, BarTimes DEF TypeOK, UpdatesArrived
<1>3. NothingIsNewer' /\ NewerComesLater'
  BY <1>1 DEF LastInv, NothingIsNewer, NewerComesLater
<1>4. LastIsOnItsWay'
  <2> SUFFICES ASSUME NEW s \in Routes, NEW u \in Times,
                      sent[u] # -1, u > emitted'[s], u >= pending'[s].time
               PROVE  \/ pending'[s] = Last(u)
                      \/ \E i \in 1..Len(raw[s]) : raw[s][i] = Last(u)
                      \/ msg = Last(u) /\ s \in left
    BY <1>1 DEF LastIsOnItsWay, Last
  <2>1. CASE s # r
    BY <1>1, <2>1 DEF LastInv, LastIsOnItsWay
  <2>2. CASE s = r
    <3>1. u \in Int /\ u > pending[r].time
      BY <1>1, <2>2, TimesAreNat
    <3>2. pending[r] # Last(u)
      BY <1>2, <3>1 DEF Last
    <3>3. u > emitted[r] /\ u >= pending[r].time
      BY <1>2, <3>1
    <3> QED
      BY <2>2, <3>2, <3>3 DEF LastInv, LastIsOnItsWay
  <2> QED
    BY <2>1, <2>2
<1> QED
  BY <1>3, <1>4 DEF LastInv

\* Every step keeps the last update of a bar on its way.
LEMMA StepLast == IInv /\ LastInv /\ [Next]_vars => LastInv'
<1> SUFFICES ASSUME IInv, LastInv, [Next]_vars PROVE LastInv'
  OBVIOUS
<1>1. CASE UNCHANGED vars
  BY <1>1, QuietLast DEF vars, feedIn
<1>2. CASE Advance \/ Cancel
  BY <1>2, QuietLast DEF Advance, Cancel, feedIn
<1>3. ASSUME NEW r \in Routes, Send(r) \/ Handle(r) PROVE LastInv'
  BY <1>3, QuietLast DEF Send, Handle, feedIn
<1>4. CASE Next
  BY <1>1, <1>2, <1>3, <1>4, ReceiveLast, DispatchLast, ReadUpdateLast, FlushLast
     DEF Next, Closer, Stopped
<1> QED
  BY <1>1, <1>4

\* A bar is closed with the last of its updates, or that update is still on
\* its way: none is dropped in the closer, and none overtaken (barcloser.go).
THEOREM BarsCloseWithTheirLast == Spec => ClosedByLastUpdate
<1> DEFINE Complete ==
      \A r \in Routes :
          LET bar == sending'[r]
              last == [time |-> bar.time, at |-> sent[bar.time]] IN
          bar # sending[r] /\ bar # NoBar =>
             \/ bar = last
             \/ \E i \in DOMAIN raw[r] : raw[r][i] = last
             \/ msg = last /\ r \in left
<1>1. IInv /\ LastInv /\ [Next]_vars => [Complete]_vars
  <2> SUFFICES ASSUME IInv, LastInv, Next, NEW r \in Routes,
                      sending'[r] # sending[r], sending'[r] # NoBar
               PROVE  LET bar == sending'[r]
                          last == [time |-> bar.time, at |-> sent[bar.time]] IN
                      \/ bar = last
                      \/ \E i \in DOMAIN raw[r] : raw[r][i] = last
                      \/ msg = last /\ r \in left
    BY DEF vars
  <2>1. \E s \in Routes : ReadUpdate(s) \/ Flush(s) \/ Send(s)
    BY DEF Next, Receive, Advance, Cancel, Stopped, vars, Dispatch, Closer, Handle
  <2>2. ReadUpdate(r) \/ Flush(r) \/ Send(r)
    BY <2>1 DEF ReadUpdate, Update, Flush, Send, IInv, TypeOK
  <2>3. ~Send(r)
    BY DEF Send, IInv, TypeOK
  <2>4. sending'[r] = pending[r] /\ pending[r] # NoBar
    BY <2>2, <2>3 DEF ReadUpdate, Update, Flush, IInv, TypeOK
  <2>5. /\ pending[r].time \in Times /\ pending[r].time > emitted[r]
        /\ pending[r].time \in Int /\ pending[r].time <= pending[r].at
        /\ pending[r].at \in Int
    BY <2>4 DEF IInv, UpdatesArrived, Arrived, TypeOK, Updates
  <2>6. sent[pending[r].time] # -1
    BY <2>4, <2>5, TimesAreNat DEF LastInv, NothingIsNewer
  <2>7. raw[r] \in Seq(Updates)
    BY DEF IInv, TypeOK
  <2>8. DOMAIN raw[r] = 1..Len(raw[r])
    BY <2>7
  <2> DEFINE t == pending[r].time
  <2>9. \/ pending[r] = Last(t)
        \/ \E i \in 1..Len(raw[r]) : raw[r][i] = Last(t)
        \/ msg = Last(t) /\ r \in left
    BY <2>5, <2>6 DEF LastInv, LastIsOnItsWay
  <2> QED
    BY <2>4, <2>8, <2>9 DEF Last
<1> QED
  BY <1>1, InitInv, StepInv, InitLast, StepLast, PTL DEF Spec, ClosedByLastUpdate
=============================================================================
