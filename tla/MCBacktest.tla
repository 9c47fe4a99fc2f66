----------------------------- MODULE MCBacktest -----------------------------
(***************************************************************************)
(* The programs that keep bars and messages in files, and the one that     *)
(* reads the bars again, as one instance for TLC: the recording of the     *)
(* stream (Recorder), sync-history and its kin, which download bars        *)
(* (History), and the backtest, which shows them to the slots (Backtest).  *)
(* They share nothing but finished files, so a behaviour is one of the     *)
(* three.                                                                  *)
(*                                                                         *)
(* Of Backtest: three slots on two tickers, one of them with bars of two   *)
(* minutes.  A day is four minutes long, so the last long bar begins       *)
(* before EOD and ends at midnight, as the quarter-hour bar 23:45 of an    *)
(* evening session with EOD at 23:50 does.                                 *)
(***************************************************************************)
EXTENDS Backtest

CONSTANTS
    MaxNow, ChunkBars, MaxRetries,                          \* of History
    RecordingDays, MaxMessages, BufferSize, MaxFaults       \* of Recorder

\* A window has bars: maxBarsPerReq.
ASSUME HistoryAssumption == MaxNow \in Nat /\ ChunkBars \in Nat \ {0}

\* The clock has a day.
ASSUME RecorderAssumption == RecordingDays \in Nat \ {0}

VARIABLES
    program,    \* "backtest", "history" or "recording"
    now, traded, token, file, tail, job, answer, memory, result,
    today, received, queue, dropped, lost, current, files, phase, faults, spoilt

historyVars == <<now, traded, token, file, tail, job, answer, memory, result>>

recorderVars ==
    <<today, received, queue, dropped, lost, current, files, phase, faults, spoilt>>

Download == INSTANCE History
Recording == INSTANCE Recorder

MCRank == [a |-> 1, b |-> 2, c |-> 3]
MCTickerOf == [a |-> "t", b |-> "t", c |-> "u"]
MCFrame == [t |-> 1, u |-> 2]

\* The experiment of b has the second day off.
MCSession == [s \in {"a", "b", "c"} |->
    [open |-> 1, delay |-> 0, eod |-> 3, days |-> IF s = "b" THEN {1} ELSE {1, 2}]]

MCHistoryEnd == [day |-> 2, minute |-> 3]

MCSignals == {[direction |-> "BUY", price |-> 3, stop |-> 2],
              [direction |-> "SELL", price |-> 3, stop |-> 5]}

MCInit ==
    /\ Init /\ Download!Init /\ Recording!Init
    /\ program \in {"backtest", "history", "recording"}
    /\ program # "history" => traded = {}

MCNext ==
    /\ UNCHANGED program
    /\ \/ program = "backtest" /\ Next /\ UNCHANGED <<historyVars, recorderVars>>
       \/ program = "history" /\ Download!Next /\ UNCHANGED <<vars, recorderVars>>
       \/ program = "recording" /\ Recording!Next /\ UNCHANGED <<vars, historyVars>>

MCSpec == MCInit /\ [][MCNext]_<<program, vars, historyVars, recorderVars>>

\* Every download that reports success is complete (see History).
HistoryIsComplete == Download!HistoryIsComplete

\* Every message is in the file of its day or accounted for (see Recorder).
RecordingIsComplete == Recording!RecordingIsComplete
=============================================================================
