------------------------------- MODULE History -------------------------------
(***************************************************************************)
(* The download of recorded bars (src/internal/engine/marketdata): a range *)
(* of time in chunks, with retries and one renewal of the access token per *)
(* chunk.  sync writes a CSV file chunk by chunk and goes on from its last *)
(* bar after a crash; fetch keeps the bars in memory, for the warm-up of   *)
(* the bot and the charts.                                                 *)
(*                                                                         *)
(* Bar k covers the time from k to k + 1.  The instant "now" lies inside   *)
(* the bar of that number, which is still forming: it is among the bars    *)
(* the server returns, with the values it has so far.  The windows of two  *)
(* requests may meet in a bar that the server returns twice.               *)
(***************************************************************************)
EXTENDS SequencesExt, Integers

CONSTANTS
    MaxNow,     \* bound: the last bar of the market
    ChunkBars,  \* maxBarsPerReq
    MaxRetries  \* FetchConfig.MaxRetries

VARIABLES
    now,        \* the bar that is forming
    traded,     \* the bars in which anybody trades
    token,      \* the access token is accepted
    file,       \* the rows of the CSV file: [bar, final]
    tail,       \* how the file ends: "whole", "cut" or "broken"
    job,        \* the download that is running, or NoJob
    answer,     \* bars received and not yet written
    memory,     \* what a fetch has collected
    result      \* how the last download ended, and what it covered

vars == <<now, traded, token, file, tail, job, answer, memory, result>>

NoJob == [kind |-> "none", start |-> 0, to |-> 0, attempt |-> 0, reauthed |-> FALSE]
NoResult == [kind |-> "none", ok |-> FALSE, to |-> 0]

Running == job # NoJob
Asking == Running /\ answer = <<>>

Bars(rows) == {rows[i].bar : i \in DOMAIN rows}
Ascending(rows) == \A i, j \in DOMAIN rows : i < j => rows[i].bar < rows[j].bar
LastBar(rows) == IF rows = <<>> THEN -1 ELSE Last(rows).bar

-----------------------------------------------------------------------------
(* Windows                                                                 *)

\* A window of ChunkBars, both ends included, cut at the end of the range.
Window == {b \in job.start..job.to : b <= job.start + ChunkBars}

Offered == traded \cap Window
Seam == traded \cap {job.start - 1}

\* Seeded fault: the next window begins where the last one ended.
NextStart_ByWindow(bars) == job.start + ChunkBars

\* nextChunkStart: after the last bar received, for the server may have cut
\* its answer short, and past the window when it was empty.
NextStart(bars) ==
    IF bars # <<>> THEN LastBar(bars) + 1
    ELSE IF job.start + ChunkBars <= job.to THEN job.start + ChunkBars
    ELSE job.to + 1

\* The download goes on with the next chunk, whose retries begin anew, or ends;
\* a sync that leaves an empty file is a failure.
Proceed(bars) ==
    IF NextStart(bars) <= job.to
    THEN /\ job' = [job EXCEPT !.start = NextStart(bars), !.attempt = 0, !.reauthed = FALSE]
         /\ UNCHANGED result
    ELSE /\ job' = NoJob
         /\ result' = [kind |-> job.kind, to |-> job.to,
                       ok |-> job.kind = "fetch" \/ file \o bars # <<>>]

Fail ==
    /\ job' = NoJob
    /\ result' = [kind |-> job.kind, ok |-> FALSE, to |-> job.to]

-----------------------------------------------------------------------------
(* The two downloads                                                       *)

Begin(kind, from) ==
    /\ ~Running
    /\ from <= now
    /\ job' = [kind |-> kind, start |-> from, to |-> now, attempt |-> 0, reauthed |-> FALSE]
    /\ result' = NoResult
    /\ memory' = <<>>
    /\ UNCHANGED <<now, traded, token, file, tail, answer>>

\* LoadCSV: a row that does not parse fails the whole file.
Readable == tail # "broken"

\* syncOneTicker: from the last row of the file; a file that cannot be read
\* is an error, and stays one.
Sync == Readable /\ Begin("sync", LastBar(file) + 1)

\* FetchCandlesWithConfig
Fetch == Begin("fetch", 0)

\* A request is answered with at least the first of the bars it asks for, and
\* perhaps with the one before them.  The bars are sorted as they come in.
Answered ==
    /\ Asking /\ token
    /\ \E n \in 1..ChunkBars : \E bars \in [1..n -> Offered \cup Seam] :
          /\ bars[n] \in Offered
          /\ \A i, j \in 1..n : i < j => bars[i] < bars[j]
          /\ \A b \in Offered : b <= bars[n] => \E i \in 1..n : b = bars[i]
          /\ answer' = [i \in 1..n |-> [bar |-> bars[i], final |-> bars[i] < now]]
    /\ UNCHANGED <<now, traded, token, file, tail, job, memory, result>>

\* Nobody traded in the window: a night, a holiday.
NothingThere ==
    /\ Asking /\ token /\ Offered = {}
    /\ Proceed(<<>>)
    /\ UNCHANGED <<now, traded, token, file, tail, answer, memory>>

\* candlesAfter and dedupeCandles: from the first bar on that is newer than the
\* last one kept.
CandlesAfter(last, bars) ==
    LET first == SelectInSeq(bars, LAMBDA b : b.bar > last) IN
    IF first = 0 THEN <<>> ELSE SubSeq(bars, first, Len(bars))

\* The chunk is appended.  A first row that follows a cut one ends on its line.
Keep ==
    /\ Running /\ answer # <<>>
    /\ IF job.kind = "sync"
       THEN /\ file' = file \o CandlesAfter(LastBar(file), answer)
            /\ tail' = IF tail = "cut" THEN "broken" ELSE tail
            /\ UNCHANGED memory
       ELSE /\ memory' = memory \o CandlesAfter(LastBar(memory), answer)
            /\ UNCHANGED <<file, tail>>
    /\ Proceed(answer)
    /\ answer' = <<>>
    /\ UNCHANGED <<now, traded, token>>

\* HTTP 401: Connect, once for a chunk; the retry is not counted.
Unauthorized ==
    /\ Asking /\ ~token
    /\ \/ /\ ~job.reauthed
          /\ token' = TRUE
          /\ job' = [job EXCEPT !.reauthed = TRUE]
          /\ UNCHANGED result
       \/ Fail /\ UNCHANGED token
    /\ UNCHANGED <<now, traded, file, tail, answer, memory>>

\* HTTP 429 or 503: again after a pause, MaxRetries times.
RateLimited ==
    /\ Asking
    /\ IF job.attempt < MaxRetries
       THEN job' = [job EXCEPT !.attempt = @ + 1] /\ UNCHANGED result
       ELSE Fail
    /\ UNCHANGED <<now, traded, token, file, tail, answer, memory>>

\* Any other error is not tried again.
Broken ==
    /\ Asking /\ Fail
    /\ UNCHANGED <<now, traded, token, file, tail, answer, memory>>

\* The process dies.  Rows reach the file through a buffer, so some of the
\* chunk is there, and the last of it may be cut: in the volume, which then
\* still reads as a number, or before it, or behind the header, and the file
\* can no longer be read.
Crash ==
    /\ Running
    /\ IF job.kind = "sync" /\ answer # <<>>
       THEN LET rows == CandlesAfter(LastBar(file), answer) IN
            \E n \in 0..Len(rows), end \in {"whole", "cut", "broken"} :
               /\ end = "cut" => n > 0
               /\ end = "broken" => n < Len(rows)
               /\ file' = file \o SubSeq(rows, 1, n)
               /\ tail' = IF tail = "cut" /\ n > 0 THEN "broken"
                          ELSE IF n = 0 /\ end = "whole" THEN tail ELSE end
       ELSE UNCHANGED <<file, tail>>
    /\ job' = NoJob /\ answer' = <<>> /\ memory' = <<>>
    /\ UNCHANGED <<now, traded, token, result>>

-----------------------------------------------------------------------------
TimePasses ==
    /\ now < MaxNow /\ now' = now + 1
    /\ UNCHANGED <<traded, token, file, tail, job, answer, memory, result>>

TokenExpires ==
    /\ token /\ token' = FALSE
    /\ UNCHANGED <<now, traded, file, tail, job, answer, memory, result>>

Init ==
    /\ now = 0
    /\ traded \in SUBSET (0..MaxNow)
    /\ token = TRUE
    /\ file = <<>> /\ tail = "whole"
    /\ job = NoJob /\ answer = <<>> /\ memory = <<>>
    /\ result = NoResult

Next ==
    \/ Sync \/ Fetch
    \/ Answered \/ NothingThere \/ Keep
    \/ Unauthorized \/ RateLimited \/ Broken \/ Crash
    \/ TimePasses \/ TokenExpires

Spec == Init /\ [][Next]_vars

-----------------------------------------------------------------------------
Lists(rows, bars) == Ascending(rows) /\ Bars(rows) = bars

\* A download that reports success has every bar of its range, each once and
\* in order, whatever answers were cut short, windows empty, requests refused
\* or processes killed on the way, in this download or in earlier ones that
\* wrote the same file (fetchTickerRange, FetchCandlesWithConfig).  Excepted is
\* a file that a crash has spoiled: see tail.
HistoryIsComplete ==
    result.ok /\ ~Running =>
        \/ result.kind = "fetch" /\ Lists(memory, traded \cap 0..result.to)
        \/ result.kind = "sync" /\ (tail = "broken" \/ Lists(file, traded \cap 0..result.to))
=============================================================================
