------------------------------ MODULE Recorder ------------------------------
(***************************************************************************)
(* The recording of the raw market stream (src/internal/engine/wsrecord/   *)
(* recorder.go).  The loop that reads the stream hands every message to    *)
(* Record, which must never wait; one goroutine writes them behind it, a   *)
(* file per day, each session of the bot a gzip member of its own.  The    *)
(* day is that of receipt, though the message may be written after         *)
(* midnight.  A member that was not closed is cut: a reader of the file    *)
(* gets its beginning and nothing of the members behind it.                *)
(*                                                                         *)
(* When the bot ends, Close lets the writer empty the queue, but nobody    *)
(* waits for the loop that reads the stream: what it records after that is *)
(* lost.  The disk may fail, and bufio and gzip refuse everything after    *)
(* their first error; the process may die at any moment.                   *)
(***************************************************************************)
EXTENDS Integers, SequencesExt

CONSTANTS
    RecordingDays,  \* bound: the days of the clock
    MaxMessages,    \* bound: messages received
    BufferSize,     \* bufferSize
    MaxFaults       \* bound: failures of the disk and deaths of the process

VARIABLES
    today,      \* the day on the clock
    received,   \* the day of receipt of each message, in order of receipt
    queue,      \* r.in: numbers of messages
    dropped,    \* r.dropped, with the messages it counts
    lost,       \* messages whose loss is logged, or that a crash or the end took
    current,    \* f: the open file, or NoFile
    files,      \* of each day: the members its file has from earlier writers
    phase,      \* "off", "running", "closing": in Close, "closed": Close is back
    faults,     \* failures so far
    spoilt      \* days on which a writer of the file failed or died

recorderVars ==
    <<today, received, queue, dropped, lost, current, files, phase, faults, spoilt>>

NoFile == [day |-> 0]

Opened(day) == [day |-> day, disk |-> <<>>, buffer |-> <<>>, broken |-> FALSE]

-----------------------------------------------------------------------------
(* What becomes of the open file                                           *)

\* Its member, ended properly or cut after so many of the buffered messages.
Whole == [text |-> current.disk \o current.buffer, closed |-> TRUE]
Cut(k) == [text |-> current.disk \o SubSeq(current.buffer, 1, k), closed |-> FALSE]

Put(member) == [files EXCEPT ![current.day] = Append(@, member)]

ClosedWell ==
    /\ ~current.broken
    /\ files' = Put(Whole)
    /\ UNCHANGED <<lost, faults, spoilt>>

\* The writer is gone or its disk fails: the rest of the buffer goes with it.
Abandoned(alsoLost) ==
    \E k \in 0..Len(current.buffer) :
       /\ \/ files' = Put(Cut(k))
          \/ Cut(k).text = <<>> /\ UNCHANGED files   \* not a byte has reached the disk
       /\ lost' = lost \cup alsoLost
                    \cup {current.buffer[i] : i \in (k + 1)..Len(current.buffer)}
       /\ spoilt' = spoilt \cup {current.day}

\* closeDay; a file whose writer has failed before cannot be ended properly.
CloseDay ==
    \/ ClosedWell
    \/ /\ Abandoned({})
       /\ IF current.broken THEN UNCHANGED faults
          ELSE faults < MaxFaults /\ faults' = faults + 1

-----------------------------------------------------------------------------
Init ==
    /\ today = 1 /\ received = <<>>
    /\ queue = <<>> /\ dropped = {} /\ lost = {}
    /\ current = NoFile /\ files = [d \in 1..RecordingDays |-> <<>>]
    /\ phase = "off" /\ faults = 0 /\ spoilt = {}

NextDay ==
    /\ today < RecordingDays
    /\ today' = today + 1
    /\ UNCHANGED <<received, queue, dropped, lost, current, files, phase, faults, spoilt>>

\* New: the bot starts, perhaps again on the same day.
Start ==
    /\ phase = "off"
    /\ phase' = "running"
    /\ UNCHANGED <<today, received, queue, dropped, lost, current, files, faults, spoilt>>

\* Record: a full queue drops the message.  After Close nobody reads the queue.
Record ==
    LET m == Len(received) + 1 IN
    /\ phase # "off" /\ m <= MaxMessages
    /\ received' = Append(received, today)
    /\ CASE phase = "closed" -> lost' = lost \cup {m} /\ UNCHANGED <<queue, dropped>>
         [] phase # "closed" /\ Len(queue) < BufferSize ->
                queue' = Append(queue, m) /\ UNCHANGED <<lost, dropped>>
         [] OTHER -> dropped' = dropped \cup {m} /\ UNCHANGED <<lost, queue>>
    /\ UNCHANGED <<today, current, files, phase, faults, spoilt>>

\* write, into the file that is open.
WriteOn(m) ==
    /\ current # NoFile /\ current.day = received[m]
    /\ IF current.broken
       THEN lost' = lost \cup {m} /\ UNCHANGED current
       ELSE current' = [current EXCEPT !.buffer = Append(@, m)] /\ UNCHANGED lost
    /\ UNCHANGED <<files, faults, spoilt>>

\* write, when another day's file is open: it is closed first.
TurnPage(m) ==
    /\ current # NoFile /\ current.day # received[m]
    /\ CloseDay
    /\ current' = NoFile

OpenDay(m) ==
    /\ current = NoFile
    /\ UNCHANGED <<files, spoilt>>
    /\ \/ /\ current' = [Opened(received[m]) EXCEPT !.buffer = <<m>>]
          /\ UNCHANGED <<lost, faults>>
       \/ /\ faults < MaxFaults /\ faults' = faults + 1
          /\ lost' = lost \cup {m}
          /\ UNCHANGED current

\* The writer takes the next message, and keeps it while it turns the page.
Write ==
    /\ phase \in {"running", "closing"} /\ queue # <<>>
    /\ \/ (WriteOn(Head(queue)) \/ OpenDay(Head(queue))) /\ queue' = Tail(queue)
       \/ TurnPage(Head(queue)) /\ UNCHANGED queue
    /\ UNCHANGED <<today, received, dropped, phase>>

\* The ticker of five seconds.
Flush ==
    /\ phase = "running" /\ current # NoFile /\ ~current.broken /\ current.buffer # <<>>
    /\ \E k \in 0..Len(current.buffer) :
          /\ current' = [current EXCEPT !.disk = @ \o SubSeq(current.buffer, 1, k),
                                        !.buffer = <<>>, !.broken = k < Len(current.buffer)]
          /\ lost' = lost \cup {current.buffer[i] : i \in (k + 1)..Len(current.buffer)}
          /\ IF k = Len(current.buffer) THEN UNCHANGED <<faults, spoilt>>
             ELSE /\ faults < MaxFaults /\ faults' = faults + 1
                  /\ spoilt' = spoilt \cup {current.day}
    /\ UNCHANGED <<today, received, queue, dropped, files, phase>>

\* Close is called: the run is over.
Stop ==
    /\ phase = "running"
    /\ phase' = "closing"
    /\ UNCHANGED <<today, received, queue, dropped, lost, current, files, faults, spoilt>>

\* Seeded fault: the writer returns as soon as it is told to.
Finished_AtOnce == phase = "closing"

\* The writer was told to end and has found the queue empty.
Finished == phase = "closing" /\ queue = <<>>

Drained ==
    /\ Finished
    /\ IF current = NoFile THEN UNCHANGED <<files, lost, faults, spoilt>> ELSE CloseDay
    /\ current' = NoFile /\ phase' = "closed"
    /\ UNCHANGED <<today, received, queue, dropped>>

\* main returns.
Exit ==
    /\ phase = "closed"
    /\ phase' = "off" /\ queue' = <<>>
    /\ UNCHANGED <<today, received, dropped, lost, current, files, faults, spoilt>>

Crash ==
    /\ phase # "off"
    /\ faults < MaxFaults /\ faults' = faults + 1
    /\ IF current = NoFile
       THEN lost' = lost \cup ToSet(queue) /\ UNCHANGED <<files, spoilt>>
       ELSE Abandoned(ToSet(queue))
    /\ current' = NoFile /\ queue' = <<>> /\ phase' = "off"
    /\ UNCHANGED <<today, received, dropped>>

Next ==
    \/ NextDay \/ Start \/ Record \/ Write \/ Flush \/ Stop \/ Drained \/ Exit \/ Crash

-----------------------------------------------------------------------------
Text(members) == FlattenSeq([i \in DOMAIN members |-> members[i].text])

\* What a reader of the file gets: all up to the end of the first cut member.
Readable(members) ==
    LET cut == SelectInSeq(members, LAMBDA member : ~member.closed) IN
    Text(IF cut = 0 THEN members ELSE SubSeq(members, 1, cut))

IsOpen(day) == current # NoFile /\ current.day = day

Written(day) ==
    Text(files[day]) \o (IF IsOpen(day) THEN current.disk \o current.buffer ELSE <<>>)

\* What was received on the day, but for what is still to be written, was dropped
\* for want of room, or was lost in a way that is known.
Expected(day) ==
    {m \in 1..Len(received) :
        received[m] = day /\ m \notin ToSet(queue) \cup dropped \cup lost}

\* In the order of receipt, and none twice.
InOrder(text) == \A i, j \in DOMAIN text : i < j => text[i] < text[j]

\* "Close writes the queue and closes the file", Record never waits and a restart
\* continues the day's file: whatever the order of midnight, messages, flushes,
\* ends and starts, each message is in the file of the day it was received, once
\* and in order, unless it is accounted for otherwise; and the file of a day on
\* which no writer died or lost its disk can be read to its end.
RecordingIsComplete ==
    \A day \in DOMAIN files :
        /\ InOrder(Written(day)) /\ ToSet(Written(day)) = Expected(day)
        /\ day \notin spoilt /\ ~IsOpen(day) => Readable(files[day]) = Written(day)
=============================================================================
