----------------------------- MODULE LogWindow ------------------------------
(***************************************************************************)
(* The kernel log of manager/observe.go: a goroutine keeps one log stream  *)
(* open at the level asked for, what it reads goes into a bounded window   *)
(* of numbered entries, and the page of web/static/app.js polls for the    *)
(* entries after the number it got last.                                   *)
(***************************************************************************)
EXTENDS Integers, SequencesExt

CONSTANTS
    Levels,       \* log levels other than silent
    Silent,       \* the level at which no stream is opened
    Setters,      \* handlers that can be in SetLevel at once
    BufferSize,   \* logBufferSize
    MaxPerPoll,   \* logMaxPerPoll
    PageSize,     \* entries the page keeps
    MaxEntries    \* bound on the entries read

ASSUME LogWindowAssumption ==
    /\ Silent \notin Levels
    /\ BufferSize \in Nat \ {0}
    /\ MaxPerPoll \in Nat \ {0}
    /\ PageSize \in Nat \ {0}
    /\ MaxEntries \in Nat

VARIABLES
    entries,    \* Observer.entries: the numbers of the retained entries
    nextSeq,    \* Observer.nextSeq
    dropped,    \* Observer.dropped
    level,      \* Observer.level
    connected,  \* Observer.connected
    restart,    \* the restart channel holds its one token
    setter,     \* [Setters -> "idle", or "send" between the unlock and the send]
    pc,         \* what Observer.run is at
    using,      \* the level that run has read
    watch,      \* the watcher of the stream runs
    cancelled,  \* the context of the stream was cancelled
    closed,     \* Close was called
    cursor,     \* page: logs.nextSeq
    page,       \* page: logWindow
    poll,       \* page: the poll on its way, or its answer
    clear       \* page: the clear on its way: what it is at and its answer

windowVars == <<entries, nextSeq, dropped>>
streamVars == <<level, connected, restart, setter, pc, using, watch, cancelled>>
pageVars == <<cursor, page, poll, clear>>
vars == <<windowVars, streamVars, closed, pageVars>>

AllLevels == Levels \cup {Silent}
Seqs == 1..MaxEntries

NoClear == [pc |-> "idle", next |-> 0]
NoPoll == [pc |-> "idle", since |-> 0, entries |-> <<>>, next |-> 0]

Init ==
    /\ entries = <<>>
    /\ nextSeq = 1
    /\ dropped = 0
    /\ level \in Levels
    /\ connected = FALSE
    /\ restart = FALSE
    /\ setter = [s \in Setters |-> "idle"]
    /\ pc = "top"
    /\ using = level
    /\ watch = FALSE
    /\ cancelled = FALSE
    /\ closed = FALSE
    /\ cursor = 0
    /\ page = <<>>
    /\ poll = NoPoll
    /\ clear = NoClear

-----------------------------------------------------------------------------
\* The window.

LastOf(s, n) == IF Len(s) > n THEN SubSeq(s, Len(s) - n + 1, Len(s)) ELSE s

\* append: a full window loses its oldest entry.
AppendEntry ==
    /\ pc = "stream"
    /\ nextSeq <= MaxEntries
    /\ nextSeq' = nextSeq + 1
    /\ IF Len(entries) = BufferSize
       THEN entries' = Append(Tail(entries), nextSeq) /\ dropped' = dropped + 1
       ELSE entries' = Append(entries, nextSeq) /\ UNCHANGED dropped
    /\ UNCHANGED <<streamVars, closed, pageVars>>

\* Logs(since): the entries of the window with a greater number, which are those after
\* the last one without, as the window is in order; the last ones where there are too
\* many.
Logs(since) ==
    LET known == SelectLastInSeq(entries, LAMBDA s : s <= since)
    IN  LastOf(SubSeq(entries, known + 1, Len(entries)), MaxPerPoll)

-----------------------------------------------------------------------------
\* SetLevel: the level is set under the mutex, the token is sent after it.

\* Mutant: without a connected stream there is nothing to restart.
SetLevelUnsent(s, l) ==
    /\ setter[s] = "idle"
    /\ l # level
    /\ level' = l
    /\ connected' = FALSE
    /\ setter' = [setter EXCEPT ![s] = IF connected THEN "send" ELSE "idle"]
    /\ UNCHANGED <<windowVars, restart, pc, using, watch, cancelled, closed, pageVars>>

SetLevel(s, l) ==
    /\ setter[s] = "idle"
    /\ l # level
    /\ level' = l
    /\ connected' = FALSE
    /\ setter' = [setter EXCEPT ![s] = "send"]
    /\ UNCHANGED <<windowVars, restart, pc, using, watch, cancelled, closed, pageVars>>

SendRestart(s) ==
    /\ setter[s] = "send"
    /\ restart' = TRUE
    /\ setter' = [setter EXCEPT ![s] = "idle"]
    /\ UNCHANGED <<windowVars, level, connected, pc, using, watch, cancelled,
                   closed, pageVars>>

-----------------------------------------------------------------------------
\* run and the watcher of a stream.

StreamDone == cancelled \/ closed

LoopFrame == UNCHANGED <<windowVars, level, setter, closed, pageVars>>

\* A stream is opened for the level there is, with a watcher.
Top ==
    /\ pc = "top"
    /\ IF closed
       THEN pc' = "off" /\ UNCHANGED <<using, watch, cancelled>>
       ELSE /\ pc' = "connect"
            /\ using' = level
            /\ watch' = TRUE
            /\ cancelled' = FALSE
    /\ UNCHANGED <<connected, restart>>
    /\ LoopFrame

WatchRestart ==
    /\ watch
    /\ restart
    /\ restart' = FALSE
    /\ cancelled' = TRUE
    /\ watch' = FALSE
    /\ UNCHANGED <<connected, pc, using>>
    /\ LoopFrame

\* Mutant: run waits for the watcher without having cancelled its context.
WatchEndsLate ==
    /\ watch
    /\ StreamDone
    /\ watch' = FALSE
    /\ UNCHANGED <<connected, restart, pc, using, cancelled>>
    /\ LoopFrame

\* The context of the stream is done: run cancels it when consume has returned.
WatchEnds ==
    /\ watch
    /\ StreamDone \/ pc = "ended"
    /\ watch' = FALSE
    /\ UNCHANGED <<connected, restart, pc, using, cancelled>>
    /\ LoopFrame

\* consume: StreamLogs answers or fails; at silent there is nothing to read.
Connect ==
    /\ pc = "connect"
    /\ using # Silent
    /\ \/ pc' = "stream" /\ connected' = TRUE
       \/ pc' = "ended" /\ UNCHANGED connected
    /\ UNCHANGED <<restart, using, watch, cancelled>>
    /\ LoopFrame

\* Mutant: the context of the stream is not one of the service.
QuietDetached ==
    /\ pc = "connect"
    /\ using = Silent
    /\ cancelled
    /\ pc' = "ended"
    /\ UNCHANGED <<connected, restart, using, watch, cancelled>>
    /\ LoopFrame

Quiet ==
    /\ pc = "connect"
    /\ using = Silent
    /\ StreamDone
    /\ pc' = "ended"
    /\ UNCHANGED <<connected, restart, using, watch, cancelled>>
    /\ LoopFrame

\* The kernel ends the stream, or the context does.
StreamEnds ==
    /\ pc = "stream"
    /\ pc' = "ended"
    /\ UNCHANGED <<connected, restart, using, watch, cancelled>>
    /\ LoopFrame

\* The watcher is gone: the loop waits, or ends.
Disconnect ==
    /\ pc = "ended"
    /\ ~watch
    /\ IF closed THEN pc' = "off" /\ UNCHANGED connected
                 ELSE pc' = "backoff" /\ connected' = FALSE
    /\ UNCHANGED <<restart, using, watch, cancelled>>
    /\ LoopFrame

\* The wait ends with the service, a restart or its time, whichever the select takes.
Backoff ==
    /\ pc = "backoff"
    /\ \/ closed /\ pc' = "off" /\ UNCHANGED restart
       \/ restart /\ pc' = "top" /\ restart' = FALSE
       \/ pc' = "top" /\ UNCHANGED restart
    /\ UNCHANGED <<connected, using, watch, cancelled>>
    /\ LoopFrame

Close ==
    /\ ~closed
    /\ closed' = TRUE
    /\ UNCHANGED <<windowVars, streamVars, pageVars>>

-----------------------------------------------------------------------------
\* The page.  One poll is on its way at a time, and none is sent during a clear; a
\* clear may begin while a poll is on its way.

PageFrame == UNCHANGED <<streamVars, closed>>

SendPoll ==
    /\ poll.pc = "idle"
    /\ clear = NoClear
    /\ poll' = [NoPoll EXCEPT !.pc = "sent", !.since = cursor]
    /\ UNCHANGED <<windowVars, cursor, page, clear>>
    /\ PageFrame

\* readLogs.
AnswerPoll ==
    /\ poll.pc = "sent"
    /\ poll' = [poll EXCEPT !.pc = "answered", !.entries = Logs(poll.since),
                            !.next = nextSeq]
    /\ UNCHANGED <<windowVars, cursor, page, clear>>
    /\ PageFrame

\* Mutant: the page takes the number after the next one.
ReceivePollPast ==
    /\ poll.pc = "answered"
    /\ cursor' = poll.next + 1
    /\ page' = LastOf(page \o poll.entries, PageSize)
    /\ poll' = NoPoll
    /\ UNCHANGED <<windowVars, clear>>
    /\ PageFrame

\* pollObserve takes the next number of the answer as its own, and appendLogs.
ReceivePoll ==
    /\ poll.pc = "answered"
    /\ cursor' = poll.next
    /\ page' = LastOf(page \o poll.entries, PageSize)
    /\ poll' = NoPoll
    /\ UNCHANGED <<windowVars, clear>>
    /\ PageFrame

LosePoll ==
    /\ poll.pc # "idle"
    /\ poll' = NoPoll
    /\ UNCHANGED <<windowVars, cursor, page, clear>>
    /\ PageFrame

\* Mutant: the count of dropped entries survives the window it is about.
ClearKeepsDropped ==
    /\ clear = NoClear
    /\ entries' = <<>>
    /\ clear' = [clear EXCEPT !.pc = "emptied"]
    /\ UNCHANGED <<nextSeq, dropped, cursor, page, poll>>
    /\ PageFrame

\* Mutant: a cleared window starts again at one.
ClearRenumbers ==
    /\ clear = NoClear
    /\ entries' = <<>>
    /\ dropped' = 0
    /\ nextSeq' = 1
    /\ clear' = [clear EXCEPT !.pc = "emptied"]
    /\ UNCHANGED <<cursor, page, poll>>
    /\ PageFrame

\* DELETE /api/logs: the window is emptied, the numbers go on; then Logs(0) answers.
Clear ==
    /\ clear = NoClear
    /\ entries' = <<>>
    /\ dropped' = 0
    /\ clear' = [clear EXCEPT !.pc = "emptied"]
    /\ UNCHANGED <<nextSeq, cursor, page, poll>>
    /\ PageFrame

AnswerClear ==
    /\ clear.pc = "emptied"
    /\ clear' = [pc |-> "answered", next |-> nextSeq]
    /\ UNCHANGED <<windowVars, cursor, page, poll>>
    /\ PageFrame

\* The page drops its entries and those of the answer.
ReceiveClear ==
    /\ clear.pc = "answered"
    /\ page' = <<>>
    /\ cursor' = clear.next
    /\ clear' = NoClear
    /\ UNCHANGED <<windowVars, poll>>
    /\ PageFrame

LoseClear ==
    /\ clear.pc = "answered"
    /\ clear' = NoClear
    /\ UNCHANGED <<windowVars, cursor, page, poll>>
    /\ PageFrame

LoopStep == Top \/ Connect \/ Quiet \/ StreamEnds \/ Disconnect \/ Backoff

Next ==
    \/ AppendEntry
    \/ \E s \in Setters : SendRestart(s) \/ \E l \in AllLevels : SetLevel(s, l)
    \/ LoopStep \/ WatchRestart \/ WatchEnds
    \/ Close
    \/ SendPoll \/ AnswerPoll \/ ReceivePoll \/ LosePoll
    \/ Clear \/ AnswerClear \/ ReceiveClear \/ LoseClear

Spec == Init /\ [][Next]_vars

\* The goroutines go on; a stream may last for ever unless its context is done.
Fairness ==
    /\ WF_vars(Top) /\ WF_vars(Connect) /\ WF_vars(Quiet)
    /\ WF_vars(StreamDone /\ StreamEnds)
    /\ WF_vars(Disconnect) /\ WF_vars(Backoff)
    /\ WF_vars(WatchRestart) /\ WF_vars(WatchEnds)
    /\ \A s \in Setters : WF_vars(SendRestart(s))

FairSpec == Spec /\ Fairness

-----------------------------------------------------------------------------
(***************************************************************************)
(* Properties                                                              *)
(***************************************************************************)
\* Every variable stays in its type.
TypeOK ==
    /\ entries \in Seq(Seqs)
    /\ nextSeq \in 1..(MaxEntries + 1)
    /\ dropped \in 0..MaxEntries
    /\ level \in AllLevels
    /\ connected \in BOOLEAN /\ restart \in BOOLEAN
    /\ setter \in [Setters -> {"idle", "send"}]
    /\ pc \in {"top", "connect", "stream", "ended", "backoff", "off"}
    /\ using \in AllLevels
    /\ watch \in BOOLEAN /\ cancelled \in BOOLEAN /\ closed \in BOOLEAN
    /\ cursor \in 0..(MaxEntries + 1)
    /\ page \in Seq(Seqs)
    /\ poll.pc \in {"idle", "sent", "answered"}
    /\ poll.since \in 0..(MaxEntries + 1) /\ poll.next \in 0..(MaxEntries + 1)
    /\ poll.entries \in Seq(Seqs)
    /\ clear \in [pc : {"idle", "emptied", "answered"}, next : 0..(MaxEntries + 1)]

\* The window holds the latest entries without a hole, never more than its size, and
\* entries count as dropped only where a full window had no room for them.
WindowIsRecent ==
    /\ Len(entries) <= BufferSize
    /\ \A i \in 1..Len(entries) : entries[i] = nextSeq - 1 - Len(entries) + i
    /\ dropped > 0 => Len(entries) = BufferSize
    /\ dropped + Len(entries) < nextSeq

\* The page shows no entry twice and never out of order, whatever polls and clears
\* overtake each other.
PageIsInOrder == \A i \in 1..(Len(page) - 1) : page[i] < page[i + 1]

\* A stream that was opened for another level than the one set is about to end: its
\* context is done, or a restart is on its way to its watcher.
StaleStreamEnds ==
    pc \in {"connect", "stream"} /\ using # level =>
        StreamDone \/ (watch /\ (restart \/ \E s \in Setters : setter[s] = "send"))

\* A poll "reports a gap through Dropped rather than silently skipping entries"
\* (observe.go:230) to a client that carries the last nextSeq (API.md:108): when
\* nothing was dropped, a poll that takes the page from one number to the next
\* brings every retained entry between them.
NothingSkipped ==
    [][ReceivePoll /\ dropped = 0 =>
          \A i \in 1..Len(entries) :
              entries[i] \in cursor..(cursor' - 1) => Contains(page', entries[i])]_vars

\* A level that is set and kept is used by the stream in the end.
LevelTakesEffect ==
    \A l \in AllLevels :
        level = l ~> (level # l \/ closed \/ (using = l /\ pc \in {"connect", "stream"}))

\* Close waits for the goroutine, and the goroutine for its watcher: both end.
CloseReturns == closed ~> (pc = "off" /\ ~watch)
=============================================================================
