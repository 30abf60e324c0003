--------------------------- MODULE LogWindowProofs ---------------------------
(***************************************************************************)
(* What LogWindow promises of the window, the page and the stream, for     *)
(* windows, answers and pages of any size and any number of handlers that  *)
(* set the level at once.  What a selection returns follows from the order *)
(* of the window, so that the order and the numbers are one invariant: the *)
(* window holds consecutive numbers, an answer only numbers after the one  *)
(* it was asked for, the page only numbers before the one it asks for.     *)
(***************************************************************************)
EXTENDS LogWindow, SequenceTheorems, TLAPS

\* The numbers of a sequence go up.
Rising(s) == \A i \in 1..(Len(s) - 1) : s[i] < s[i + 1]

-----------------------------------------------------------------------------
\* Lemmas about the operators of the window.

\* The last n elements of a sequence, or all of them.
LEMMA LastOfElements ==
  ASSUME NEW S, NEW s \in Seq(S), NEW n \in Nat
  PROVE  /\ LastOf(s, n) \in Seq(S)
         /\ Len(LastOf(s, n)) <= Len(s)
         /\ \A i \in 1..Len(LastOf(s, n)) :
               LastOf(s, n)[i] = s[Len(s) - Len(LastOf(s, n)) + i]
<1> DEFINE m == Len(s) - n + 1
<1>1. Len(s) \in Nat
  OBVIOUS
<1>2. CASE Len(s) > n
  <2>1. /\ m \in 1..(Len(s) + 1)
        /\ Len(s) \in (m - 1)..Len(s)
        /\ LastOf(s, n) = SubSeq(s, m, Len(s))
    BY <1>1, <1>2 DEF LastOf
  <2> HIDE DEF m
  <2>2. /\ SubSeq(s, m, Len(s)) \in Seq(S)
        /\ Len(SubSeq(s, m, Len(s))) = IF m <= Len(s) THEN Len(s) - m + 1 ELSE 0
        /\ \A i \in 1..(Len(s) - m + 1) : SubSeq(s, m, Len(s))[i] = s[m + i - 1]
    BY <2>1, SubSeqProperties
  <2>3. Len(LastOf(s, n)) = Len(s) - m + 1
    BY <1>1, <2>1, <2>2
  <2>4. ASSUME NEW i \in 1..Len(LastOf(s, n))
        PROVE  LastOf(s, n)[i] = s[Len(s) - Len(LastOf(s, n)) + i]
    <3>1. i \in 1..(Len(s) - m + 1) /\ m \in Int
      BY <1>1, <2>1, <2>3
    <3>2. m + i - 1 = Len(s) - Len(LastOf(s, n)) + i
      BY <1>1, <2>3, <3>1
    <3>3. QED
      BY <2>1, <2>2, <3>1, <3>2
  <2>5. Len(LastOf(s, n)) <= Len(s)
    BY <1>1, <2>1, <2>3
  <2>6. QED
    BY <2>1, <2>2, <2>4, <2>5
<1>3. CASE ~(Len(s) > n)
  BY <1>1, <1>3 DEF LastOf
<1>4. QED
  BY <1>2, <1>3

\* The end of a sequence of numbers that go up is one, too.
LEMMA LastOfRising ==
  ASSUME NEW S \in SUBSET Int, NEW s \in Seq(S), NEW n \in Nat, Rising(s)
  PROVE  Rising(LastOf(s, n))
<1> DEFINE t == LastOf(s, n)
<1>1. /\ t \in Seq(S) /\ Len(t) <= Len(s)
      /\ \A i \in 1..Len(t) : t[i] = s[Len(s) - Len(t) + i]
  BY LastOfElements
<1> HIDE DEF t
<1>2. ASSUME NEW i \in 1..(Len(t) - 1) PROVE t[i] < t[i + 1]
  <2>1. /\ Len(t) \in Nat /\ Len(s) \in Nat
        /\ i \in 1..Len(t) /\ i + 1 \in 1..Len(t)
    BY <1>1
  <2> DEFINE j == Len(s) - Len(t) + i
  <2>2. j \in 1..(Len(s) - 1) /\ j + 1 = Len(s) - Len(t) + (i + 1)
    BY <1>1, <2>1
  <2>3. t[i] = s[j] /\ t[i + 1] = s[j + 1]
    BY <1>1, <2>1, <2>2
  <2>4. QED
    BY <2>2, <2>3 DEF Rising
<1>3. QED
  BY <1>2 DEF Rising, t

\* One sequence of numbers that go up after another whose numbers are all lower.
LEMMA ConcatRising ==
  ASSUME NEW S \in SUBSET Int, NEW s \in Seq(S), NEW t \in Seq(S), Rising(s), Rising(t),
         \A i \in 1..Len(s), j \in 1..Len(t) : s[i] < t[j]
  PROVE  Rising(s \o t)
<1>1. /\ s \o t \in Seq(S) /\ Len(s \o t) = Len(s) + Len(t)
      /\ Len(s) \in Nat /\ Len(t) \in Nat
      /\ \A i \in 1..(Len(s) + Len(t)) :
            (s \o t)[i] = IF i <= Len(s) THEN s[i] ELSE t[i - Len(s)]
  OBVIOUS
<1>2. ASSUME NEW i \in 1..(Len(s \o t) - 1) PROVE (s \o t)[i] < (s \o t)[i + 1]
  <2>0. i \in Nat /\ i >= 1 /\ i + 1 <= Len(s) + Len(t)
    BY <1>1
  <2>1. CASE i + 1 <= Len(s)
    <3>1. (s \o t)[i] = s[i] /\ (s \o t)[i + 1] = s[i + 1] /\ i \in 1..(Len(s) - 1)
      BY <1>1, <2>0, <2>1
    <3>2. QED
      BY <3>1 DEF Rising
  <2>2. CASE i = Len(s)
    <3>1. /\ (s \o t)[i] = s[i] /\ (s \o t)[i + 1] = t[1]
          /\ i \in 1..Len(s) /\ 1 \in 1..Len(t)
      BY <1>1, <2>0, <2>2
    <3>2. QED
      BY <3>1
  <2>3. CASE i > Len(s)
    <3> DEFINE k == i - Len(s)
    <3>1. /\ (s \o t)[i] = t[k] /\ (s \o t)[i + 1] = t[k + 1]
          /\ k \in 1..(Len(t) - 1)
      BY <1>1, <2>0, <2>3
    <3>2. QED
      BY <3>1 DEF Rising
  <2>4. QED
    BY <1>1, <2>0, <2>1, <2>2, <2>3
<1>3. QED
  BY <1>2 DEF Rising

-----------------------------------------------------------------------------
\* What the proofs know of every state.

PollRecords == [pc : {"idle", "sent", "answered"}, since : 0..(MaxEntries + 1),
                entries : Seq(Seqs), next : 0..(MaxEntries + 1)]

Typing == TypeOK /\ poll \in PollRecords

\* An answer on its way holds numbers that go up, after the one it was asked for and
\* before the next one.
AnswerIsNewer ==
    /\ Rising(poll.entries)
    /\ \A i \in 1..Len(poll.entries) :
          poll.since < poll.entries[i] /\ poll.entries[i] < poll.next

\* Nobody is ahead of the window, and an answer takes the page forward.
NumbersExist ==
    /\ cursor <= nextSeq /\ clear.next <= nextSeq
    /\ poll.since <= nextSeq /\ poll.next <= nextSeq
    /\ poll.pc = "answered" => poll.since <= poll.next

\* The page has nothing that it asks for again, now or with the poll on its way.
PageIsOlder ==
    /\ \A i \in 1..Len(page) : page[i] <= cursor
    /\ poll.pc # "idle" => \A i \in 1..Len(page) : page[i] <= poll.since

\* A stream has its watcher until it is about to end.
Watched == pc \in {"connect", "stream"} => watch \/ StreamDone

Sound == /\ Typing /\ WindowIsRecent
         /\ AnswerIsNewer /\ NumbersExist /\ PageIsInOrder /\ PageIsOlder
         /\ Watched /\ StaleStreamEnds

\* The last entry that an answer need not hold is in the window, or there is none,
\* and all after it are newer.
LEMMA KnownEntries ==
  ASSUME TypeOK, WindowIsRecent, NEW since \in Nat
  PROVE  LET known == SelectLastInSeq(entries, LAMBDA s : s <= since)
         IN  /\ known \in 0..Len(entries)
             /\ \A i \in (known + 1)..Len(entries) : since < entries[i]
<1> DEFINE known == SelectLastInSeq(entries, LAMBDA s : s <= since)
           I == {i \in 1..Len(entries) : entries[i] <= since}
           k == IF since - (nextSeq - 1 - Len(entries)) < Len(entries)
                THEN since - (nextSeq - 1 - Len(entries)) ELSE Len(entries)
<1>1. /\ Len(entries) \in Nat /\ nextSeq \in Nat
      /\ \A i \in 1..Len(entries) : entries[i] = nextSeq - 1 - Len(entries) + i
  BY LogWindowAssumption DEF TypeOK, WindowIsRecent
<1>2. known = IF I # {} THEN CHOOSE x \in I : \A y \in I : x >= y ELSE 0
  BY DEF SelectLastInSeq, Max
<1>3. CASE I # {}
  <2>1. k \in I /\ \A y \in I : k >= y
    BY <1>1, <1>3
  <2>2. known \in I /\ \A y \in I : known >= y
    <3> HIDE DEF k, I, known
    <3>1. QED
      BY <1>2, <1>3, <2>1
  <2> HIDE DEF known
  <2>3. known \in 0..Len(entries)
    BY <2>2
  <2>4. ASSUME NEW i \in (known + 1)..Len(entries) PROVE since < entries[i]
    <3>1. i \in 1..Len(entries) /\ ~(known >= i)
      BY <1>1, <2>3
    <3>2. entries[i] \in Nat /\ ~(entries[i] <= since)
      BY <1>1, <2>2, <3>1 DEF TypeOK, Seqs
    <3>3. QED
      BY <3>2
  <2>5. QED
    BY <2>3, <2>4 DEF known
<1>4. CASE I = {}
  <2>1. known = 0
    BY <1>2, <1>4
  <2> HIDE DEF known
  <2>2. ASSUME NEW i \in (known + 1)..Len(entries) PROVE since < entries[i]
    <3>1. i \in 1..Len(entries)
      BY <1>1, <2>1
    <3>2. ~(entries[i] <= since)
      BY <1>4, <3>1
    <3>3. entries[i] \in Int
      BY <1>1, <3>1
    <3>4. QED
      BY <3>2, <3>3
  <2>3. known \in 0..Len(entries)
    BY <1>1, <2>1
  <2>4. QED
    BY <2>2, <2>3 DEF known
<1>5. QED
  BY <1>3, <1>4

\* The window goes up, and its numbers are before the next one.
LEMMA WindowRises ==
  ASSUME TypeOK, WindowIsRecent
  PROVE  /\ Rising(entries)
         /\ \A i \in 1..Len(entries) : entries[i] < nextSeq
<1>1. /\ Len(entries) \in Nat /\ nextSeq \in Nat
      /\ \A i \in 1..Len(entries) : entries[i] = nextSeq - 1 - Len(entries) + i
  BY LogWindowAssumption DEF TypeOK, WindowIsRecent
<1>2. QED
  BY <1>1 DEF Rising

\* What a poll is answered: numbers of the window that go up, all after the one the
\* page knows.
LEMMA LogsAreNewer ==
  ASSUME TypeOK, WindowIsRecent, NEW since \in Nat
  PROVE  /\ Logs(since) \in Seq(Seqs)
         /\ Rising(Logs(since))
         /\ \A i \in 1..Len(Logs(since)) :
               since < Logs(since)[i] /\ Logs(since)[i] < nextSeq
<1> DEFINE known == SelectLastInSeq(entries, LAMBDA s : s <= since)
           new == SubSeq(entries, known + 1, Len(entries))
<1>1. known \in 0..Len(entries) /\ \A i \in (known + 1)..Len(entries) : since < entries[i]
  BY KnownEntries
<1>2. Logs(since) = LastOf(new, MaxPerPoll)
  BY DEF Logs
<1> HIDE DEF known
<1>3. entries \in Seq(Seqs) /\ Len(entries) \in Nat /\ Seqs \subseteq Int
  BY DEF TypeOK, Seqs
<1>4. /\ new \in Seq(Seqs)
      /\ Len(new) = Len(entries) - known
      /\ \A i \in 1..(Len(entries) - known) : new[i] = entries[known + i]
  <2>1. known + 1 \in 1..(Len(entries) + 1) /\ Len(entries) \in ((known + 1) - 1)..Len(entries)
    BY <1>1, <1>3
  <2> DEFINE m == known + 1
  <2>2. m \in 1..(Len(entries) + 1) /\ Len(entries) \in (m - 1)..Len(entries)
    BY <2>1
  <2> HIDE DEF m
  <2>3. /\ SubSeq(entries, m, Len(entries)) \in Seq(Seqs)
        /\ Len(SubSeq(entries, m, Len(entries)))
             = IF m <= Len(entries) THEN Len(entries) - m + 1 ELSE 0
        /\ \A i \in 1..(Len(entries) - m + 1) :
              SubSeq(entries, m, Len(entries))[i] = entries[m + i - 1]
    BY <1>3, <2>2, SubSeqProperties
  <2>4. Len(new) = Len(entries) - known
    BY <1>1, <1>3, <2>2, <2>3 DEF m
  <2>5. ASSUME NEW i \in 1..(Len(entries) - known) PROVE new[i] = entries[known + i]
    <3>1. i \in 1..(Len(entries) - m + 1) /\ m + i - 1 = known + i
      BY <1>1, <1>3 DEF m
    <3>2. QED
      BY <2>3, <3>1 DEF m
  <2>6. QED
    BY <2>3, <2>4, <2>5 DEF m
<1> HIDE DEF new
<1>5. \A i \in 1..Len(new) : since < new[i] /\ new[i] < nextSeq
  <2>1. ASSUME NEW i \in 1..Len(new) PROVE since < new[i] /\ new[i] < nextSeq
    <3>1. known + i \in (known + 1)..Len(entries) /\ known + i \in 1..Len(entries)
      BY <1>1, <1>3, <1>4
    <3>2. QED
      BY <1>1, <1>4, <3>1, WindowRises
  <2>2. QED
    BY <2>1
<1>6. Rising(new)
  <2>1. ASSUME NEW i \in 1..(Len(new) - 1) PROVE new[i] < new[i + 1]
    <3>1. /\ known + i \in 1..(Len(entries) - 1) /\ (known + i) + 1 = known + (i + 1)
          /\ i \in 1..(Len(entries) - known) /\ i + 1 \in 1..(Len(entries) - known)
      BY <1>1, <1>3, <1>4
    <3>2. new[i] = entries[known + i] /\ new[i + 1] = entries[(known + i) + 1]
      BY <1>4, <3>1
    <3>3. Rising(entries)
      BY WindowRises
    <3>4. QED
      BY <3>1, <3>2, <3>3 DEF Rising
  <2>2. QED
    BY <2>1 DEF Rising
<1>7. MaxPerPoll \in Nat /\ Seqs \in SUBSET Int
  BY <1>3, LogWindowAssumption
<1>8. /\ LastOf(new, MaxPerPoll) \in Seq(Seqs)
      /\ Len(LastOf(new, MaxPerPoll)) <= Len(new)
      /\ \A i \in 1..Len(LastOf(new, MaxPerPoll)) :
            LastOf(new, MaxPerPoll)[i] = new[Len(new) - Len(LastOf(new, MaxPerPoll)) + i]
  BY <1>4, <1>7, LastOfElements
<1>9. ASSUME NEW i \in 1..Len(LastOf(new, MaxPerPoll))
      PROVE  /\ since < LastOf(new, MaxPerPoll)[i]
             /\ LastOf(new, MaxPerPoll)[i] < nextSeq
  <2>1. Len(new) - Len(LastOf(new, MaxPerPoll)) + i \in 1..Len(new)
    BY <1>4, <1>8
  <2>2. QED
    BY <1>5, <1>8, <2>1
<1>10. Rising(LastOf(new, MaxPerPoll))
  BY <1>4, <1>6, <1>7, LastOfRising
<1>11. QED
  BY <1>2, <1>8, <1>9, <1>10

-----------------------------------------------------------------------------
\* Types.

\* A new entry goes to the end, the oldest one leaves a full window, and what is left
\* is without a hole.
LEMMA AppendKeepsWindow ==
  ASSUME TypeOK, WindowIsRecent, AppendEntry
  PROVE  /\ entries' \in Seq(Seqs) /\ nextSeq' \in 1..(MaxEntries + 1)
         /\ dropped' \in 0..MaxEntries
         /\ WindowIsRecent'
<1> DEFINE rest == IF Len(entries) = BufferSize THEN Tail(entries) ELSE entries
<1>1. /\ entries \in Seq(Seqs) /\ Len(entries) \in Nat /\ nextSeq \in Nat /\ nextSeq >= 1
      /\ nextSeq <= MaxEntries /\ nextSeq \in Seqs /\ dropped \in Nat
      /\ BufferSize \in Nat /\ BufferSize > 0 /\ MaxEntries \in Nat
  BY LogWindowAssumption DEF TypeOK, AppendEntry, Seqs
<1>2. /\ Len(entries) <= BufferSize
      /\ \A i \in 1..Len(entries) : entries[i] = nextSeq - 1 - Len(entries) + i
      /\ dropped > 0 => Len(entries) = BufferSize
      /\ dropped + Len(entries) < nextSeq
  BY DEF WindowIsRecent
<1>3. /\ rest \in Seq(Seqs) /\ Len(rest) \in Nat
      /\ Len(rest) = IF Len(entries) = BufferSize THEN Len(entries) - 1 ELSE Len(entries)
      /\ \A i \in 1..Len(rest) : rest[i] = nextSeq - 1 - Len(rest) + i
  <2>1. CASE Len(entries) = BufferSize
    <3>1. entries # << >>
      BY <1>1, <2>1
    <3>2. /\ Tail(entries) \in Seq(Seqs) /\ Len(Tail(entries)) = Len(entries) - 1
          /\ \A i \in 1..Len(Tail(entries)) : Tail(entries)[i] = entries[i + 1]
      BY <1>1, <3>1, HeadTailProperties
    <3>3. ASSUME NEW i \in 1..Len(Tail(entries))
          PROVE  Tail(entries)[i] = nextSeq - 1 - Len(Tail(entries)) + i
      <4>1. i + 1 \in 1..Len(entries) /\ i \in Int
        BY <1>1, <3>2
      <4>2. entries[i + 1] = nextSeq - 1 - Len(entries) + (i + 1)
        BY <1>2, <4>1
      <4>3. Tail(entries)[i] = entries[i + 1]
        BY <3>2
      <4>4. nextSeq - 1 - Len(entries) + (i + 1) = nextSeq - 1 - Len(Tail(entries)) + i
        BY <1>1, <3>2, <4>1
      <4>5. QED
        BY <4>2, <4>3, <4>4
    <3>4. QED
      BY <1>1, <2>1, <3>2, <3>3
  <2>2. CASE Len(entries) # BufferSize
    BY <1>1, <1>2, <2>2
  <2>3. QED
    BY <2>1, <2>2
<1>4. /\ entries' = Append(rest, nextSeq)
      /\ nextSeq' = nextSeq + 1
      /\ dropped' = IF Len(entries) = BufferSize THEN dropped + 1 ELSE dropped
  BY DEF AppendEntry
<1> HIDE DEF rest
<1>5. /\ entries' \in Seq(Seqs) /\ Len(entries') = Len(rest) + 1
      /\ \A i \in 1..Len(rest) : entries'[i] = rest[i]
      /\ entries'[Len(rest) + 1] = nextSeq
  BY <1>1, <1>3, <1>4, AppendProperties
<1>6. Len(entries') <= BufferSize
  BY <1>1, <1>2, <1>3, <1>5
<1>7. ASSUME NEW i \in 1..Len(entries')
      PROVE  entries'[i] = nextSeq' - 1 - Len(entries') + i
  <2>1. i \in 1..Len(rest) \/ i = Len(rest) + 1
    BY <1>3, <1>5
  <2>2. CASE i \in 1..Len(rest)
    <3>1. entries'[i] = nextSeq - 1 - Len(rest) + i
      BY <1>3, <1>5, <2>2
    <3>2. nextSeq - 1 - Len(rest) + i = nextSeq' - 1 - Len(entries') + i
      BY <1>1, <1>3, <1>4, <1>5, <2>2
    <3>3. QED
      BY <3>1, <3>2
  <2>3. CASE i = Len(rest) + 1
    BY <1>1, <1>3, <1>4, <1>5, <2>3
  <2>4. QED
    BY <2>1, <2>2, <2>3
<1>8. dropped' > 0 => Len(entries') = BufferSize
  BY <1>1, <1>2, <1>3, <1>4, <1>5
<1>9. dropped' + Len(entries') < nextSeq'
  BY <1>1, <1>2, <1>3, <1>4, <1>5
<1>10. nextSeq' \in 1..(MaxEntries + 1)
  BY <1>1, <1>4
<1>11. dropped' \in 0..MaxEntries
  BY <1>1, <1>3, <1>4, <1>5, <1>9
<1>12. QED
  BY <1>5, <1>6, <1>7, <1>8, <1>9, <1>10, <1>11 DEF WindowIsRecent

\* An emptied window has no hole, and its numbers go on.
LEMMA ClearKeepsWindow ==
  ASSUME TypeOK, WindowIsRecent, Clear
  PROVE  entries' \in Seq(Seqs) /\ WindowIsRecent'
<1>1. entries' = << >> /\ dropped' = 0 /\ nextSeq' = nextSeq /\ nextSeq \in Nat /\ nextSeq >= 1
  BY LogWindowAssumption DEF Clear, TypeOK
<1>2. Len(entries') = 0 /\ entries' \in Seq(Seqs)
  BY <1>1
<1>3. QED
  BY <1>1, <1>2, LogWindowAssumption DEF WindowIsRecent

\* What the page shows after an answer are entries.
LEMMA PageOfEntries ==
  ASSUME TypeOK
  PROVE  LastOf(page \o poll.entries, PageSize) \in Seq(Seqs)
<1>1. page \o poll.entries \in Seq(Seqs)
  BY DEF TypeOK
<1>2. PageSize \in Nat
  BY LogWindowAssumption
<1>3. QED
  BY <1>1, <1>2, LastOfElements

LoopAction == LoopStep \/ WatchRestart \/ WatchEnds

\* The variables of the stream keep their types.
LEMMA StreamTypes ==
  ASSUME TypeOK,
         \/ \E s \in Setters : SendRestart(s) \/ \E l \in AllLevels : SetLevel(s, l)
         \/ LoopAction
  PROVE  /\ level' \in AllLevels /\ using' \in AllLevels
         /\ connected' \in BOOLEAN /\ restart' \in BOOLEAN
         /\ watch' \in BOOLEAN /\ cancelled' \in BOOLEAN /\ closed' \in BOOLEAN
         /\ setter' \in [Setters -> {"idle", "send"}]
         /\ pc' \in {"top", "connect", "stream", "ended", "backoff", "off"}
         /\ UNCHANGED <<windowVars, pageVars>>
<1>1. CASE \E s \in Setters : SendRestart(s) \/ \E l \in AllLevels : SetLevel(s, l)
  BY <1>1 DEF TypeOK, SendRestart, SetLevel, windowVars, pageVars
<1>2. CASE LoopAction
  <2>1. /\ level' = level /\ setter' = setter /\ closed' = closed
        /\ UNCHANGED <<windowVars, pageVars>>
    BY <1>2 DEF LoopAction, LoopStep, Top, Connect, Quiet, StreamEnds, Disconnect, Backoff,
       WatchRestart, WatchEnds, LoopFrame, windowVars, pageVars
  <2>2. using' \in AllLevels
    BY <1>2 DEF TypeOK, LoopAction, LoopStep, Top, Connect, Quiet, StreamEnds, Disconnect,
       Backoff, WatchRestart, WatchEnds
  <2>3. pc' \in {"top", "connect", "stream", "ended", "backoff", "off"}
    BY <1>2 DEF TypeOK, LoopAction, LoopStep, Top, Connect, Quiet, StreamEnds, Disconnect,
       Backoff, WatchRestart, WatchEnds
  <2>4. /\ connected' \in {TRUE, FALSE, connected} /\ restart' \in {FALSE, restart}
        /\ watch' \in {TRUE, FALSE, watch} /\ cancelled' \in {TRUE, FALSE, cancelled}
    BY <1>2 DEF LoopAction, LoopStep, Top, Connect, Quiet, StreamEnds, Disconnect,
       Backoff, WatchRestart, WatchEnds
  <2>5. /\ connected' \in BOOLEAN /\ restart' \in BOOLEAN
        /\ watch' \in BOOLEAN /\ cancelled' \in BOOLEAN
    <3>1. /\ connected \in BOOLEAN /\ restart \in BOOLEAN
          /\ watch \in BOOLEAN /\ cancelled \in BOOLEAN
      BY DEF TypeOK
    <3>2. QED
      BY ONLY <2>4, <3>1
  <2>6. QED
    BY <2>1, <2>2, <2>3, <2>5 DEF TypeOK
<1>3. QED
  BY <1>1, <1>2

PageAction ==
    \/ SendPoll \/ AnswerPoll \/ ReceivePoll \/ LosePoll
    \/ AnswerClear \/ ReceiveClear \/ LoseClear

\* The variables of the page keep their types.
LEMMA PageTypes ==
  ASSUME Typing, WindowIsRecent, PageAction \/ Clear
  PROVE  /\ cursor' \in 0..(MaxEntries + 1)
         /\ page' \in Seq(Seqs)
         /\ poll' \in PollRecords
         /\ clear' \in [pc : {"idle", "emptied", "answered"}, next : 0..(MaxEntries + 1)]
         /\ UNCHANGED <<streamVars, closed>>
<1>1. /\ nextSeq \in 0..(MaxEntries + 1) /\ 0 \in 0..(MaxEntries + 1)
      /\ << >> \in Seq(Seqs)
  BY LogWindowAssumption DEF Typing, TypeOK
<1>2. UNCHANGED <<streamVars, closed>>
  BY DEF PageAction, Clear, SendPoll, AnswerPoll, ReceivePoll, LosePoll, AnswerClear,
     ReceiveClear, LoseClear, PageFrame
<1>3. NoPoll \in PollRecords
  BY <1>1 DEF NoPoll, PollRecords
<1>4. poll' \in PollRecords
  <2>1. CASE SendPoll
    BY <1>1, <1>3, <2>1 DEF SendPoll, NoPoll, PollRecords, Typing, TypeOK
  <2>2. CASE AnswerPoll
    <3>1. poll.since \in Nat
      BY LogWindowAssumption DEF Typing, TypeOK
    <3>2. Logs(poll.since) \in Seq(Seqs)
      BY <3>1, LogsAreNewer DEF Typing
    <3>3. QED
      BY <1>1, <2>2, <3>2 DEF AnswerPoll, PollRecords, Typing
  <2>3. CASE ~SendPoll /\ ~AnswerPoll
    BY <1>3, <2>3 DEF PageAction, ReceivePoll, LosePoll, AnswerClear, ReceiveClear,
       LoseClear, Clear, Typing
  <2>4. QED
    BY <2>1, <2>2, <2>3
<1>5. page' \in Seq(Seqs)
  <2>1. CASE ReceivePoll
    BY <2>1, PageOfEntries DEF ReceivePoll, Typing
  <2>2. CASE ~ReceivePoll
    BY <1>1, <2>2 DEF PageAction, SendPoll, AnswerPoll, LosePoll, AnswerClear,
       ReceiveClear, LoseClear, Clear, Typing, TypeOK
  <2>3. QED
    BY <2>1, <2>2
<1>6. cursor' \in 0..(MaxEntries + 1)
  BY DEF PageAction, SendPoll, AnswerPoll, ReceivePoll, LosePoll, AnswerClear,
     ReceiveClear, LoseClear, Clear, Typing, TypeOK
<1>7. clear' \in [pc : {"idle", "emptied", "answered"}, next : 0..(MaxEntries + 1)]
  BY <1>1 DEF PageAction, SendPoll, AnswerPoll, ReceivePoll, LosePoll, AnswerClear,
     ReceiveClear, LoseClear, Clear, NoClear, Typing, TypeOK
<1>8. QED
  BY <1>2, <1>4, <1>5, <1>6, <1>7

LEMMA TypingInit == Init => Typing
<1> SUFFICES ASSUME Init PROVE Typing
  OBVIOUS
<1>1. 0 \in 0..(MaxEntries + 1) /\ 0 \in 0..MaxEntries /\ 1 \in 1..(MaxEntries + 1)
  BY LogWindowAssumption
<1>2. << >> \in Seq(Seqs)
  OBVIOUS
<1>3. poll \in PollRecords
  BY <1>1, <1>2 DEF Init, NoPoll, PollRecords
<1>4. clear \in [pc : {"idle", "emptied", "answered"}, next : 0..(MaxEntries + 1)]
  BY <1>1 DEF Init, NoClear
<1>5. TypeOK
  BY <1>1, <1>2, <1>3, <1>4 DEF Init, TypeOK, AllLevels, PollRecords
<1>6. QED
  BY <1>3, <1>5 DEF Typing

\* Types and the window are one invariant: an entry is typed because the window is in
\* order, and the window is in order because its numbers are typed.
LEMMA TypingStep == Typing /\ WindowIsRecent /\ [Next]_vars => Typing' /\ WindowIsRecent'
<1> SUFFICES ASSUME Typing, WindowIsRecent, [Next]_vars
             PROVE  Typing' /\ WindowIsRecent'
  OBVIOUS
<1>1. TypeOK /\ poll \in PollRecords
  BY DEF Typing
<1> DEFINE SetAction == \E s \in Setters :
                           SendRestart(s) \/ \E l \in AllLevels : SetLevel(s, l)
<1>2. CASE AppendEntry
  <2>1. /\ entries' \in Seq(Seqs) /\ nextSeq' \in 1..(MaxEntries + 1)
        /\ dropped' \in 0..MaxEntries /\ WindowIsRecent'
    BY <1>1, <1>2, AppendKeepsWindow
  <2>2. UNCHANGED <<streamVars, closed, pageVars>>
    BY <1>2 DEF AppendEntry
  <2>3. QED
    BY <1>1, <2>1, <2>2 DEF Typing, TypeOK, streamVars, pageVars
<1>3. CASE SetAction \/ LoopAction
  <2>1. /\ level' \in AllLevels /\ using' \in AllLevels
        /\ connected' \in BOOLEAN /\ restart' \in BOOLEAN
        /\ watch' \in BOOLEAN /\ cancelled' \in BOOLEAN /\ closed' \in BOOLEAN
        /\ setter' \in [Setters -> {"idle", "send"}]
        /\ pc' \in {"top", "connect", "stream", "ended", "backoff", "off"}
        /\ UNCHANGED <<windowVars, pageVars>>
    BY <1>1, <1>3, StreamTypes
  <2>2. WindowIsRecent'
    BY <2>1 DEF WindowIsRecent, windowVars
  <2>3. QED
    BY <1>1, <2>1, <2>2 DEF Typing, TypeOK, windowVars, pageVars
<1>4. CASE PageAction
  <2>1. /\ cursor' \in 0..(MaxEntries + 1)
        /\ page' \in Seq(Seqs)
        /\ poll' \in PollRecords
        /\ clear' \in [pc : {"idle", "emptied", "answered"}, next : 0..(MaxEntries + 1)]
        /\ UNCHANGED <<streamVars, closed>>
    BY <1>4, PageTypes
  <2>2. UNCHANGED windowVars
    BY <1>4 DEF PageAction, SendPoll, AnswerPoll, ReceivePoll, LosePoll, AnswerClear,
       ReceiveClear, LoseClear
  <2>3. WindowIsRecent'
    BY <2>2 DEF WindowIsRecent, windowVars
  <2>4. QED
    BY <1>1, <2>1, <2>2, <2>3 DEF Typing, TypeOK, windowVars, streamVars, PollRecords
<1>5. CASE Clear
  <2>1. /\ cursor' \in 0..(MaxEntries + 1)
        /\ page' \in Seq(Seqs)
        /\ poll' \in PollRecords
        /\ clear' \in [pc : {"idle", "emptied", "answered"}, next : 0..(MaxEntries + 1)]
        /\ UNCHANGED <<streamVars, closed>>
    BY <1>5, PageTypes
  <2>2. entries' \in Seq(Seqs) /\ WindowIsRecent'
    BY <1>1, <1>5, ClearKeepsWindow
  <2>3. nextSeq' = nextSeq /\ dropped' = 0 /\ 0 \in 0..MaxEntries
    BY <1>5, LogWindowAssumption DEF Clear
  <2>4. QED
    BY <1>1, <2>1, <2>2, <2>3 DEF Typing, TypeOK, streamVars, PollRecords
<1>6. CASE Close
  <2>1. closed' = TRUE /\ UNCHANGED <<windowVars, streamVars, pageVars>>
    BY <1>6 DEF Close
  <2>2. QED
    BY <1>1, <2>1 DEF Typing, TypeOK, WindowIsRecent, windowVars, streamVars, pageVars
<1>7. CASE UNCHANGED vars
  BY <1>1, <1>7 DEF Typing, TypeOK, WindowIsRecent, vars, windowVars, streamVars, pageVars
<1>8. QED
  BY <1>2, <1>3, <1>4, <1>5, <1>6, <1>7 DEF Next, PageAction, LoopAction

-----------------------------------------------------------------------------
\* The page and its polls.

LEMMA AnswerStep == Typing /\ WindowIsRecent /\ AnswerIsNewer /\ [Next]_vars => AnswerIsNewer'
<1> SUFFICES ASSUME Typing, WindowIsRecent, AnswerIsNewer, [Next]_vars
             PROVE  AnswerIsNewer'
  OBVIOUS
<1>1. CASE AnswerPoll
  <2>1. poll.since \in Nat /\ TypeOK
    BY LogWindowAssumption DEF Typing, TypeOK
  <2>2. /\ Rising(Logs(poll.since))
        /\ \A i \in 1..Len(Logs(poll.since)) :
              poll.since < Logs(poll.since)[i] /\ Logs(poll.since)[i] < nextSeq
    BY <2>1, LogsAreNewer
  <2>3. /\ poll'.entries = Logs(poll.since) /\ poll'.since = poll.since
        /\ poll'.next = nextSeq
    BY <1>1 DEF AnswerPoll, Typing, PollRecords
  <2>4. QED
    BY <2>2, <2>3 DEF AnswerIsNewer, Rising
<1>2. CASE SendPoll \/ ReceivePoll \/ LosePoll
  <2>1. poll'.entries = << >>
    <3>1. NoPoll.entries = << >>
      BY DEF NoPoll
    <3>2. CASE SendPoll
      BY <3>1, <3>2 DEF SendPoll, NoPoll
    <3>3. CASE ReceivePoll \/ LosePoll
      BY <3>1, <3>3 DEF ReceivePoll, LosePoll
    <3>4. QED
      BY <1>2, <3>2, <3>3
  <2>2. Len(poll'.entries) = 0
    BY <2>1
  <2>3. QED
    BY <2>2 DEF AnswerIsNewer, Rising
<1>3. CASE UNCHANGED poll
  BY <1>3 DEF AnswerIsNewer
<1>4. UNCHANGED poll \/ AnswerPoll \/ SendPoll \/ ReceivePoll \/ LosePoll
  <2>1. CASE LoopStep \/ WatchRestart \/ WatchEnds
    BY <2>1 DEF LoopStep, Top, Connect, Quiet, StreamEnds, Disconnect, Backoff, WatchRestart,
       WatchEnds, LoopFrame, pageVars
  <2>2. CASE \E s \in Setters : SendRestart(s) \/ \E l \in AllLevels : SetLevel(s, l)
    BY <2>2 DEF SendRestart, SetLevel, pageVars
  <2>3. CASE AppendEntry \/ Close \/ UNCHANGED vars
    BY <2>3 DEF AppendEntry, Close, vars, pageVars
  <2>4. CASE Clear \/ AnswerClear \/ ReceiveClear \/ LoseClear
    BY <2>4 DEF Clear, AnswerClear, ReceiveClear, LoseClear
  <2>5. QED
    BY <2>1, <2>2, <2>3, <2>4 DEF Next
<1>5. QED
  BY <1>1, <1>2, <1>3, <1>4

\* What changes the page, its number or its poll.
LEMMA PageFrames ==
  ASSUME [Next]_vars
  PROVE  \/ SendPoll \/ AnswerPoll \/ ReceivePoll \/ LosePoll \/ ReceiveClear
         \/ UNCHANGED <<page, cursor, poll>>
<1>1. CASE LoopStep \/ WatchRestart \/ WatchEnds
  BY <1>1 DEF LoopStep, Top, Connect, Quiet, StreamEnds, Disconnect, Backoff, WatchRestart,
     WatchEnds, LoopFrame, pageVars
<1>2. CASE \E s \in Setters : SendRestart(s) \/ \E l \in AllLevels : SetLevel(s, l)
  BY <1>2 DEF SendRestart, SetLevel, pageVars
<1>3. CASE AppendEntry \/ Close \/ UNCHANGED vars
  BY <1>3 DEF AppendEntry, Close, vars, pageVars
<1>4. CASE Clear \/ AnswerClear \/ LoseClear
  BY <1>4 DEF Clear, AnswerClear, LoseClear
<1>5. QED
  BY <1>1, <1>2, <1>3, <1>4 DEF Next

\* An answer continues the page: what it brings is after all the page has.
LEMMA AnswerContinuesPage ==
  ASSUME Typing, AnswerIsNewer, NumbersExist, PageIsInOrder, PageIsOlder, ReceivePoll
  PROVE  /\ Rising(page')
         /\ \A i \in 1..Len(page') : page'[i] <= poll.next
<1> DEFINE new == page \o poll.entries
<1>1. /\ page \in Seq(Seqs) /\ poll.entries \in Seq(Seqs) /\ Seqs \in SUBSET Int
      /\ PageSize \in Nat /\ poll.pc = "answered" /\ poll \in PollRecords
  BY LogWindowAssumption DEF Typing, TypeOK, Seqs, ReceivePoll
<1>2. Rising(page) /\ Rising(poll.entries)
  BY DEF PageIsInOrder, AnswerIsNewer, Rising
<1>3. /\ \A i \in 1..Len(page) : page[i] \in Int /\ page[i] <= poll.since
      /\ \A i \in 1..Len(poll.entries) :
            /\ poll.entries[i] \in Int
            /\ poll.since < poll.entries[i] /\ poll.entries[i] < poll.next
      /\ poll.since \in Int /\ poll.next \in Int
  <2>1. poll.since \in Int /\ poll.next \in Int
    BY <1>1, LogWindowAssumption DEF PollRecords
  <2>2. ASSUME NEW i \in 1..Len(page) PROVE page[i] \in Int
    <3>1. page[i] \in Seqs
      BY <1>1
    <3>2. QED
      BY <1>1, <3>1
  <2>3. ASSUME NEW i \in 1..Len(poll.entries) PROVE poll.entries[i] \in Int
    <3>1. poll.entries[i] \in Seqs
      BY <1>1
    <3>2. QED
      BY <1>1, <3>1
  <2>4. \A i \in 1..Len(page) : page[i] <= poll.since
    BY <1>1 DEF PageIsOlder
  <2>5. QED
    BY <2>1, <2>2, <2>3, <2>4 DEF AnswerIsNewer
<1>4. \A i \in 1..Len(page), j \in 1..Len(poll.entries) : page[i] < poll.entries[j]
  BY <1>3
<1>5. Rising(new)
  BY <1>1, <1>2, <1>4, ConcatRising
<1>6. new \in Seq(Seqs) /\ Len(new) \in Nat
  BY <1>1
<1>7. ASSUME NEW i \in 1..Len(new) PROVE new[i] <= poll.next
  <2>1. CASE i \in 1..Len(page)
    <3>1. new[i] = page[i] /\ page[i] <= poll.since /\ page[i] \in Int
      BY <1>1, <1>3, <2>1
    <3>2. poll.since <= poll.next
      BY <1>1 DEF NumbersExist
    <3>3. QED
      BY <1>3, <3>1, <3>2
  <2>2. CASE i \notin 1..Len(page)
    <3>1. /\ i - Len(page) \in 1..Len(poll.entries)
          /\ new[i] = poll.entries[i - Len(page)]
      BY <1>1, <2>2
    <3>2. QED
      BY <1>3, <3>1
  <2>3. QED
    BY <2>1, <2>2
<1> HIDE DEF new
<1>8. page' = LastOf(new, PageSize)
  BY DEF ReceivePoll, new
<1>9. /\ LastOf(new, PageSize) \in Seq(Seqs) /\ Len(LastOf(new, PageSize)) <= Len(new)
      /\ \A i \in 1..Len(LastOf(new, PageSize)) :
            LastOf(new, PageSize)[i] = new[Len(new) - Len(LastOf(new, PageSize)) + i]
  BY <1>1, <1>6, LastOfElements
<1>10. ASSUME NEW i \in 1..Len(LastOf(new, PageSize))
       PROVE  LastOf(new, PageSize)[i] <= poll.next
  <2>1. Len(new) - Len(LastOf(new, PageSize)) + i \in 1..Len(new)
    BY <1>6, <1>9
  <2>2. QED
    BY <1>7, <1>9, <2>1
<1>11. Rising(LastOf(new, PageSize))
  BY <1>1, <1>5, <1>6, LastOfRising
<1>12. QED
  BY <1>8, <1>10, <1>11

LEMMA NumbersStep == Typing /\ NumbersExist /\ [Next]_vars => NumbersExist'
<1> SUFFICES ASSUME Typing, NumbersExist, [Next]_vars
             PROVE  NumbersExist'
  OBVIOUS
<1>1. /\ nextSeq \in Int /\ nextSeq >= 1 /\ cursor \in Int /\ poll \in PollRecords
      /\ poll.since \in Int /\ poll.next \in Int /\ clear.next \in Int
  BY LogWindowAssumption DEF Typing, TypeOK, PollRecords
<1>2. nextSeq' \in Int /\ nextSeq' >= nextSeq
  <2>1. nextSeq' = nextSeq \/ nextSeq' = nextSeq + 1
    <3>1. CASE LoopStep \/ WatchRestart \/ WatchEnds
      BY <3>1 DEF LoopStep, Top, Connect, Quiet, StreamEnds, Disconnect, Backoff,
         WatchRestart, WatchEnds, LoopFrame, windowVars
    <3>2. CASE \E s \in Setters : SendRestart(s) \/ \E l \in AllLevels : SetLevel(s, l)
      BY <3>2 DEF SendRestart, SetLevel, windowVars
    <3>3. CASE AppendEntry \/ Close \/ UNCHANGED vars
      BY <3>3 DEF AppendEntry, Close, vars, windowVars
    <3>4. CASE Clear \/ PageAction
      BY <3>4 DEF PageAction, SendPoll, AnswerPoll, ReceivePoll, LosePoll, Clear,
         AnswerClear, ReceiveClear, LoseClear, windowVars
    <3>5. QED
      BY <3>1, <3>2, <3>3, <3>4 DEF Next, PageAction
  <2>2. QED
    BY <1>1, <2>1
<1>3. cursor' \in {cursor, poll.next, clear.next}
  BY PageFrames DEF SendPoll, AnswerPoll, ReceivePoll, LosePoll, ReceiveClear
<1>4. clear'.next \in {clear.next, 0, nextSeq}
  <2>1. CASE LoopStep \/ WatchRestart \/ WatchEnds
    BY <2>1 DEF LoopStep, Top, Connect, Quiet, StreamEnds, Disconnect, Backoff, WatchRestart,
       WatchEnds, LoopFrame, pageVars
  <2>2. CASE \E s \in Setters : SendRestart(s) \/ \E l \in AllLevels : SetLevel(s, l)
    BY <2>2 DEF SendRestart, SetLevel, pageVars
  <2>3. CASE AppendEntry \/ Close \/ UNCHANGED vars
    BY <2>3 DEF AppendEntry, Close, vars, pageVars
  <2>4. CASE Clear \/ AnswerClear \/ ReceiveClear \/ LoseClear
    <3>1. clear \in [pc : {"idle", "emptied", "answered"}, next : 0..(MaxEntries + 1)]
      BY DEF Typing, TypeOK
    <3>2. QED
      BY <2>4, <3>1 DEF Clear, AnswerClear, ReceiveClear, LoseClear, NoClear
  <2>5. CASE SendPoll \/ AnswerPoll \/ ReceivePoll \/ LosePoll
    BY <2>5 DEF SendPoll, AnswerPoll, ReceivePoll, LosePoll
  <2>6. QED
    BY <2>1, <2>2, <2>3, <2>4, <2>5 DEF Next
<1>5. /\ poll'.since \in {0, cursor, poll.since} /\ poll'.next \in {0, nextSeq, poll.next}
      /\ poll'.pc = "answered"
           => \/ poll' = poll
              \/ poll'.since = poll.since /\ poll'.next = nextSeq
  <2>1. CASE SendPoll
    BY <2>1 DEF SendPoll, NoPoll
  <2>2. CASE AnswerPoll
    BY <1>1, <2>2 DEF AnswerPoll, PollRecords
  <2>3. CASE ReceivePoll \/ LosePoll
    BY <2>3 DEF ReceivePoll, LosePoll, NoPoll
  <2>4. CASE UNCHANGED poll
    BY <2>4
  <2>5. QED
    BY <2>1, <2>2, <2>3, <2>4, PageFrames DEF ReceiveClear
<1>6. /\ cursor <= nextSeq /\ clear.next <= nextSeq
      /\ poll.since <= nextSeq /\ poll.next <= nextSeq
      /\ poll.pc = "answered" => poll.since <= poll.next
  BY DEF NumbersExist
<1>7. /\ cursor' <= nextSeq' /\ clear'.next <= nextSeq'
      /\ poll'.since <= nextSeq' /\ poll'.next <= nextSeq'
  BY <1>1, <1>2, <1>3, <1>4, <1>5, <1>6
<1>8. poll'.pc = "answered" => poll'.since <= poll'.next
  BY <1>5, <1>6
<1>9. QED
  BY <1>7, <1>8 DEF NumbersExist

LEMMA PageStep ==
  /\ Typing /\ AnswerIsNewer /\ NumbersExist /\ PageIsInOrder /\ PageIsOlder
  /\ [Next]_vars
  => PageIsInOrder' /\ PageIsOlder'
<1> SUFFICES ASSUME Typing, AnswerIsNewer, NumbersExist, PageIsInOrder, PageIsOlder,
                    [Next]_vars
             PROVE  PageIsInOrder' /\ PageIsOlder'
  OBVIOUS
<1>1. poll \in PollRecords
  BY DEF Typing
<1>2. CASE SendPoll
  <2>1. page' = page /\ cursor' = cursor /\ poll'.since = cursor
    BY <1>2 DEF SendPoll, NoPoll
  <2>2. QED
    BY <2>1 DEF PageIsInOrder, PageIsOlder
<1>3. CASE AnswerPoll
  <2>1. /\ page' = page /\ cursor' = cursor /\ poll'.since = poll.since
        /\ poll.pc = "sent"
    BY <1>1, <1>3 DEF AnswerPoll, PollRecords
  <2>2. QED
    BY <2>1 DEF PageIsInOrder, PageIsOlder
<1>4. CASE ReceivePoll
  <2>1. /\ Rising(page') /\ \A i \in 1..Len(page') : page'[i] <= poll.next
        /\ cursor' = poll.next /\ poll'.pc = "idle"
    BY <1>4, AnswerContinuesPage DEF ReceivePoll, NoPoll
  <2>2. QED
    BY <2>1 DEF PageIsInOrder, PageIsOlder, Rising
<1>5. CASE LosePoll
  <2>1. page' = page /\ cursor' = cursor /\ poll'.pc = "idle"
    BY <1>5 DEF LosePoll, NoPoll
  <2>2. QED
    BY <2>1 DEF PageIsInOrder, PageIsOlder
<1>6. CASE ReceiveClear
  <2>1. page' = << >>
    BY <1>6 DEF ReceiveClear
  <2>2. Len(page') = 0
    BY <2>1
  <2>3. QED
    BY <2>2 DEF PageIsInOrder, PageIsOlder
<1>7. CASE UNCHANGED <<page, cursor, poll>>
  BY <1>7 DEF PageIsInOrder, PageIsOlder
<1>8. QED
  BY <1>2, <1>3, <1>4, <1>5, <1>6, <1>7, PageFrames

-----------------------------------------------------------------------------
\* The stream.

LEMMA StreamStep ==
  Typing /\ Watched /\ StaleStreamEnds /\ [Next]_vars => Watched' /\ StaleStreamEnds'
<1> SUFFICES ASSUME Typing, Watched, StaleStreamEnds, [Next]_vars
             PROVE  Watched' /\ StaleStreamEnds'
  OBVIOUS
<1>1. setter \in [Setters -> {"idle", "send"}]
  BY DEF Typing, TypeOK
<1>2. ASSUME NEW s \in Setters, NEW l \in AllLevels, SetLevel(s, l)
      PROVE  Watched' /\ StaleStreamEnds'
  <2>1. /\ pc' = pc /\ watch' = watch /\ cancelled' = cancelled /\ closed' = closed
        /\ setter'[s] = "send"
    BY <1>1, <1>2 DEF SetLevel
  <2>2. QED
    BY <2>1 DEF Watched, StaleStreamEnds, StreamDone
<1>3. ASSUME NEW s \in Setters, SendRestart(s) PROVE Watched' /\ StaleStreamEnds'
  <2>1. /\ pc' = pc /\ watch' = watch /\ cancelled' = cancelled /\ closed' = closed
        /\ level' = level /\ using' = using /\ restart' = TRUE
    BY <1>3 DEF SendRestart
  <2>2. QED
    BY <2>1 DEF Watched, StaleStreamEnds, StreamDone
<1>4. CASE Top
  <2>1. /\ closed' = closed /\ level' = level
        /\ pc' = "connect" => watch' = TRUE /\ using' = level
        /\ pc' \in {"off", "connect"}
    BY <1>4 DEF Top, LoopFrame
  <2>2. QED
    BY <2>1 DEF Watched, StaleStreamEnds, StreamDone
<1>5. CASE WatchRestart
  <2>1. cancelled' = TRUE
    BY <1>5 DEF WatchRestart
  <2>2. QED
    BY <2>1 DEF Watched, StaleStreamEnds, StreamDone
<1>6. CASE WatchEnds
  <2>1. /\ pc' = pc /\ cancelled' = cancelled /\ closed' = closed
        /\ StreamDone \/ pc = "ended"
    BY <1>6 DEF WatchEnds, LoopFrame
  <2>2. QED
    BY <2>1 DEF Watched, StaleStreamEnds, StreamDone
<1>7. CASE Connect
  <2>1. /\ pc = "connect" /\ pc' \in {"stream", "ended"}
        /\ UNCHANGED <<level, using, watch, cancelled, closed, restart, setter>>
    BY <1>7 DEF Connect, LoopFrame
  <2>2. QED
    BY <2>1 DEF Watched, StaleStreamEnds, StreamDone
<1>8. CASE Quiet \/ StreamEnds \/ Disconnect \/ Backoff
  <2>1. pc' \notin {"connect", "stream"}
    BY <1>8 DEF Quiet, StreamEnds, Disconnect, Backoff
  <2>2. QED
    BY <2>1 DEF Watched, StaleStreamEnds
<1>9. CASE Close
  <2>1. closed' = TRUE
    BY <1>9 DEF Close
  <2>2. QED
    BY <2>1 DEF Watched, StaleStreamEnds, StreamDone
<1>10. CASE UNCHANGED <<streamVars, closed>>
  BY <1>10 DEF Watched, StaleStreamEnds, StreamDone, streamVars
<1>11. AppendEntry \/ Clear \/ PageAction \/ UNCHANGED vars => UNCHANGED <<streamVars, closed>>
  BY DEF AppendEntry, Clear, PageAction, SendPoll, AnswerPoll, ReceivePoll, LosePoll,
     AnswerClear, ReceiveClear, LoseClear, PageFrame, vars
<1>12. QED
  BY <1>2, <1>3, <1>4, <1>5, <1>6, <1>7, <1>8, <1>9, <1>10, <1>11 DEF Next, LoopStep,
     PageAction

-----------------------------------------------------------------------------

LEMMA SoundInit == Init => Sound
<1> SUFFICES ASSUME Init PROVE Sound
  OBVIOUS
<1>1. Typing
  BY TypingInit
<1>2. Len(<< >>) = 0
  OBVIOUS
<1>3. WindowIsRecent
  BY <1>2, LogWindowAssumption DEF Init, WindowIsRecent
<1>4. AnswerIsNewer
  BY <1>2 DEF Init, AnswerIsNewer, Rising, NoPoll
<1>5. NumbersExist
  BY DEF Init, NumbersExist, NoPoll, NoClear
<1>6. PageIsInOrder /\ PageIsOlder
  BY <1>2 DEF Init, PageIsInOrder, PageIsOlder
<1>7. Watched /\ StaleStreamEnds
  BY DEF Init, Watched, StaleStreamEnds
<1>8. QED
  BY <1>1, <1>3, <1>4, <1>5, <1>6, <1>7 DEF Sound

LEMMA SoundStep == Sound /\ [Next]_vars => Sound'
  BY TypingStep, AnswerStep, NumbersStep, PageStep, StreamStep DEF Sound

LEMMA AlwaysSound == Spec => []Sound
  BY SoundInit, SoundStep, PTL DEF Spec

\* Every variable keeps its type.
THEOREM LogVariablesAreTyped == Spec => []TypeOK
<1>1. Sound => TypeOK
  BY DEF Sound, Typing
<1>2. QED
  BY <1>1, AlwaysSound, PTL

\* Observer.append and Observer.Clear leave a window of the latest entries without a
\* hole, and what was dropped is counted.
THEOREM WindowStaysRecent == Spec => []WindowIsRecent
<1>1. Sound => WindowIsRecent
  BY DEF Sound
<1>2. QED
  BY <1>1, AlwaysSound, PTL

\* pollObserve and the clear button show no entry twice and none out of order, in
\* whatever order polls, clears and their answers follow each other.
THEOREM PageStaysInOrder == Spec => []PageIsInOrder
<1>1. Sound => PageIsInOrder
  BY DEF Sound
<1>2. QED
  BY <1>1, AlwaysSound, PTL

\* The restart that SetLevel sends reaches the stream it is for: no stream of an old
\* level goes on without a restart or an end on its way.
THEOREM StaleStreamsEnd == Spec => []StaleStreamEnds
<1>1. Sound => StaleStreamEnds
  BY DEF Sound
<1>2. QED
  BY <1>1, AlwaysSound, PTL
=============================================================================
