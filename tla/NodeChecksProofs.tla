-------------------------- MODULE NodeChecksProofs ---------------------------
(***************************************************************************)
(* What NodeChecks promises, for any number of nodes, tasks, workers and   *)
(* handlers.  Who forgets a task that is at work has cancelled it, so that *)
(* an uncancelled one is always the one the map has for its node: this is  *)
(* why two of them are never of one node, and why a batch gets as many     *)
(* items as it has targets, also where it shares tasks.                    *)
(***************************************************************************)
EXTENDS NodeChecks, FiniteSetTheorems, TLAPS

TaskRecords == [pc : {"start", "probe", "done"}, node : Nodes, cfg : Contents,
                batch : 0..MaxBatches, cancelled : BOOLEAN,
                status : Finals \cup {"none", "open"}]
BatchRecords == [id : 0..MaxBatches, total : 0..Cardinality(Nodes),
                 status : {"none", "running", "stopping", "stopped", "completed"},
                 stopped : BOOLEAN, completed : 0..Cardinality(Nodes)]
Items == [task : Tasks, owned : BOOLEAN]
WorkerRecords == [pc : {"off", "next", "wait"}, item : [task : 0..MaxTasks, owned : BOOLEAN]]

\* A check asks for some nodes, a poll has the whole state.
RequestsAreTyped ==
    /\ req = [r \in Requests |-> req[r]]
    /\ \A r \in Requests :
          /\ req[r].kind \in {"none", "single", "batch", "poll"}
          /\ req[r].kind \in {"single", "batch"} =>
                /\ DOMAIN req[r].state \in SUBSET Nodes
                /\ req[r].state \in [DOMAIN req[r].state -> Contents]
          /\ req[r].kind = "poll" => req[r].state \in States

Typing == TypeOK /\ RequestsAreTyped

\* The map has a task under its own node, and every uncancelled task at work.
TasksAreCurrent ==
    /\ \A n \in Nodes : current[n] # 0 => task[current[n]].node = n
    /\ \A t \in InFlight : ~task[t].cancelled => current[task[t].node] = t

\* The items with a worker.
Awaited == {w \in Workers : worker[w].pc = "wait"}

\* A worker leaves when nothing is left to take.
QueueIsServed == (\E w \in Workers : worker[w].pc = "off") => queue = {}

Sound == Typing /\ TasksAreCurrent /\ QueueIsServed /\ BatchAccounts

-----------------------------------------------------------------------------
\* Lemmas about the operators.

LEMMA NoTaskIsDone == NoTask.pc = "done" /\ NoTask.status = "none"
BY DEF NoTask

LEMMA NoTaskIsTyped == NoTask \in TaskRecords
<1>1. (CHOOSE n \in Nodes : TRUE) \in Nodes
  BY NodeChecksAssumption
<1>2. 0 \in 0..MaxBatches
  BY NodeChecksAssumption
<1>3. QED
  BY <1>1, <1>2 DEF NoTask, TaskRecords, Contents

LEMMA TypesByName ==
  TypeOK => /\ task \in [Tasks -> TaskRecords] /\ current \in [Nodes -> 0..MaxTasks]
            /\ batch \in BatchRecords /\ queue \in SUBSET Items
            /\ worker \in [Workers -> WorkerRecords] /\ cfg \in States
BY DEF TypeOK, TaskRecords, BatchRecords, Items, WorkerRecords

LEMMA NumbersOfTasks == \A t \in 0..MaxTasks : t # 0 <=> t \in Tasks
BY NodeChecksAssumption DEF Tasks

\* New tasks have identifiers of their own that nothing else refers to.
LEMMA AllocatedIsFree ==
  ASSUME NEW nodes, NEW a \in Allocations(nodes)
  PROVE  /\ DOMAIN a = nodes /\ \A n \in nodes : a[n] \in Free
         /\ \A m, n \in nodes : m # n => a[m] # a[n]
BY DEF Allocations

LEMMA FreeIsUnused ==
  ASSUME NEW t \in Free
  PROVE  t \in Tasks /\ t \notin InFlight /\ \A n \in Nodes : current[n] # t
BY DEF Free

\* What claim leaves: the nodes without a task in flight get a new one, the others keep
\* theirs, and no two of them have the same.
LEMMA ClaimEffects ==
  ASSUME TypeOK, TasksAreCurrent, NEW b \in 0..MaxBatches,
         NEW s, DOMAIN s \in SUBSET Nodes, s \in [DOMAIN s -> Contents],
         NEW a \in Allocations(Owned(DOMAIN s)), Claim(s, b, a)
  PROVE  /\ task' \in [Tasks -> TaskRecords] /\ current' \in [Nodes -> 0..MaxTasks]
         /\ \A n \in DOMAIN s : current'[n] \in Tasks
         /\ \A m, n \in DOMAIN s : m # n => current'[m] # current'[n]
         /\ \A t \in Tasks : task'[t].pc = "done" => task'[t] = NoTask \/ task[t].pc = "done"
         /\ TasksAreCurrent'
<1>1. /\ task \in [Tasks -> TaskRecords] /\ current \in [Nodes -> 0..MaxTasks]
      /\ DOMAIN a = Owned(DOMAIN s) /\ \A n \in DOMAIN a : a[n] \in Free
      /\ \A m, n \in DOMAIN a : m # n => a[m] # a[n]
  BY TypesByName, AllocatedIsFree
<1>2. DOMAIN a \in SUBSET Nodes /\ \A n \in DOMAIN a : n \in DOMAIN s /\ ~Shared(n)
  BY <1>1 DEF Owned
<1>3. \A n \in DOMAIN a : /\ a[n] \in Tasks /\ a[n] \notin InFlight
                          /\ \A m \in Nodes : current[m] # a[n]
  BY <1>1, FreeIsUnused
<1>4. /\ current' = [n \in Nodes |-> IF n \in DOMAIN a THEN a[n] ELSE current[n]]
      /\ task' = [t \in Tasks |->
            IF \E n \in DOMAIN a : a[n] = t
            THEN LET n == CHOOSE n \in DOMAIN a : a[n] = t IN NewTask(n, s[n], b)
            ELSE IF \E n \in DOMAIN a : current[n] = t
                 THEN NoTask
                 ELSE [task[t] EXCEPT !.cancelled = @ \/ Replaced(t, s)]]
  BY DEF Claim
<1>5. current' \in [Nodes -> 0..MaxTasks]
  <2>1. \A n \in DOMAIN a : a[n] \in 0..MaxTasks
    BY <1>3, NodeChecksAssumption DEF Tasks
  <2>2. QED
    BY <1>1, <1>4, <2>1
<1>6. ASSUME NEW n \in DOMAIN a
      PROVE  /\ task'[a[n]] = NewTask(n, s[n], b)
             /\ task'[a[n]].pc = "start" /\ task'[a[n]].node = n
  <2>1. (CHOOSE m \in DOMAIN a : a[m] = a[n]) = n
    BY <1>1, <1>6
  <2>2. task'[a[n]] = NewTask(n, s[n], b)
    BY <1>3, <1>4, <1>6, <2>1
  <2>3. NewTask(n, s[n], b).pc = "start" /\ NewTask(n, s[n], b).node = n
    BY DEF NewTask
  <2>4. QED
    BY <2>2, <2>3
<1>7. ASSUME NEW n \in DOMAIN a PROVE NewTask(n, s[n], b) \in TaskRecords
  BY <1>2, <1>7 DEF NewTask, TaskRecords
<1>8. ASSUME NEW t \in Tasks, \A n \in DOMAIN a : a[n] # t /\ current[n] # t
      PROVE  /\ task'[t] = [task[t] EXCEPT !.cancelled = @ \/ Replaced(t, s)]
             /\ task'[t] \in TaskRecords
             /\ task'[t].pc = task[t].pc /\ task'[t].node = task[t].node
             /\ ~task'[t].cancelled => ~task[t].cancelled
  <2>1. task'[t] = [task[t] EXCEPT !.cancelled = @ \/ Replaced(t, s)]
    BY <1>4, <1>8
  <2>2. task[t] \in TaskRecords
    BY <1>1, <1>8
  <2>3. task[t].cancelled \in BOOLEAN
    BY <2>2 DEF TaskRecords
  <2>4. (task[t].cancelled \/ Replaced(t, s)) \in BOOLEAN
    OBVIOUS
  <2>5. QED
    BY <2>1, <2>2, <2>3, <2>4 DEF TaskRecords
<1>9. ASSUME NEW t \in Tasks, \A n \in DOMAIN a : a[n] # t, NEW m \in DOMAIN a, current[m] = t
      PROVE  task'[t] = NoTask
  BY <1>4, <1>9
<1>10. task' \in [Tasks -> TaskRecords]
  <2>1. ASSUME NEW t \in Tasks PROVE task'[t] \in TaskRecords
    <3>1. CASE \E n \in DOMAIN a : a[n] = t
      BY <1>6, <1>7, <3>1
    <3>2. CASE /\ \A n \in DOMAIN a : a[n] # t
               /\ \E n \in DOMAIN a : current[n] = t
      BY <1>9, <3>2, NoTaskIsTyped
    <3>3. CASE \A n \in DOMAIN a : a[n] # t /\ current[n] # t
      BY <1>8, <3>3
    <3>4. QED
      BY <3>1, <3>2, <3>3
  <2>2. QED
    BY <1>4, <2>1
<1>11. ASSUME NEW t \in Tasks, task'[t].pc = "done"
       PROVE  task'[t] = NoTask \/ task[t].pc = "done"
  <2>1. CASE \E n \in DOMAIN a : a[n] = t
    BY <1>6, <1>11, <2>1
  <2>2. CASE /\ \A n \in DOMAIN a : a[n] # t
             /\ \E n \in DOMAIN a : current[n] = t
    BY <1>9, <2>2
  <2>3. CASE \A n \in DOMAIN a : a[n] # t /\ current[n] # t
    BY <1>8, <1>11, <2>3
  <2>4. QED
    BY <2>1, <2>2, <2>3
<1>12. ASSUME NEW n \in DOMAIN s
       PROVE  /\ current'[n] \in Tasks
              /\ n \notin DOMAIN a => current'[n] = current[n] /\ task[current[n]].node = n
  <2>1. CASE n \in DOMAIN a
    BY <1>2, <1>3, <1>4, <1>12, <2>1
  <2>2. CASE n \notin DOMAIN a
    <3>1. current[n] # 0 /\ n \in Nodes
      BY <1>1, <1>12, <2>2 DEF Owned, Shared
    <3>2. current[n] \in Tasks
      BY <1>1, <3>1, NumbersOfTasks
    <3>3. QED
      BY <1>4, <2>2, <3>1, <3>2 DEF TasksAreCurrent
  <2>3. QED
    BY <2>1, <2>2
<1>13. ASSUME NEW m \in DOMAIN s, NEW n \in DOMAIN s, m # n
       PROVE  current'[m] # current'[n]
  <2>1. CASE m \in DOMAIN a /\ n \in DOMAIN a
    BY <1>1, <1>2, <1>4, <1>13, <2>1
  <2>2. CASE m \in DOMAIN a /\ n \notin DOMAIN a
    BY <1>2, <1>3, <1>4, <1>12, <1>13, <2>2
  <2>3. CASE m \notin DOMAIN a /\ n \in DOMAIN a
    BY <1>2, <1>3, <1>4, <1>12, <1>13, <2>3
  <2>4. CASE m \notin DOMAIN a /\ n \notin DOMAIN a
    BY <1>12, <1>13, <2>4
  <2>5. QED
    BY <2>1, <2>2, <2>3, <2>4
<1>14. ASSUME NEW n \in Nodes, current'[n] # 0 PROVE task'[current'[n]].node = n
  <2>1. CASE n \in DOMAIN a
    BY <1>4, <1>6, <1>14, <2>1
  <2>2. CASE n \notin DOMAIN a
    <3>1. current'[n] = current[n] /\ current[n] # 0
      BY <1>4, <1>14, <2>2
    <3>2. current[n] \in Tasks /\ task[current[n]].node = n
      BY <1>1, <3>1, NumbersOfTasks DEF TasksAreCurrent
    <3>3. ASSUME NEW m \in DOMAIN a PROVE a[m] # current[n] /\ current[m] # current[n]
      <4>1. a[m] # current[n]
        BY <1>3, <3>3
      <4>2. current[m] = current[n] => m = n
        BY <1>2, <3>1, <3>2, <3>3 DEF TasksAreCurrent
      <4>3. QED
        BY <2>2, <3>3, <4>1, <4>2
    <3>4. task'[current[n]].node = task[current[n]].node
      BY <1>8, <3>2, <3>3
    <3>5. QED
      BY <3>1, <3>2, <3>4
  <2>3. QED
    BY <2>1, <2>2
<1>15. ASSUME NEW t \in Tasks, task'[t].pc # "done", ~task'[t].cancelled
       PROVE  current'[task'[t].node] = t
  <2>1. CASE \E n \in DOMAIN a : a[n] = t
    <3>1. PICK n \in DOMAIN a : a[n] = t
      BY <2>1
    <3>2. task'[t].node = n
      BY <1>6, <3>1
    <3>3. QED
      BY <1>2, <1>4, <3>1, <3>2
  <2>2. CASE /\ \A n \in DOMAIN a : a[n] # t
             /\ \E n \in DOMAIN a : current[n] = t
    BY <1>9, <1>15, <2>2, NoTaskIsDone
  <2>3. CASE \A n \in DOMAIN a : a[n] # t /\ current[n] # t
    <3>1. /\ task[t].pc # "done" /\ ~task[t].cancelled /\ task'[t].node = task[t].node
          /\ task[t].node \in Nodes
      BY <1>1, <1>8, <1>15, <2>3 DEF TaskRecords
    <3>2. current[task[t].node] = t
      BY <3>1 DEF TasksAreCurrent, InFlight, Finished
    <3>3. task[t].node \notin DOMAIN a
      BY <2>3, <3>2
    <3>4. QED
      BY <1>4, <3>1, <3>2, <3>3
  <2>4. QED
    BY <2>1, <2>2, <2>3
<1>16. TasksAreCurrent'
  BY <1>14, <1>15 DEF TasksAreCurrent, InFlight, Finished
<1>17. QED
  BY <1>5, <1>10, <1>11, <1>12, <1>13, <1>16

\* What a snapshot leaves of the tasks: their nodes, and those at work that the map
\* loses are cancelled.
LEMMA SnapshotEffects ==
  ASSUME TypeOK, TasksAreCurrent, NEW r \in Requests, Snapshot(r)
  PROVE  /\ task' \in [Tasks -> TaskRecords] /\ current' \in [Nodes -> 0..MaxTasks]
         /\ \A t \in Tasks : task'[t].pc = "done" => task'[t] = NoTask \/ task[t].pc = "done"
         /\ TasksAreCurrent'
<1> DEFINE s == req[r].state
           Gone == {n \in Nodes : current[n] # 0 /\ s[n] = Absent}
           Changed == {n \in Nodes : /\ current[n] # 0
                                     /\ s[n] # Absent
                                     /\ task[current[n]].cfg # s[n]}
<1>1. /\ task \in [Tasks -> TaskRecords] /\ current \in [Nodes -> 0..MaxTasks]
  BY TypesByName
<1>2. current' = [n \in Nodes |-> IF n \in Gone THEN 0 ELSE current[n]]
  BY DEF Snapshot
<1>3. task' = [t \in Tasks |->
                CASE \E n \in Gone : current[n] = t ->
                        IF Finished(t) THEN NoTask
                                       ELSE [task[t] EXCEPT !.cancelled = TRUE]
                  [] \E n \in Changed : current[n] = t ->
                        [task[t] EXCEPT !.cancelled = TRUE, !.status = "stale"]
                  [] OTHER -> task[t]]
  BY DEF Snapshot
<1>4. \A n \in Gone \cup Changed : n \in Nodes /\ current[n] # 0 /\ task[current[n]].node = n
  BY DEF TasksAreCurrent
<1>5. Gone \cap Changed = {}
  OBVIOUS
<1>6. Gone \in SUBSET Nodes /\ Changed \in SUBSET Nodes
  OBVIOUS
<1> HIDE DEF Gone, Changed, s
<1>7. ASSUME NEW t \in Tasks, NEW n \in Gone, current[n] = t
      PROVE  task'[t] = IF Finished(t) THEN NoTask ELSE [task[t] EXCEPT !.cancelled = TRUE]
  <2>1. ~\E m \in Changed : current[m] = t
    BY <1>4, <1>5, <1>7
  <2>2. QED
    BY <1>3, <1>7, <2>1
<1>8. ASSUME NEW t \in Tasks, NEW n \in Changed, current[n] = t
      PROVE  task'[t] = [task[t] EXCEPT !.cancelled = TRUE, !.status = "stale"]
  <2>1. ~\E m \in Gone : current[m] = t
    BY <1>4, <1>5, <1>8
  <2>2. QED
    BY <1>3, <1>8, <2>1
<1>9. ASSUME NEW t \in Tasks, \A n \in Gone \cup Changed : current[n] # t
      PROVE  task'[t] = task[t]
  BY <1>3, <1>9
<1>10. ASSUME NEW t \in Tasks
       PROVE  \/ /\ task'[t] = NoTask
                 /\ \E n \in Gone : current[n] = t
              \/ /\ task'[t] \in TaskRecords
                 /\ task'[t].pc = task[t].pc /\ task'[t].node = task[t].node
                 /\ task'[t].cancelled = task[t].cancelled \/ task'[t].cancelled
                 /\ (\E n \in Gone : current[n] = t) => task'[t].cancelled
  <2>1. task[t] \in TaskRecords
    BY <1>1, <1>10
  <2>2. CASE \E n \in Gone : current[n] = t
    <3>1. task'[t] = NoTask \/ task'[t] = [task[t] EXCEPT !.cancelled = TRUE]
      BY <1>7, <2>2
    <3>2. QED
      BY <2>1, <2>2, <3>1 DEF TaskRecords
  <2>3. CASE \E n \in Changed : current[n] = t
    <3>1. task'[t] = [task[t] EXCEPT !.cancelled = TRUE, !.status = "stale"]
      BY <1>8, <2>3
    <3>2. QED
      BY <2>1, <3>1 DEF TaskRecords, Finals
  <2>4. CASE \A n \in Gone \cup Changed : current[n] # t
    BY <1>9, <2>1, <2>4
  <2>5. QED
    BY <2>2, <2>3, <2>4
<1>11. task' \in [Tasks -> TaskRecords]
  BY <1>3, <1>10, NoTaskIsTyped
<1>12. current' \in [Nodes -> 0..MaxTasks]
  BY <1>1, <1>2, NodeChecksAssumption
<1>13. ASSUME NEW n \in Nodes, current'[n] # 0 PROVE task'[current'[n]].node = n
  <2>1. n \notin Gone /\ current'[n] = current[n]
    BY <1>2, <1>13
  <2>2. current[n] \in Tasks /\ task[current[n]].node = n
    BY <1>1, <1>13, <2>1, NumbersOfTasks DEF TasksAreCurrent
  <2>3. \A m \in Gone : current[m] # current[n]
    BY <1>4, <2>1, <2>2
  <2>4. task'[current[n]].node = task[current[n]].node
    BY <1>10, <2>2, <2>3
  <2>5. QED
    BY <2>1, <2>2, <2>4
<1>14. ASSUME NEW t \in Tasks, task'[t].pc # "done", ~task'[t].cancelled
       PROVE  current'[task'[t].node] = t
  <2>1. /\ task'[t].pc = task[t].pc /\ task'[t].node = task[t].node
        /\ task'[t].cancelled = task[t].cancelled \/ task'[t].cancelled
        /\ ~\E n \in Gone : current[n] = t
    BY <1>10, <1>14, NoTaskIsDone
  <2>2. ~task[t].cancelled /\ task[t].node \in Nodes
    BY <1>1, <1>14, <2>1 DEF TaskRecords
  <2>3. current[task[t].node] = t
    BY <1>14, <2>1, <2>2 DEF TasksAreCurrent, InFlight, Finished
  <2>4. QED
    BY <1>2, <2>1, <2>2, <2>3
<1>15. \A t \in Tasks : task'[t].pc = "done" => task'[t] = NoTask \/ task[t].pc = "done"
  BY <1>10
<1>16. QED
  BY <1>11, <1>12, <1>13, <1>14, <1>15 DEF TasksAreCurrent, InFlight, Finished

\* A step of execute takes a task to its probe, or ends it; as cancelled only when its
\* context is done.
LEMMA ExecuteCases ==
  ASSUME NEW t \in Tasks, Execute(t)
  PROVE  /\ task[t].pc \in {"start", "probe"} /\ TaskFrame
         /\ \/ Move(t, "probe")
            \/ \E result \in Finals : End(t, result) /\ (result = "cancelled" => Done(t))
<1>1. CASE TakeSlot(t)
  <2>1. task[t].pc = "start" /\ StartProbe(t)
    BY <1>1 DEF TakeSlot
  <2>2. End(t, "stale") \/ End(t, "skipped") \/ (Move(t, "probe") /\ TaskFrame)
    BY <2>1 DEF StartProbe
  <2>3. QED
    BY <2>1, <2>2 DEF End, Finals
<1>2. CASE ReadFails(t)
  BY <1>2 DEF ReadFails, End, Finals
<1>3. CASE ExecuteCancelled(t)
  BY <1>3 DEF ExecuteCancelled, End, Finals
<1>4. CASE ProbeEnds(t)
  BY <1>4 DEF ProbeEnds, End, Finals
<1>5. QED
  BY <1>1, <1>2, <1>3, <1>4 DEF Execute

LEMMA ExecuteEffects ==
  ASSUME TypeOK, TasksAreCurrent, NEW t \in Tasks, Execute(t)
  PROVE  /\ TaskFrame /\ task' \in [Tasks -> TaskRecords]
         /\ \A u \in Tasks \ {t} : task'[u] = task[u]
         /\ task'[t].status = "cancelled" /\ task'[t].pc = "done" => Done(t)
         /\ TasksAreCurrent'
<1>1. /\ task \in [Tasks -> TaskRecords] /\ current \in [Nodes -> 0..MaxTasks]
      /\ task[t].pc # "done" /\ TaskFrame /\ current' = current
  BY TypesByName, ExecuteCases DEF TaskFrame
<1>2. CASE Move(t, "probe")
  <2>1. /\ task' \in [Tasks -> TaskRecords]
        /\ \A u \in Tasks \ {t} : task'[u] = task[u]
        /\ task'[t].pc = "probe" /\ task'[t].node = task[t].node
        /\ task'[t].cancelled = task[t].cancelled
    BY <1>1, <1>2 DEF Move, TaskRecords
  <2>2. \A u \in Tasks : /\ task'[u].node = task[u].node
                         /\ task'[u].pc = "done" <=> task[u].pc = "done"
                         /\ task'[u].cancelled = task[u].cancelled
    BY <1>1, <2>1
  <2>3. TasksAreCurrent'
    <3>1. \A n \in Nodes : current[n] # 0 => current[n] \in Tasks
      BY <1>1, NumbersOfTasks
    <3>2. QED
      BY <1>1, <2>2, <3>1 DEF TasksAreCurrent, InFlight, Finished
  <2>4. QED
    BY <1>1, <2>1, <2>3
<1>3. ASSUME NEW result \in Finals, End(t, result), result = "cancelled" => Done(t)
      PROVE  /\ task' \in [Tasks -> TaskRecords]
             /\ \A u \in Tasks \ {t} : task'[u] = task[u]
             /\ task'[t].status = "cancelled" /\ task'[t].pc = "done" => Done(t)
             /\ TasksAreCurrent'
  <2>1. task[t] \in TaskRecords /\ result \in Finals \cup {"none", "open"} /\ 0 \in 0..MaxBatches
    BY <1>1, NodeChecksAssumption
  <2>2. task' = [task EXCEPT ![t] =
          IF current[task[t].node] = t
          THEN [@ EXCEPT !.pc = "done", !.status = result, !.cancelled = TRUE, !.batch = 0]
          ELSE NoTask]
    BY <1>3 DEF End
  <2>3. \A u \in Tasks \ {t} : task'[u] = task[u]
    BY <1>1, <2>2
  <2>4. CASE current[task[t].node] = t
    <3>1. task'[t] = [task[t] EXCEPT !.pc = "done", !.status = result,
                                     !.cancelled = TRUE, !.batch = 0]
      BY <1>1, <2>2, <2>4
    <3>2. /\ task'[t] \in TaskRecords /\ task'[t].node = task[t].node
          /\ task'[t].pc = "done" /\ task'[t].status = result
      BY <2>1, <3>1 DEF TaskRecords
    <3>3. QED
      <4>1. task' \in [Tasks -> TaskRecords]
        BY <1>1, <2>2, <2>4, <3>1, <3>2
      <4>2. \A u \in Tasks : task'[u].node = task[u].node
        BY <2>3, <3>2
      <4>3. ASSUME NEW n \in Nodes, current'[n] # 0 PROVE task'[current'[n]].node = n
        BY <1>1, <4>2, <4>3, NumbersOfTasks DEF TasksAreCurrent
      <4>4. ASSUME NEW u \in Tasks, task'[u].pc # "done", ~task'[u].cancelled
            PROVE  current'[task'[u].node] = u
        BY <1>1, <2>3, <3>2, <4>4 DEF TasksAreCurrent, InFlight, Finished
      <4>5. QED
        BY <1>3, <2>3, <3>2, <4>1, <4>3, <4>4 DEF TasksAreCurrent, InFlight, Finished
  <2>5. CASE current[task[t].node] # t
    <3>1. task'[t] = NoTask
      BY <1>1, <2>2, <2>5
    <3>2. \A n \in Nodes : current[n] # t
      <4>1. t # 0
        BY DEF Tasks
      <4>2. \A n \in Nodes : current[n] = t => task[t].node = n
        BY <4>1 DEF TasksAreCurrent
      <4>3. QED
        BY <2>5, <4>2
    <3>3. task' \in [Tasks -> TaskRecords]
      BY <1>1, <2>2, <2>5, NoTaskIsTyped
    <3>4. ASSUME NEW n \in Nodes, current'[n] # 0 PROVE task'[current'[n]].node = n
      BY <1>1, <2>3, <3>2, <3>4, NumbersOfTasks DEF TasksAreCurrent
    <3>5. ASSUME NEW u \in Tasks, task'[u].pc # "done", ~task'[u].cancelled
          PROVE  current'[task'[u].node] = u
      BY <1>1, <2>3, <3>1, <3>5, NoTaskIsDone DEF TasksAreCurrent, InFlight, Finished
    <3>6. QED
      BY <2>3, <3>1, <3>3, <3>4, <3>5, NoTaskIsDone DEF TasksAreCurrent, InFlight, Finished
  <2>6. QED
    BY <2>4, <2>5
<1>4. QED
  BY <1>1, <1>2, <1>3, ExecuteCases

-----------------------------------------------------------------------------
\* Tasks.

\* The steps that change neither the tasks nor the map.
Aside ==
    \/ Edit \/ StopBatch \/ Close \/ BatchEnds \/ Terminated
    \/ \E w \in Workers : Work(w)
    \/ \E r \in Requests : \/ PrepareSingle(r) \/ PrepareBatch(r) \/ PreparePoll(r)
                         \/ GiveUp(r) \/ StartRefused(r)

LEMMA AsideKeepsTasks == ASSUME Aside PROVE UNCHANGED taskVars
<1>1. CASE Edit \/ StopBatch \/ Close \/ BatchEnds \/ Terminated
  BY <1>1 DEF Edit, StopBatch, Close, BatchEnds, WorkerFrame, Terminated, taskVars, vars
<1>2. CASE \E w \in Workers : Work(w)
  BY <1>2 DEF Work, TakeItem, ItemDone, ItemAbandoned, WorkerLeaves, WorkerFrame
<1>3. CASE \E r \in Requests : \/ PrepareSingle(r) \/ PrepareBatch(r) \/ PreparePoll(r)
                             \/ GiveUp(r) \/ StartRefused(r)
  BY <1>3 DEF PrepareSingle, PrepareBatch, PreparePoll, Begin, GiveUp, StartRefused
<1>4. QED
  BY <1>1, <1>2, <1>3 DEF Aside

LEMMA StepCases ==
  ASSUME [Next]_vars
  PROVE  \/ Aside \/ UNCHANGED vars
         \/ \E r \in Requests : StartSingle(r) \/ StartBatch(r) \/ Snapshot(r)
         \/ \E t \in Tasks : Execute(t)
BY DEF Next, Handle, Aside

\* What a handler that starts checks has read.
LEMMA StartSingleClaims ==
  ASSUME Typing, NEW r \in Requests, StartSingle(r)
  PROVE  /\ \E a \in Allocations(Owned(DOMAIN req[r].state)) : Claim(req[r].state, 0, a)
         /\ DOMAIN req[r].state \in SUBSET Nodes
         /\ req[r].state \in [DOMAIN req[r].state -> Contents]
         /\ 0 \in 0..MaxBatches
BY NodeChecksAssumption DEF Typing, RequestsAreTyped, StartSingle

LEMMA StartBatchClaims ==
  ASSUME Typing, NEW r \in Requests, StartBatch(r)
  PROVE  /\ \E a \in Allocations(Owned(DOMAIN req[r].state)) :
               /\ Claim(req[r].state, batch.id + 1, a)
               /\ queue' = {[task |-> current'[n], owned |-> n \in DOMAIN a] :
                               n \in DOMAIN req[r].state}
         /\ DOMAIN req[r].state \in SUBSET Nodes
         /\ req[r].state \in [DOMAIN req[r].state -> Contents]
         /\ batch.id + 1 \in 0..MaxBatches
<1>1. batch.id \in 0..MaxBatches /\ batch.id < MaxBatches
  BY TypesByName DEF Typing, StartBatch, BatchRecords
<1>2. batch.id + 1 \in 0..MaxBatches
  BY <1>1, NodeChecksAssumption
<1>3. QED
  BY <1>2 DEF Typing, RequestsAreTyped, StartBatch

LEMMA TasksStep ==
  Typing /\ TasksAreCurrent /\ [Next]_vars
  => /\ TasksAreCurrent'
     /\ task' \in [Tasks -> TaskRecords] /\ current' \in [Nodes -> 0..MaxTasks]
<1> SUFFICES ASSUME Typing, TasksAreCurrent, [Next]_vars
             PROVE  /\ TasksAreCurrent'
                    /\ task' \in [Tasks -> TaskRecords] /\ current' \in [Nodes -> 0..MaxTasks]
  OBVIOUS
<1>1. TypeOK /\ task \in [Tasks -> TaskRecords] /\ current \in [Nodes -> 0..MaxTasks]
  BY TypesByName DEF Typing
<1>2. CASE Aside \/ UNCHANGED vars
  <2>1. task' = task /\ current' = current
    BY <1>2, AsideKeepsTasks DEF taskVars, vars
  <2>2. QED
    BY <1>1, <2>1 DEF TasksAreCurrent, InFlight, Finished
<1>3. ASSUME NEW r \in Requests, StartSingle(r)
      PROVE  /\ TasksAreCurrent'
             /\ task' \in [Tasks -> TaskRecords] /\ current' \in [Nodes -> 0..MaxTasks]
  <2>1. /\ \E a \in Allocations(Owned(DOMAIN req[r].state)) : Claim(req[r].state, 0, a)
        /\ DOMAIN req[r].state \in SUBSET Nodes
        /\ req[r].state \in [DOMAIN req[r].state -> Contents]
        /\ 0 \in 0..MaxBatches
    BY <1>3, StartSingleClaims
  <2>2. QED
    BY <1>1, <2>1, ClaimEffects
<1>4. ASSUME NEW r \in Requests, StartBatch(r)
      PROVE  /\ TasksAreCurrent'
             /\ task' \in [Tasks -> TaskRecords] /\ current' \in [Nodes -> 0..MaxTasks]
  <2>1. /\ \E a \in Allocations(Owned(DOMAIN req[r].state)) :
              Claim(req[r].state, batch.id + 1, a)
        /\ DOMAIN req[r].state \in SUBSET Nodes
        /\ req[r].state \in [DOMAIN req[r].state -> Contents]
        /\ batch.id + 1 \in 0..MaxBatches
    BY <1>4, StartBatchClaims
  <2>2. QED
    BY <1>1, <2>1, ClaimEffects
<1>5. ASSUME NEW r \in Requests, Snapshot(r)
      PROVE  /\ TasksAreCurrent'
             /\ task' \in [Tasks -> TaskRecords] /\ current' \in [Nodes -> 0..MaxTasks]
  BY <1>1, <1>5, SnapshotEffects
<1>6. ASSUME NEW t \in Tasks, Execute(t)
      PROVE  /\ TasksAreCurrent'
             /\ task' \in [Tasks -> TaskRecords] /\ current' \in [Nodes -> 0..MaxTasks]
  <2>1. TaskFrame /\ task' \in [Tasks -> TaskRecords] /\ TasksAreCurrent'
    BY <1>1, <1>6, ExecuteEffects
  <2>2. QED
    BY <1>1, <2>1 DEF TaskFrame
<1>7. QED
  BY <1>2, <1>3, <1>4, <1>5, <1>6, StepCases

-----------------------------------------------------------------------------
\* The accounts of a batch.

LEMMA AwaitedIsFinite ==
  /\ IsFiniteSet(Workers)
  /\ IsFiniteSet(Awaited) /\ Cardinality(Awaited) \in Nat
  /\ IsFiniteSet(Awaited') /\ Cardinality(Awaited') \in Nat
<1>1. IsFiniteSet(Workers)
  <2>1. 1 \in Int /\ Slots \in Int
    BY NodeChecksAssumption
  <2>2. QED
    BY <2>1, FS_Interval DEF Workers
<1>2. Awaited \in SUBSET Workers /\ Awaited' \in SUBSET Workers
  BY DEF Awaited
<1>3. QED
  BY <1>1, <1>2, FS_Subset, FS_CardinalityType

LEMMA ItemsAreFinite == \A Q \in SUBSET Items : IsFiniteSet(Q) /\ Cardinality(Q) \in Nat
<1>1. IsFiniteSet(Tasks)
  <2>1. 1 \in Int /\ MaxTasks \in Int
    BY NodeChecksAssumption
  <2>2. QED
    BY <2>1, FS_Interval DEF Tasks
<1> DEFINE Shares == {i \in Items : ~i.owned}
           Owns == {i \in Items : i.owned}
<1>2. IsFiniteSet(Shares)
  <2> DEFINE f == [i \in Shares |-> i.task]
  <2>1. f \in Injection(Shares, Tasks)
    <3>1. f \in [Shares -> Tasks]
      BY DEF Items
    <3>2. ASSUME NEW i \in Shares, NEW j \in Shares, f[i] = f[j] PROVE i = j
      <4>1. i.task = j.task /\ i.owned = FALSE /\ j.owned = FALSE
        BY <3>2 DEF Items
      <4>2. QED
        BY <4>1 DEF Items
    <3>3. QED
      BY <3>1, <3>2 DEF Injection, IsInjective
  <2>2. QED
    BY <1>1, <2>1, FS_Injection
<1>3. IsFiniteSet(Owns)
  <2> DEFINE f == [i \in Owns |-> i.task]
  <2>1. f \in Injection(Owns, Tasks)
    <3>1. f \in [Owns -> Tasks]
      BY DEF Items
    <3>2. ASSUME NEW i \in Owns, NEW j \in Owns, f[i] = f[j] PROVE i = j
      <4>1. i.task = j.task /\ i.owned = TRUE /\ j.owned = TRUE
        BY <3>2 DEF Items
      <4>2. QED
        BY <4>1 DEF Items
    <3>3. QED
      BY <3>1, <3>2 DEF Injection, IsInjective
  <2>2. QED
    BY <1>1, <2>1, FS_Injection
<1>4. Items = Shares \cup Owns
  BY DEF Items
<1>5. IsFiniteSet(Items)
  BY <1>2, <1>3, <1>4, FS_Union
<1>6. QED
  BY <1>5, FS_Subset, FS_CardinalityType

\* A batch gets an item for each of its targets, shared tasks included.
LEMMA AsManyItems ==
  ASSUME NEW nodes \in SUBSET Nodes, NEW given, NEW owned,
         \A m, n \in nodes : m # n => given[m] # given[n]
  PROVE  LET items == {[task |-> given[n], owned |-> n \in owned] : n \in nodes}
         IN  IsFiniteSet(nodes) /\ Cardinality(items) = Cardinality(nodes)
<1> DEFINE item(n) == [task |-> given[n], owned |-> n \in owned]
           items == {item(n) : n \in nodes}
           f == [n \in nodes |-> item(n)]
<1>1. IsFiniteSet(nodes)
  BY NodeChecksAssumption, FS_Subset
<1>2. f \in Bijection(nodes, items)
  <2>1. f \in [nodes -> items]
    OBVIOUS
  <2>2. ASSUME NEW m \in nodes, NEW n \in nodes, f[m] = f[n] PROVE m = n
    <3>1. item(m).task = item(n).task
      BY <2>2
    <3>2. given[m] = given[n]
      BY <3>1
    <3>3. QED
      BY <3>2
  <2>3. \A i \in items : \E n \in nodes : f[n] = i
    OBVIOUS
  <2>4. QED
    BY <2>1, <2>2, <2>3 DEF Bijection, Injection, Surjection, IsInjective
<1>3. ExistsBijection(nodes, items)
  BY <1>2 DEF ExistsBijection
<1>4. QED
  BY <1>1, <1>3, FS_Bijection

\* The steps that change nothing of the batch.
LEMMA BatchFrame ==
  ASSUME [Next]_vars
  PROVE  \/ UNCHANGED batchVars
         \/ StopBatch \/ BatchEnds \/ \E w \in Workers : Work(w)
         \/ \E r \in Requests : StartBatch(r)
<1>1. CASE Edit \/ Close \/ Terminated \/ UNCHANGED vars
  BY <1>1 DEF Edit, Close, Terminated, vars
<1>2. ASSUME NEW r \in Requests, Handle(r), ~StartBatch(r) PROVE UNCHANGED batchVars
  BY <1>2 DEF Handle, PrepareSingle, PrepareBatch, PreparePoll, Begin, GiveUp, StartSingle,
     StartRefused, Snapshot
<1>3. ASSUME NEW t \in Tasks, Execute(t) PROVE UNCHANGED batchVars
  BY <1>3, ExecuteCases DEF TaskFrame
<1>4. QED
  BY <1>1, <1>2, <1>3 DEF Next

\* A new batch has its items queued and all its workers ready.
LEMMA NewBatch ==
  ASSUME Typing, TasksAreCurrent, NEW r \in Requests, StartBatch(r)
  PROVE  /\ queue' \in SUBSET Items /\ Cardinality(queue') = batch'.total
         /\ batch' \in BatchRecords /\ batch'.completed = 0 /\ batch'.status = "running"
         /\ worker' = [w \in Workers |-> [pc |-> "next", item |-> NoItem]]
<1> DEFINE s == req[r].state
<1>1. PICK a \in Allocations(Owned(DOMAIN s)) :
         /\ Claim(s, batch.id + 1, a)
         /\ queue' = {[task |-> current'[n], owned |-> n \in DOMAIN a] : n \in DOMAIN s}
  BY StartBatchClaims
<1>2. /\ DOMAIN s \in SUBSET Nodes /\ s \in [DOMAIN s -> Contents]
      /\ batch.id + 1 \in 0..MaxBatches /\ TypeOK
  BY StartBatchClaims DEF Typing
<1>3. /\ \A n \in DOMAIN s : current'[n] \in Tasks
      /\ \A m, n \in DOMAIN s : m # n => current'[m] # current'[n]
  BY <1>1, <1>2, ClaimEffects
<1>4. /\ batch' = [NoBatch EXCEPT !.id = batch.id + 1, !.status = "running",
                                  !.total = Cardinality(DOMAIN s)]
      /\ worker' = [w \in Workers |-> [pc |-> "next", item |-> NoItem]]
  BY DEF StartBatch
<1>5. Cardinality(queue') = Cardinality(DOMAIN s)
  <2>1. ASSUME NEW nodes \in SUBSET Nodes, NEW given, NEW owned,
               \A m, n \in nodes : m # n => given[m] # given[n]
        PROVE  Cardinality({[task |-> given[n], owned |-> n \in owned] : n \in nodes})
                 = Cardinality(nodes)
    BY <2>1, AsManyItems
  <2> DEFINE nodes == DOMAIN s
             given == current'
             owned == DOMAIN a
  <2>2. nodes \in SUBSET Nodes /\ \A m, n \in nodes : m # n => given[m] # given[n]
    BY <1>2, <1>3
  <2>3. queue' = {[task |-> given[n], owned |-> n \in owned] : n \in nodes}
    BY <1>1
  <2> HIDE DEF nodes, given, owned
  <2>4. Cardinality(queue') = Cardinality(nodes)
    BY <2>1, <2>2, <2>3
  <2>5. QED
    BY <2>4 DEF nodes
<1>6. queue' \in SUBSET Items
  <2>1. ASSUME NEW n \in DOMAIN s
        PROVE  [task |-> current'[n], owned |-> n \in DOMAIN a] \in Items
    <3>1. (n \in DOMAIN a) \in BOOLEAN
      OBVIOUS
    <3>2. current'[n] \in Tasks
      BY <1>3, <2>1
    <3>3. QED
      BY <3>1, <3>2 DEF Items
  <2>2. QED
    BY <1>1, <2>1
<1>7. Cardinality(DOMAIN s) \in 0..Cardinality(Nodes) /\ 0 \in 0..Cardinality(Nodes)
  BY <1>2, NodeChecksAssumption, FS_Subset, FS_CardinalityType
<1> HIDE DEF s
<1>8. /\ batch' \in BatchRecords /\ batch'.completed = 0 /\ batch'.status = "running"
      /\ batch'.total = Cardinality(DOMAIN s)
  BY <1>2, <1>4, <1>7 DEF NoBatch, BatchRecords
<1>9. QED
  BY <1>4, <1>5, <1>6, <1>8

\* What a worker does moves one item, or none.
LEMMA WorkEffects ==
  ASSUME TypeOK, QueueIsServed, BatchAccounts, NEW w \in Workers, Work(w)
  PROVE  /\ queue' \in SUBSET Items /\ batch' \in BatchRecords
         /\ worker' \in [Workers -> WorkerRecords]
         /\ QueueIsServed' /\ BatchAccounts'
<1>1. /\ batch \in BatchRecords /\ queue \in SUBSET Items
      /\ worker \in [Workers -> WorkerRecords]
  BY TypesByName
<1>2. /\ IsFiniteSet(queue) /\ Cardinality(queue) \in Nat
      /\ IsFiniteSet(Awaited) /\ Cardinality(Awaited) \in Nat
      /\ batch.completed \in Nat /\ batch.total \in Nat
      /\ batch.total <= Cardinality(Nodes) /\ Cardinality(Nodes) \in Nat
  <2>1. Cardinality(Nodes) \in Nat
    BY NodeChecksAssumption, FS_CardinalityType
  <2>2. QED
    BY <1>1, <2>1, ItemsAreFinite, AwaitedIsFinite DEF BatchRecords
<1>3. /\ batch.completed + Cardinality(queue) + Cardinality(Awaited) = batch.total
      /\ batch.status \in {"stopped", "completed"} => batch.completed = batch.total
  BY DEF BatchAccounts, Awaited
<1>4. \A S : Cardinality(S) \in Nat /\ IsFiniteSet(S)
        => /\ \A x : x \in S => Cardinality(S \ {x}) = Cardinality(S) - 1 /\ Cardinality(S) >= 1
           /\ \A x : x \notin S => Cardinality(S \cup {x}) = Cardinality(S) + 1
  <2>1. ASSUME NEW S, Cardinality(S) \in Nat, IsFiniteSet(S), NEW x, x \in S
        PROVE  Cardinality(S \ {x}) = Cardinality(S) - 1 /\ Cardinality(S) >= 1
    <3>1. Cardinality(S) # 0
      BY <2>1, FS_EmptySet
    <3>2. Cardinality(S \ {x}) = Cardinality(S) - 1
      BY <2>1, FS_RemoveElement
    <3>3. Cardinality(S) >= 1
      BY <2>1, <3>1
    <3>4. QED
      BY <3>2, <3>3
  <2>2. ASSUME NEW S, IsFiniteSet(S), NEW x, x \notin S
        PROVE  Cardinality(S \cup {x}) = Cardinality(S) + 1
    BY <2>2, FS_AddElement
  <2>3. QED
    BY <2>1, <2>2
<1>5. CASE TakeItem(w)
  <2>1. PICK item \in queue :
           /\ worker' = [worker EXCEPT ![w] = [pc |-> "wait", item |-> item]]
           /\ queue' = queue \ {item}
    BY <1>5 DEF TakeItem
  <2>2. worker[w].pc = "next" /\ batch' = batch
    BY <1>5 DEF TakeItem
  <2>3. [pc |-> "wait", item |-> item] \in WorkerRecords
    BY <1>1, NodeChecksAssumption DEF WorkerRecords, Items, Tasks
  <2>4. worker' \in [Workers -> WorkerRecords]
    BY <1>1, <2>1, <2>3
  <2>5. \A v \in Workers : v # w => worker'[v] = worker[v]
    BY <1>1, <2>1
  <2>6. worker'[w].pc = "wait"
    BY <1>1, <2>1
  <2>7. w \notin Awaited /\ Awaited' = Awaited \cup {w}
    BY <2>2, <2>5, <2>6 DEF Awaited
  <2>8. Cardinality(queue') = Cardinality(queue) - 1
    BY <1>2, <1>4, <2>1
  <2>9. Cardinality(Awaited') = Cardinality(Awaited) + 1
    BY <1>2, <1>4, <2>7
  <2>10. batch'.completed + Cardinality(queue') + Cardinality(Awaited') = batch'.total
    BY <1>2, <1>3, <2>2, <2>8, <2>9
  <2>11. QueueIsServed'
    BY <2>1, <2>5, <2>6 DEF QueueIsServed
  <2>12. QED
    BY <1>1, <1>3, <2>1, <2>2, <2>4, <2>10, <2>11 DEF BatchAccounts, Awaited
<1>6. CASE ItemDone(w) \/ ItemAbandoned(w)
  <2>1. /\ worker[w].pc = "wait" /\ queue' = queue
        /\ worker' = [worker EXCEPT ![w] = [pc |-> "next", item |-> NoItem]]
        /\ batch' = [batch EXCEPT !.completed = @ + 1]
    BY <1>6 DEF ItemDone, ItemAbandoned, CountItem
  <2>2. [pc |-> "next", item |-> NoItem] \in WorkerRecords
    BY NodeChecksAssumption DEF WorkerRecords, NoItem
  <2>3. worker' \in [Workers -> WorkerRecords]
    BY <1>1, <2>1, <2>2
  <2>4. /\ \A v \in Workers : v # w => worker'[v] = worker[v]
        /\ worker'[w].pc = "next"
    BY <1>1, <2>1
  <2>5. w \in Awaited /\ Awaited' = Awaited \ {w}
    BY <2>1, <2>4 DEF Awaited
  <2>6. Cardinality(Awaited') = Cardinality(Awaited) - 1 /\ Cardinality(Awaited) >= 1
    BY <1>2, <1>4, <2>5
  <2>7. /\ batch'.completed = batch.completed + 1 /\ batch'.total = batch.total
        /\ batch'.status = batch.status
    BY <1>1, <2>1 DEF BatchRecords
  <2>8. batch.completed + 1 \in 0..Cardinality(Nodes)
    BY <1>2, <1>3, <2>6
  <2>9. batch' \in BatchRecords
    BY <1>1, <2>1, <2>8 DEF BatchRecords
  <2>10. batch'.completed + Cardinality(queue') + Cardinality(Awaited') = batch'.total
    BY <1>2, <1>3, <2>1, <2>6, <2>7
  <2>11. batch'.status \notin {"stopped", "completed"}
    BY <1>2, <1>3, <2>6, <2>7
  <2>12. QueueIsServed'
    BY <2>1, <2>4 DEF QueueIsServed
  <2>13. QED
    BY <1>1, <2>1, <2>3, <2>9, <2>10, <2>11, <2>12 DEF BatchAccounts, Awaited
<1>7. CASE WorkerLeaves(w)
  <2>1. /\ worker[w].pc = "next" /\ queue = {} /\ batch' = batch /\ queue' = queue
        /\ worker' = [worker EXCEPT ![w] = IdleWorker]
    BY <1>7 DEF WorkerLeaves
  <2>2. IdleWorker \in WorkerRecords /\ IdleWorker.pc = "off"
    BY NodeChecksAssumption DEF WorkerRecords, IdleWorker, NoItem
  <2>3. worker' \in [Workers -> WorkerRecords]
    BY <1>1, <2>1, <2>2
  <2>4. \A v \in Workers : worker'[v].pc = "wait" <=> worker[v].pc = "wait"
    BY <1>1, <2>1, <2>2
  <2>5. Awaited' = Awaited
    BY <2>4 DEF Awaited
  <2>6. QueueIsServed'
    BY <2>1 DEF QueueIsServed
  <2>7. QED
    BY <1>1, <1>3, <2>1, <2>3, <2>5, <2>6 DEF BatchAccounts, Awaited
<1>8. QED
  BY <1>5, <1>6, <1>7 DEF Work

LEMMA BatchStep ==
  Typing /\ TasksAreCurrent /\ QueueIsServed /\ BatchAccounts /\ [Next]_vars
  => /\ QueueIsServed' /\ BatchAccounts'
     /\ queue' \in SUBSET Items /\ batch' \in BatchRecords
     /\ worker' \in [Workers -> WorkerRecords]
<1> SUFFICES ASSUME Typing, TasksAreCurrent, QueueIsServed, BatchAccounts, [Next]_vars
             PROVE  /\ QueueIsServed' /\ BatchAccounts'
                    /\ queue' \in SUBSET Items /\ batch' \in BatchRecords
                    /\ worker' \in [Workers -> WorkerRecords]
  OBVIOUS
<1>1. /\ batch \in BatchRecords /\ queue \in SUBSET Items
      /\ worker \in [Workers -> WorkerRecords] /\ TypeOK
  BY TypesByName DEF Typing
<1>2. CASE UNCHANGED batchVars
  BY <1>1, <1>2 DEF batchVars, QueueIsServed, BatchAccounts
<1>3. CASE StopBatch
  <2>1. /\ batch' = [batch EXCEPT !.status = "stopping", !.stopped = TRUE]
        /\ queue' = queue /\ worker' = worker
    BY <1>3 DEF StopBatch
  <2>2. /\ batch' \in BatchRecords /\ batch'.completed = batch.completed
        /\ batch'.total = batch.total /\ batch'.status = "stopping"
    BY <1>1, <2>1 DEF BatchRecords
  <2>3. QED
    BY <1>1, <2>1, <2>2 DEF QueueIsServed, BatchAccounts
<1>4. CASE BatchEnds
  <2>1. /\ batch' = [batch EXCEPT !.status = IF BatchDone THEN "stopped" ELSE "completed"]
        /\ queue' = queue /\ worker' = worker
        /\ \A w \in Workers : worker[w].pc = "off"
    BY <1>4 DEF BatchEnds
  <2>2. /\ batch' \in BatchRecords /\ batch'.completed = batch.completed
        /\ batch'.total = batch.total
    BY <1>1, <2>1 DEF BatchRecords
  <2>3. Awaited = {} /\ queue = {}
    <3>1. 1 \in Workers
      BY NodeChecksAssumption DEF Workers
    <3>2. QED
      BY <2>1, <3>1 DEF Awaited, QueueIsServed
  <2>4. batch.completed = batch.total
    <3>1. batch.completed + Cardinality(queue) + Cardinality(Awaited) = batch.total
      BY DEF BatchAccounts, Awaited
    <3>2. Cardinality(queue) = 0 /\ Cardinality(Awaited) = 0
      BY <2>3, FS_EmptySet
    <3>3. batch.completed \in Int
      BY <1>1 DEF BatchRecords
    <3>4. QED
      BY <3>1, <3>2, <3>3
  <2>5. QED
    BY <1>1, <2>1, <2>2, <2>4 DEF QueueIsServed, BatchAccounts
<1>5. ASSUME NEW w \in Workers, Work(w)
      PROVE  /\ QueueIsServed' /\ BatchAccounts'
             /\ queue' \in SUBSET Items /\ batch' \in BatchRecords
             /\ worker' \in [Workers -> WorkerRecords]
  BY <1>1, <1>5, WorkEffects
<1>6. ASSUME NEW r \in Requests, StartBatch(r)
      PROVE  /\ QueueIsServed' /\ BatchAccounts'
             /\ queue' \in SUBSET Items /\ batch' \in BatchRecords
             /\ worker' \in [Workers -> WorkerRecords]
  <2>1. /\ queue' \in SUBSET Items /\ Cardinality(queue') = batch'.total
        /\ batch' \in BatchRecords /\ batch'.completed = 0 /\ batch'.status = "running"
        /\ worker' = [w \in Workers |-> [pc |-> "next", item |-> NoItem]]
    BY <1>6, NewBatch
  <2>2. \A w \in Workers : worker'[w].pc = "next"
    BY <2>1
  <2>3. Awaited' = {} /\ QueueIsServed'
    BY <2>2 DEF Awaited, QueueIsServed
  <2>4. Cardinality(Awaited') = 0 /\ Cardinality(queue') \in Nat
    BY <2>1, <2>3, FS_EmptySet, ItemsAreFinite
  <2>5. batch'.completed + Cardinality(queue') + Cardinality(Awaited') = batch'.total
    BY <2>1, <2>4
  <2>6. BatchAccounts'
    BY <2>1, <2>5 DEF BatchAccounts, Awaited
  <2>7. [pc |-> "next", item |-> NoItem] \in WorkerRecords
    BY NodeChecksAssumption DEF WorkerRecords, NoItem
  <2>8. worker' \in [Workers -> WorkerRecords]
    BY <2>1, <2>7
  <2>9. QED
    BY <2>1, <2>3, <2>6, <2>8
<1>7. QED
  BY <1>2, <1>3, <1>4, <1>5, <1>6, BatchFrame
-----------------------------------------------------------------------------
\* Types.

\* What a handler carries from its read to its use.
LEMMA RequestsStep ==
  ASSUME Typing, [Next]_vars
  PROVE  RequestsAreTyped'
<1>1. /\ req = [r \in Requests |-> req[r]] /\ RequestsAreTyped /\ cfg \in States
  BY TypesByName DEF Typing, RequestsAreTyped
<1>2. ASSUME NEW r \in Requests, NEW request, req' = [req EXCEPT ![r] = request],
             /\ request.kind \in {"none", "single", "batch", "poll"}
             /\ request.kind \in {"single", "batch"} =>
                   /\ DOMAIN request.state \in SUBSET Nodes
                   /\ request.state \in [DOMAIN request.state -> Contents]
             /\ request.kind = "poll" => request.state \in States
      PROVE  RequestsAreTyped'
  <2>1. req'[r] = request /\ \A q \in Requests \ {r} : req'[q] = req[q]
    BY <1>1, <1>2
  <2>2. req' = [q \in Requests |-> req'[q]]
    BY <1>1, <1>2
  <2>3. ASSUME NEW q \in Requests
        PROVE  /\ req'[q].kind \in {"none", "single", "batch", "poll"}
               /\ req'[q].kind \in {"single", "batch"} =>
                     /\ DOMAIN req'[q].state \in SUBSET Nodes
                     /\ req'[q].state \in [DOMAIN req'[q].state -> Contents]
               /\ req'[q].kind = "poll" => req'[q].state \in States
    <3>1. CASE q = r
      BY <1>2, <2>1, <3>1
    <3>2. CASE q # r
      BY <1>1, <2>1, <2>3, <3>2 DEF RequestsAreTyped
    <3>3. QED
      BY <3>1, <3>2
  <2>4. Contents' = Contents /\ States' = States
    BY DEF Contents, States
  <2>5. QED
    BY <2>2, <2>3, <2>4 DEF RequestsAreTyped
<1>3. CASE UNCHANGED req
  BY <1>1, <1>3 DEF RequestsAreTyped, States, Contents
<1>4. ASSUME NEW r \in Requests, req' = [req EXCEPT ![r] = NoRequest]
      PROVE  RequestsAreTyped'
  BY <1>2, <1>4 DEF NoRequest
<1>5. ASSUME NEW r \in Requests, PrepareSingle(r) PROVE RequestsAreTyped'
  <2>1. PICK n \in Nodes : Begin(r, [kind |-> "single", state |-> [m \in {n} |-> cfg[m]]])
    BY <1>5 DEF PrepareSingle
  <2> DEFINE state == [m \in {n} |-> cfg[m]]
             request == [kind |-> "single", state |-> state]
  <2>2. DOMAIN state \in SUBSET Nodes /\ state \in [DOMAIN state -> Contents]
    BY <1>1 DEF States
  <2>3. req' = [req EXCEPT ![r] = request]
    BY <2>1 DEF Begin
  <2>4. request.kind = "single" /\ request.state = state
    OBVIOUS
  <2> HIDE DEF request, state
  <2>5. QED
    BY <1>2, <2>2, <2>3, <2>4
<1>6. ASSUME NEW r \in Requests, PrepareBatch(r) PROVE RequestsAreTyped'
  <2>1. PICK ids \in SUBSET Nodes :
           Begin(r, [kind |-> "batch",
                     state |-> [n \in {n \in ids : cfg[n] \in Usable} |-> cfg[n]]])
    BY <1>6 DEF PrepareBatch
  <2> DEFINE state == [n \in {n \in ids : cfg[n] \in Usable} |-> cfg[n]]
             request == [kind |-> "batch", state |-> state]
  <2>2. DOMAIN state \in SUBSET Nodes /\ state \in [DOMAIN state -> Contents]
    BY <1>1 DEF States
  <2>3. req' = [req EXCEPT ![r] = request]
    BY <2>1 DEF Begin
  <2>4. request.kind = "batch" /\ request.state = state
    OBVIOUS
  <2> HIDE DEF request, state
  <2>5. QED
    BY <1>2, <2>2, <2>3, <2>4
<1>7. ASSUME NEW r \in Requests, PreparePoll(r) PROVE RequestsAreTyped'
  <2> DEFINE request == [kind |-> "poll", state |-> cfg]
  <2>1. req' = [req EXCEPT ![r] = request]
    BY <1>7 DEF PreparePoll, Begin
  <2>2. request.kind = "poll" /\ request.state = cfg
    OBVIOUS
  <2> HIDE DEF request
  <2>3. QED
    BY <1>1, <1>2, <2>1, <2>2
<1>8. CASE Edit \/ StopBatch \/ Close \/ BatchEnds \/ Terminated \/ UNCHANGED vars
  BY <1>3, <1>8 DEF Edit, StopBatch, Close, BatchEnds, WorkerFrame, Terminated, vars
<1>9. ASSUME NEW w \in Workers, Work(w) PROVE UNCHANGED req
  BY <1>9 DEF Work, TakeItem, ItemDone, ItemAbandoned, WorkerLeaves, WorkerFrame
<1>10. ASSUME NEW t \in Tasks, Execute(t) PROVE UNCHANGED req
  BY <1>10, ExecuteCases DEF TaskFrame
<1>11. ASSUME NEW r \in Requests,
              GiveUp(r) \/ StartSingle(r) \/ StartBatch(r) \/ StartRefused(r) \/ Snapshot(r)
       PROVE  req' = [req EXCEPT ![r] = NoRequest]
  BY <1>11 DEF GiveUp, StartSingle, StartBatch, StartRefused, Snapshot, Respond
<1>12. QED
  BY <1>3, <1>4, <1>5, <1>6, <1>7, <1>8, <1>9, <1>10, <1>11 DEF Next, Handle

\* Only an edit changes the configuration, and only Close ends the service.
LEMMA ConfigurationStep ==
  ASSUME TypeOK, [Next]_vars
  PROVE  /\ cfg' \in States /\ applied' \in BOOLEAN
         /\ edits' \in 0..MaxEdits /\ closed' \in BOOLEAN
<1>1. /\ cfg \in States /\ applied \in BOOLEAN /\ edits \in 0..MaxEdits /\ closed \in BOOLEAN
  BY DEF TypeOK
<1>2. CASE Edit
  <2>1. PICK n \in Nodes, v \in Contents : cfg' = [cfg EXCEPT ![n] = v]
    BY <1>2 DEF Edit
  <2>2. cfg' \in States
    BY <1>1, <2>1 DEF States
  <2>3. /\ edits < MaxEdits /\ edits' = edits + 1
        /\ applied' \in BOOLEAN /\ closed' = closed
    BY <1>2 DEF Edit
  <2>4. edits' \in 0..MaxEdits
    BY <1>1, <2>3, NodeChecksAssumption
  <2>5. QED
    BY <1>1, <2>2, <2>3, <2>4
<1>3. CASE Close
  BY <1>1, <1>3 DEF Close, dbVars
<1>4. CASE UNCHANGED <<dbVars, closed>>
  BY <1>1, <1>4 DEF dbVars
<1>5. CASE StopBatch \/ BatchEnds \/ Terminated \/ UNCHANGED vars
  BY <1>4, <1>5 DEF StopBatch, BatchEnds, WorkerFrame, Terminated, vars
<1>6. ASSUME NEW w \in Workers, Work(w) PROVE UNCHANGED <<dbVars, closed>>
  BY <1>6 DEF Work, TakeItem, ItemDone, ItemAbandoned, WorkerLeaves, WorkerFrame
<1>7. ASSUME NEW t \in Tasks, Execute(t) PROVE UNCHANGED <<dbVars, closed>>
  BY <1>7, ExecuteCases DEF TaskFrame
<1>8. ASSUME NEW r \in Requests, Handle(r) PROVE UNCHANGED <<dbVars, closed>>
  BY <1>8 DEF Handle, PrepareSingle, PrepareBatch, PreparePoll, Begin, GiveUp, StartSingle,
     StartBatch, StartRefused, Snapshot
<1>9. QED
  BY <1>2, <1>3, <1>4, <1>5, <1>6, <1>7, <1>8 DEF Next

LEMMA SoundInit == Init => Sound
<1> SUFFICES ASSUME Init PROVE Sound
  OBVIOUS
<1>1. /\ 0 \in 0..MaxBatches /\ 0 \in 0..MaxTasks /\ 0 \in 0..MaxEdits
      /\ 0 \in 0..Cardinality(Nodes)
  BY NodeChecksAssumption, FS_CardinalityType
<1>2. task \in [Tasks -> TaskRecords]
  BY NoTaskIsTyped DEF Init
<1>3. worker \in [Workers -> WorkerRecords] /\ batch \in BatchRecords
  BY <1>1 DEF Init, IdleWorker, NoItem, NoBatch, WorkerRecords, BatchRecords
<1>4. cfg \in States /\ current \in [Nodes -> 0..MaxTasks]
  BY <1>1 DEF Init, States, Contents
<1>5. TypeOK
  BY <1>1, <1>2, <1>3, <1>4
     DEF Init, TypeOK, TaskRecords, WorkerRecords, BatchRecords, Items
<1>6. RequestsAreTyped
  BY DEF Init, RequestsAreTyped, NoRequest
<1>7. TasksAreCurrent
  <2>1. \A t \in Tasks : task[t].pc = "done"
    BY NoTaskIsDone DEF Init
  <2>2. \A n \in Nodes : current[n] = 0
    BY DEF Init
  <2>3. QED
    BY <2>1, <2>2 DEF TasksAreCurrent, InFlight, Finished
<1>8. QueueIsServed
  BY DEF Init, QueueIsServed
<1>9. BatchAccounts
  <2>1. queue = {} /\ batch.completed = 0 /\ batch.total = 0 /\ batch.status = "none"
    BY DEF Init, NoBatch
  <2>2. Awaited = {}
    BY DEF Init, IdleWorker, Awaited
  <2>3. Cardinality(queue) = 0 /\ Cardinality(Awaited) = 0
    BY <2>1, <2>2, FS_EmptySet
  <2>4. QED
    BY <2>1, <2>3 DEF BatchAccounts, Awaited
<1>10. QED
  BY <1>5, <1>6, <1>7, <1>8, <1>9 DEF Sound, Typing

LEMMA SoundStep == Sound /\ [Next]_vars => Sound'
<1> SUFFICES ASSUME Sound, [Next]_vars PROVE Sound'
  OBVIOUS
<1>1. Typing /\ TypeOK /\ TasksAreCurrent /\ QueueIsServed /\ BatchAccounts
  BY DEF Sound, Typing
<1>2. /\ TasksAreCurrent'
      /\ task' \in [Tasks -> TaskRecords] /\ current' \in [Nodes -> 0..MaxTasks]
  BY <1>1, TasksStep
<1>3. /\ QueueIsServed' /\ BatchAccounts'
      /\ queue' \in SUBSET Items /\ batch' \in BatchRecords
      /\ worker' \in [Workers -> WorkerRecords]
  BY <1>1, BatchStep
<1>4. RequestsAreTyped'
  BY <1>1, RequestsStep
<1>5. /\ cfg' \in States /\ applied' \in BOOLEAN
      /\ edits' \in 0..MaxEdits /\ closed' \in BOOLEAN
  BY <1>1, ConfigurationStep
<1>6. TypeOK'
  BY <1>2, <1>3, <1>5 DEF TypeOK, TaskRecords, WorkerRecords, BatchRecords, Items,
     States, Contents, Tasks, Workers
<1>7. QED
  BY <1>2, <1>3, <1>4, <1>6 DEF Sound, Typing

LEMMA AlwaysSound == Spec => []Sound
  BY SoundInit, SoundStep, PTL DEF Spec

-----------------------------------------------------------------------------
\* Every variable keeps its type.
THEOREM CheckVariablesAreTyped == Spec => []TypeOK
<1>1. Sound => TypeOK
  BY DEF Sound, Typing
<1>2. QED
  BY <1>1, AlwaysSound, PTL

\* claim and Snapshot share a node's check while it is at work: two tasks of one node
\* are never both at work uncancelled, also when handlers use a state that is old.
THEOREM RequestsAreShared == Spec => []OneLiveTask
<1>1. Sound => OneLiveTask
  BY DEF Sound, TasksAreCurrent, OneLiveTask
<1>2. QED
  BY <1>1, AlwaysSound, PTL

\* Every target of a batch is queued, with a worker, or counted, exactly once, and a
\* batch that has ended counted them all: runBatch skips and repeats none.
THEOREM EveryTargetIsCounted == Spec => []BatchAccounts
<1>1. Sound => BatchAccounts
  BY DEF Sound
<1>2. QED
  BY <1>1, AlwaysSound, PTL

-----------------------------------------------------------------------------
\* Who cancels a task.

\* claim and Snapshot leave an unfinished task where it is, and cancel it only if what
\* was read of its node is not what it was started for; a new task has what was read.
Untouched(t) ==
    /\ task'[t].pc = task[t].pc
    /\ task'[t].node = task[t].node
    /\ task'[t].cfg = task[t].cfg

LEMMA ClaimSpares ==
  ASSUME TypeOK, TasksAreCurrent, NEW b \in 0..MaxBatches,
         NEW s, DOMAIN s \in SUBSET Nodes,
         NEW a \in Allocations(Owned(DOMAIN s)), Claim(s, b, a), NEW t \in Tasks
  PROVE  /\ task[t].pc # "done" =>
              /\ Untouched(t)
              /\ task'[t].cancelled =>
                    task[t].cancelled
                    \/ (task[t].node \in DOMAIN s /\ s[task[t].node] # task[t].cfg)
         /\ task'[t].pc # "done" =>
              task[t].pc # "done"
              \/ (task'[t].node \in DOMAIN s /\ task'[t].cfg = s[task'[t].node])
<1>1. /\ task[t] \in TaskRecords /\ t # 0
      /\ DOMAIN a = Owned(DOMAIN s) /\ \A n \in DOMAIN a : a[n] \in Free
      /\ \A m, n \in DOMAIN a : m # n => a[m] # a[n]
  BY TypesByName, AllocatedIsFree, NumbersOfTasks DEF Tasks
<1>2. task' = [u \in Tasks |->
            IF \E n \in DOMAIN a : a[n] = u
            THEN LET n == CHOOSE n \in DOMAIN a : a[n] = u IN NewTask(n, s[n], b)
            ELSE IF \E n \in DOMAIN a : current[n] = u
                 THEN NoTask
                 ELSE [task[u] EXCEPT !.cancelled = @ \/ Replaced(u, s)]]
  BY DEF Claim
<1>3. CASE \E n \in DOMAIN a : a[n] = t
  <2> DEFINE n == CHOOSE n \in DOMAIN a : a[n] = t
  <2>1. n \in DOMAIN a /\ a[n] = t
    BY <1>3
  <2>2. task'[t] = NewTask(n, s[n], b)
    BY <1>2, <1>3
  <2>3. n \in DOMAIN s
    BY <1>1, <2>1 DEF Owned
  <2>4. task[t].pc = "done"
    BY <1>1, <2>1, FreeIsUnused DEF InFlight, Finished
  <2> HIDE DEF n
  <2>5. NewTask(n, s[n], b).node = n /\ NewTask(n, s[n], b).cfg = s[n]
    BY DEF NewTask
  <2>6. QED
    BY <2>2, <2>3, <2>4, <2>5
<1>4. CASE ~(\E n \in DOMAIN a : a[n] = t) /\ \E n \in DOMAIN a : current[n] = t
  <2>1. task'[t] = NoTask
    BY <1>2, <1>4
  <2>2. task[t].pc = "done"
    BY <1>1, <1>4 DEF Owned, Shared, Finished
  <2>3. QED
    BY <2>1, <2>2, NoTaskIsDone
<1>5. CASE ~\E n \in DOMAIN a : a[n] = t \/ current[n] = t
  <2>1. task'[t] = [task[t] EXCEPT !.cancelled = @ \/ Replaced(t, s)]
    BY <1>2, <1>5
  <2>2. /\ Untouched(t)
        /\ task'[t].cancelled => task[t].cancelled \/ Replaced(t, s)
    BY <1>1, <2>1 DEF TaskRecords, Untouched
  <2>3. Replaced(t, s) => task[t].node \in DOMAIN s /\ s[task[t].node] # task[t].cfg
    BY <1>1 DEF Replaced, TasksAreCurrent
  <2>4. QED
    BY <2>2, <2>3 DEF Untouched
<1>6. QED
  BY <1>3, <1>4, <1>5

LEMMA SnapshotSpares ==
  ASSUME TypeOK, TasksAreCurrent, NEW r \in Requests, Snapshot(r), NEW t \in Tasks
  PROVE  /\ task[t].pc # "done" =>
              /\ Untouched(t)
              /\ task'[t].cancelled =>
                    \/ task[t].cancelled
                    \/ req[r].state[task[t].node] = Absent
                    \/ req[r].state[task[t].node] # task[t].cfg
         /\ task'[t].pc # "done" => task[t].pc # "done"
<1> DEFINE s == req[r].state
           Gone == {n \in Nodes : current[n] # 0 /\ s[n] = Absent}
           Changed == {n \in Nodes : /\ current[n] # 0
                                     /\ s[n] # Absent
                                     /\ task[current[n]].cfg # s[n]}
<1>1. task[t] \in TaskRecords
  BY TypesByName
<1>2. task'[t] = CASE \E n \in Gone : current[n] = t ->
                        IF Finished(t) THEN NoTask
                                       ELSE [task[t] EXCEPT !.cancelled = TRUE]
                  [] \E n \in Changed : current[n] = t ->
                        [task[t] EXCEPT !.cancelled = TRUE, !.status = "stale"]
                  [] OTHER -> task[t]
  BY DEF Snapshot
<1>3. \A n \in Gone : current[n] = t => s[task[t].node] = Absent
  BY DEF TasksAreCurrent
<1>4. \A n \in Changed : current[n] = t => s[task[t].node] # task[t].cfg
  BY DEF TasksAreCurrent
<1>5. (\E n \in Gone : current[n] = t) => ~\E n \in Changed : current[n] = t
  BY DEF TasksAreCurrent
<1> HIDE DEF Gone, Changed, s
<1>6. CASE \E n \in Gone : current[n] = t
  <2>1. task'[t] = IF Finished(t) THEN NoTask ELSE [task[t] EXCEPT !.cancelled = TRUE]
    BY <1>2, <1>5, <1>6
  <2>2. QED
    BY <1>1, <1>3, <1>6, <2>1, NoTaskIsDone DEF Finished, TaskRecords, Untouched, s
<1>7. CASE ~(\E n \in Gone : current[n] = t) /\ \E n \in Changed : current[n] = t
  <2>1. task'[t] = [task[t] EXCEPT !.cancelled = TRUE, !.status = "stale"]
    BY <1>2, <1>7
  <2>2. QED
    BY <1>1, <1>4, <1>7, <2>1 DEF TaskRecords, Untouched, s
<1>8. CASE ~(\E n \in Gone : current[n] = t) /\ ~(\E n \in Changed : current[n] = t)
  <2>1. task'[t] = task[t]
    BY <1>2, <1>8
  <2>2. QED
    BY <2>1 DEF Untouched
<1>9. QED
  BY <1>6, <1>7, <1>8

\* Whatever uses what it has read.
LEMMA UsesSpare ==
  ASSUME Typing, TasksAreCurrent, NEW r \in Requests,
         StartSingle(r) \/ StartBatch(r) \/ Snapshot(r), NEW t \in Tasks
  PROVE  /\ task[t].pc # "done" =>
              Untouched(t) /\ (task'[t].cancelled => task[t].cancelled \/ Outdates(r, t))
         /\ task'[t].pc # "done" =>
              task[t].pc # "done"
              \/ (task'[t].node \in DOMAIN req[r].state
                    /\ task'[t].cfg = req[r].state[task'[t].node])
<1>1. TypeOK /\ task[t] \in TaskRecords /\ RequestsAreTyped
  BY TypesByName DEF Typing
<1>2. req[r].kind # "none" /\ req'[r].kind = "none"
  <2>1. req' = [req EXCEPT ![r] = NoRequest] /\ r \in DOMAIN req
    BY <1>1 DEF StartSingle, StartBatch, Snapshot, Respond, RequestsAreTyped
  <2>2. req[r].kind # "none"
    BY DEF StartSingle, StartBatch, Snapshot
  <2>3. QED
    BY <2>1, <2>2 DEF NoRequest
<1>3. ASSUME NEW b \in 0..MaxBatches, DOMAIN req[r].state \in SUBSET Nodes,
             \E a \in Allocations(Owned(DOMAIN req[r].state)) : Claim(req[r].state, b, a)
      PROVE  /\ task[t].pc # "done" =>
                  Untouched(t) /\ (task'[t].cancelled => task[t].cancelled \/ Outdates(r, t))
             /\ task'[t].pc # "done" =>
                  task[t].pc # "done"
                  \/ (task'[t].node \in DOMAIN req[r].state
                        /\ task'[t].cfg = req[r].state[task'[t].node])
  BY <1>1, <1>2, <1>3, ClaimSpares DEF Outdates
<1>4. CASE StartSingle(r)
  BY <1>3, <1>4, StartSingleClaims
<1>5. CASE StartBatch(r)
  <2>1. /\ \E a \in Allocations(Owned(DOMAIN req[r].state)) :
              Claim(req[r].state, batch.id + 1, a)
        /\ DOMAIN req[r].state \in SUBSET Nodes /\ batch.id + 1 \in 0..MaxBatches
    BY <1>5, StartBatchClaims
  <2>2. QED
    BY <1>3, <2>1
<1>6. CASE Snapshot(r)
  <2>1. task[t].node \in DOMAIN req[r].state
    BY <1>1, <1>6 DEF Snapshot, RequestsAreTyped, States, TaskRecords
  <2>2. QED
    BY <1>1, <1>2, <1>6, <2>1, SnapshotSpares DEF Outdates
<1>7. QED
  BY <1>4, <1>5, <1>6

\* execute keeps what its task was started for, and cancels no other.
LEMMA ExecuteSpares ==
  ASSUME TypeOK, TasksAreCurrent, NEW u \in Tasks, Execute(u), NEW t \in Tasks,
         task'[t].pc # "done"
  PROVE  /\ task[t].pc # "done" /\ task'[t].node = task[t].node /\ task'[t].cfg = task[t].cfg
         /\ task'[t].cancelled = task[t].cancelled
<1>1. task \in [Tasks -> TaskRecords] /\ task[u].pc # "done"
      /\ \A v \in Tasks \ {u} : task'[v] = task[v]
  BY TypesByName, ExecuteCases, ExecuteEffects
<1>2. CASE Move(u, "probe")
  BY <1>1, <1>2 DEF Move, TaskRecords
<1>3. ASSUME NEW result \in Finals, End(u, result)
      PROVE  task'[u].pc = "done"
  <2>1. task' = [task EXCEPT ![u] =
          IF current[task[u].node] = u
          THEN [@ EXCEPT !.pc = "done", !.status = result, !.cancelled = TRUE, !.batch = 0]
          ELSE NoTask]
    BY <1>3 DEF End
  <2>2. task[u] \in TaskRecords
    BY <1>1
  <2>3. task'[u] = NoTask \/ task'[u] = [task[u] EXCEPT !.pc = "done", !.status = result,
                                                        !.cancelled = TRUE, !.batch = 0]
    BY <1>1, <2>1
  <2>4. QED
    BY <2>2, <2>3, NoTaskIsDone DEF TaskRecords
<1>4. QED
  BY <1>1, <1>2, <1>3, ExecuteCases

\* Before the first edit everything that was read is what is stored.
Unedited ==
    edits = 0 =>
       /\ \A n \in Nodes : cfg[n] # Absent
       /\ \A r \in Requests : req[r].kind # "none" =>
             \A n \in DOMAIN req[r].state : req[r].state[n] = cfg[n]
       /\ \A t \in Tasks : task[t].pc # "done" => task[t].cfg = cfg[task[t].node]

\* The handlers that read, and those that do not use what they have read.
LEMMA ReadsAreNew ==
  ASSUME Typing, [Next]_vars, ~Edit, NEW r \in Requests, req'[r].kind # "none"
  PROVE  req'[r] = req[r] \/ \A n \in DOMAIN req'[r].state : req'[r].state[n] = cfg[n]
<1>1. req = [q \in Requests |-> req[q]]
  BY DEF Typing, RequestsAreTyped
<1>2. ASSUME NEW q \in Requests, PrepareSingle(q) \/ PrepareBatch(q) \/ PreparePoll(q)
      PROVE  req'[r] = req[r] \/ \A n \in DOMAIN req'[r].state : req'[r].state[n] = cfg[n]
  <2>1. ASSUME NEW kind, NEW state, \A n \in DOMAIN state : state[n] = cfg[n],
               Begin(q, [kind |-> kind, state |-> state])
        PROVE  req'[r] = req[r] \/ \A n \in DOMAIN req'[r].state : req'[r].state[n] = cfg[n]
    <3>1. DEFINE request == [kind |-> kind, state |-> state]
    <3>2. request.state = state
      OBVIOUS
    <3>3. req' = [req EXCEPT ![q] = request]
      BY <2>1 DEF Begin
    <3> HIDE DEF request
    <3>4. req'[r] = req[r] \/ req'[r] = request
      BY <1>1, <3>3
    <3>5. QED
      BY <2>1, <3>2, <3>4
  <2>2. CASE PrepareSingle(q)
    <3>1. PICK n \in Nodes : Begin(q, [kind |-> "single", state |-> [m \in {n} |-> cfg[m]]])
      BY <2>2 DEF PrepareSingle
    <3>2. DEFINE state == [m \in {n} |-> cfg[m]]
    <3>3. \A m \in DOMAIN state : state[m] = cfg[m]
      OBVIOUS
    <3>4. Begin(q, [kind |-> "single", state |-> state])
      BY <3>1
    <3> HIDE DEF state
    <3>5. QED
      BY <2>1, <3>3, <3>4
  <2>3. CASE PrepareBatch(q)
    <3>1. PICK ids \in SUBSET Nodes :
             Begin(q, [kind |-> "batch",
                       state |-> [n \in {n \in ids : cfg[n] \in Usable} |-> cfg[n]]])
      BY <2>3 DEF PrepareBatch
    <3>2. DEFINE state == [n \in {n \in ids : cfg[n] \in Usable} |-> cfg[n]]
    <3>3. \A m \in DOMAIN state : state[m] = cfg[m]
      OBVIOUS
    <3>4. Begin(q, [kind |-> "batch", state |-> state])
      BY <3>1
    <3> HIDE DEF state
    <3>5. QED
      BY <2>1, <3>3, <3>4
  <2>4. CASE PreparePoll(q)
    <3>1. Begin(q, [kind |-> "poll", state |-> cfg])
      BY <2>4 DEF PreparePoll
    <3>2. QED
      BY <2>1, <3>1
  <2>5. QED
    BY <1>2, <2>2, <2>3, <2>4
<1>3. ASSUME NEW q \in Requests,
             GiveUp(q) \/ StartSingle(q) \/ StartBatch(q) \/ StartRefused(q) \/ Snapshot(q)
      PROVE  req'[r] = req[r]
  <2>1. req' = [req EXCEPT ![q] = NoRequest]
    BY <1>3 DEF GiveUp, StartSingle, StartBatch, StartRefused, Snapshot, Respond
  <2>2. QED
    BY <1>1, <2>1 DEF NoRequest
<1>4. CASE StopBatch \/ Close \/ BatchEnds \/ Terminated \/ UNCHANGED vars
  BY <1>4 DEF StopBatch, Close, BatchEnds, WorkerFrame, Terminated, vars
<1>5. ASSUME NEW w \in Workers, Work(w) PROVE UNCHANGED req
  BY <1>5 DEF Work, TakeItem, ItemDone, ItemAbandoned, WorkerLeaves, WorkerFrame
<1>6. ASSUME NEW t \in Tasks, Execute(t) PROVE UNCHANGED req
  BY <1>6, ExecuteCases DEF TaskFrame
<1>7. QED
  BY <1>2, <1>3, <1>4, <1>5, <1>6 DEF Next, Handle

LEMMA OnlyEditsEdit ==
  ASSUME [Next]_vars, ~Edit
  PROVE  UNCHANGED dbVars
<1>1. CASE StopBatch \/ Close \/ BatchEnds \/ Terminated \/ UNCHANGED vars
  BY <1>1 DEF StopBatch, Close, BatchEnds, WorkerFrame, Terminated, vars
<1>2. ASSUME NEW w \in Workers, Work(w) PROVE UNCHANGED dbVars
  BY <1>2 DEF Work, TakeItem, ItemDone, ItemAbandoned, WorkerLeaves, WorkerFrame
<1>3. ASSUME NEW t \in Tasks, Execute(t) PROVE UNCHANGED dbVars
  BY <1>3, ExecuteCases DEF TaskFrame
<1>4. ASSUME NEW r \in Requests, Handle(r) PROVE UNCHANGED dbVars
  BY <1>4 DEF Handle, PrepareSingle, PrepareBatch, PreparePoll, Begin, GiveUp, StartSingle,
     StartBatch, StartRefused, Snapshot
<1>5. QED
  BY <1>1, <1>2, <1>3, <1>4 DEF Next

LEMMA UneditedStep == Sound /\ Unedited /\ [Next]_vars => Unedited'
<1> SUFFICES ASSUME Sound, Unedited, [Next]_vars PROVE Unedited'
  OBVIOUS
<1>1. Typing /\ TypeOK /\ TasksAreCurrent
  BY DEF Sound, Typing
<1>2. CASE Edit
  BY <1>1, <1>2 DEF Edit, TypeOK, Unedited
<1>3. CASE ~Edit
  <2>1. cfg' = cfg /\ edits' = edits
    BY <1>3, OnlyEditsEdit DEF dbVars
  <2> SUFFICES ASSUME edits = 0 PROVE Unedited'
    BY <2>1 DEF Unedited
  <2>2. ASSUME NEW r \in Requests, req'[r].kind # "none", NEW n \in DOMAIN req'[r].state
        PROVE  req'[r].state[n] = cfg[n]
    BY <1>1, <1>3, <2>2, ReadsAreNew DEF Unedited
  <2>3. ASSUME NEW t \in Tasks, task'[t].pc # "done"
        PROVE  task'[t].cfg = cfg[task'[t].node]
    <3>1. CASE Aside \/ UNCHANGED vars
      BY <2>3, <3>1, AsideKeepsTasks DEF taskVars, vars, Unedited
    <3>2. ASSUME NEW r \in Requests, StartSingle(r) \/ StartBatch(r) \/ Snapshot(r)
          PROVE  task'[t].cfg = cfg[task'[t].node]
      <4>1. req[r].kind # "none"
        BY <3>2 DEF StartSingle, StartBatch, Snapshot
      <4>2. QED
        BY <1>1, <2>3, <3>2, <4>1, UsesSpare DEF Unedited, Untouched
    <3>3. ASSUME NEW u \in Tasks, Execute(u) PROVE task'[t].cfg = cfg[task'[t].node]
      BY <1>1, <2>3, <3>3, ExecuteSpares DEF Unedited
    <3>4. QED
      BY <3>1, <3>2, <3>3, StepCases
  <2>4. QED
    BY <2>1, <2>2, <2>3 DEF Unedited
<1>4. QED
  BY <1>2, <1>3

LEMMA AlwaysUnedited == Spec => []Unedited
<1>1. Init => Unedited
  BY NoTaskIsDone, NodeChecksAssumption DEF Init, Unedited, NoRequest
<1>2. QED
  BY <1>1, UneditedStep, AlwaysSound, PTL DEF Spec

\* A check that a batch only shares is not touched by the batch: it ends as cancelled
\* with the service or after it was cancelled itself, and that is done by a handler that
\* has read its node as gone or changed - by no one before the first edit.
THEOREM SinglesOutliveTheBatch == Spec => StopSparesSingles
<1> DEFINE Spared(t) == task[t].batch = 0 /\ ~Finished(t) =>
              /\ task'[t].pc = "done" /\ task'[t].status = "cancelled"
                    => closed \/ task[t].cancelled
              /\ task'[t].pc # "done" /\ task'[t].cancelled /\ ~task[t].cancelled
                    => edits > 0 /\ \E r \in Requests : Outdates(r, t)
<1>1. Sound /\ Unedited /\ [Next]_vars => [\A t \in Tasks : Spared(t)]_vars
  <2> SUFFICES ASSUME Sound, Unedited, [Next]_vars, NEW t \in Tasks,
                      task[t].batch = 0, task[t].pc # "done"
               PROVE  Spared(t)
    BY DEF Finished
  <2>1. Typing /\ TypeOK /\ TasksAreCurrent
    BY DEF Sound, Typing
  <2>2. CASE Aside \/ UNCHANGED vars
    <3>1. task'[t] = task[t]
      BY <2>2, AsideKeepsTasks DEF taskVars, vars
    <3>2. QED
      BY <3>1
  <2>3. ASSUME NEW r \in Requests, StartSingle(r) \/ StartBatch(r) \/ Snapshot(r)
        PROVE  Spared(t)
    <3>1. /\ task'[t].pc = task[t].pc
          /\ task'[t].cancelled => task[t].cancelled \/ Outdates(r, t)
      BY <2>1, <2>3, UsesSpare DEF Untouched
    <3>2. Outdates(r, t) => edits # 0
      <4>1. task[t].node \in Nodes
        BY <2>1, TypesByName DEF TaskRecords
      <4>2. QED
        BY <4>1 DEF Outdates, Unedited
    <3>3. edits \in Nat
      BY <2>1, NodeChecksAssumption DEF TypeOK
    <3>4. QED
      BY <3>1, <3>2, <3>3
  <2>4. ASSUME NEW u \in Tasks, Execute(u) PROVE Spared(t)
    <3>1. /\ \A v \in Tasks \ {u} : task'[v] = task[v]
          /\ task'[u].status = "cancelled" /\ task'[u].pc = "done" => Done(u)
          /\ task'[t].pc # "done" => task'[t].cancelled = task[t].cancelled
      BY <2>1, <2>4, ExecuteEffects, ExecuteSpares
    <3>2. ASSUME task'[t].pc = "done", task'[t].status = "cancelled"
          PROVE  closed \/ task[t].cancelled
      <4>1. u = t /\ Done(t)
        BY <3>1, <3>2
      <4>2. QED
        BY <4>1 DEF Done
    <3>3. QED
      BY <3>1, <3>2
  <2>5. QED
    BY <2>2, <2>3, <2>4, StepCases
<1>2. QED
  BY <1>1, AlwaysSound, AlwaysUnedited, PTL DEF Spec, StopSparesSingles
=============================================================================
