----------------------------- MODULE NodeChecks -----------------------------
(***************************************************************************)
(* The latency checks of manager/checks.go: single checks and one batch at *)
(* a time share a semaphore (slots), a task in flight is shared by all who *)
(* ask for its node, a task reads its node before and after the probe, and *)
(* every answer to the page reconciles the results with the state the      *)
(* handler read.                                                           *)
(*                                                                         *)
(* A handler reads the state under Manager.mu, then calls the kernel, and  *)
(* only then takes NodeChecks.mu: the state it works on can be old by the  *)
(* time it is used (req).  Edits of the configuration are atomic here:     *)
(* whoever reads the configuration holds the mutex an edit holds from its  *)
(* commit to the end of its application.                                   *)
(***************************************************************************)
EXTENDS Integers, FiniteSets

CONSTANTS
    Nodes,        \* node identifiers
    Configs,      \* contents of a node, whether it is enabled and available included
    Usable,       \* those of a node that is enabled and available
    Absent,       \* a node that is removed
    Requests,     \* handlers that can be between their read and their use of it
    Slots,        \* checkConcurrency: semaphore and batch workers
    MaxTasks,     \* bound on the tasks created
    MaxBatches,   \* bound on the batches created
    MaxEdits      \* bound on the edits of the configuration

ASSUME NodeChecksAssumption ==
    /\ IsFiniteSet(Nodes) /\ Nodes # {}
    /\ Usable \subseteq Configs
    /\ Absent \notin Configs
    /\ Slots \in Nat \ {0}
    /\ MaxTasks \in Nat /\ MaxBatches \in Nat /\ MaxEdits \in Nat

VARIABLES
    cfg,        \* [Nodes -> Configs or Absent]: the stored nodes
    applied,    \* the stored revision is applied, without error
    edits,      \* number of edits so far
    task,       \* [Tasks -> task record]
    current,    \* NodeChecks.tasks: [Nodes -> task or 0]
    batch,      \* NodeChecks.batch
    queue,      \* items of the batch no worker has taken: sets of [task, owned]
    worker,     \* [Workers -> what each worker of the batch is at]
    req,        \* [Requests -> a handler and the state it has read]
    closed      \* Close was called: the service context is done

dbVars == <<cfg, applied, edits>>
taskVars == <<task, current>>
batchVars == <<batch, queue, worker>>
vars == <<dbVars, taskVars, batchVars, req, closed>>

Tasks == 1..MaxTasks
Workers == 1..Slots
Contents == Configs \cup {Absent}
States == [Nodes -> Contents]

\* How a task ends: "settled" stands for a delay, a failure and a timeout, which
\* nothing here tells apart.  "open" is a task queued or running.
Finals == {"settled", "cancelled", "stale", "skipped"}

\* No task, or a finished one that the map no longer names: only the batch that
\* waits for it may still look at it.  In a task, pc is where execute is, status what
\* is shown, and cancelled its own context, whose parent is batch (0: the service).
NoTask == [pc |-> "done", node |-> CHOOSE n \in Nodes : TRUE, cfg |-> Absent,
           batch |-> 0, cancelled |-> FALSE, status |-> "none"]

\* The four counters of CheckBatch are counted together as completed.
NoBatch == [id |-> 0, status |-> "none", total |-> 0, completed |-> 0,
            stopped |-> FALSE]

NoItem == [task |-> 0, owned |-> FALSE]
IdleWorker == [pc |-> "off", item |-> NoItem]

NoRequest == [kind |-> "none"]

Finished(t) == task[t].pc = "done"
InFlight == {t \in Tasks : ~Finished(t)}

\* Identifiers no task uses, the ones of finished tasks that neither the map nor
\* the batch refers to among them.
Free == {t \in Tasks \ InFlight :
            /\ \A n \in Nodes : current[n] # t
            /\ \A i \in queue : i.task # t
            /\ \A w \in Workers : worker[w].item.task # t}

\* batchCtx.Err() and task.ctx.Err(): a task ends with its own cancellation, with
\* its batch when it was created for one, and with the service.
BatchDone == batch.stopped \/ closed

Done(t) ==
    \/ task[t].cancelled
    \/ closed
    \/ task[t].batch # 0 /\ task[t].batch = batch.id /\ BatchDone

Init ==
    /\ cfg \in [Nodes -> Configs]
    /\ applied = TRUE
    /\ edits = 0
    /\ task = [t \in Tasks |-> NoTask]
    /\ current = [n \in Nodes |-> 0]
    /\ batch = NoBatch
    /\ queue = {}
    /\ worker = [w \in Workers |-> IdleWorker]
    /\ req = [r \in Requests |-> NoRequest]
    /\ closed = FALSE

-----------------------------------------------------------------------------
\* Any change or publication, as the readers of the configuration see it: one
\* node may get another content, disappear or come back, and the revision ends
\* applied or not.
Edit ==
    /\ ~closed
    /\ edits < MaxEdits
    /\ edits' = edits + 1
    /\ \E n \in Nodes, v \in Contents :
          cfg' = [cfg EXCEPT ![n] = v]
    /\ applied' \in BOOLEAN
    /\ UNCHANGED <<task, current, batchVars, req, closed>>

-----------------------------------------------------------------------------
\* Handlers.  The first step reads the state, the second one uses it.  The service
\* is closed after the HTTP server: handlers may outlive it, none begins then.

Begin(r, request) ==
    /\ ~closed
    /\ req[r].kind = "none"
    /\ req' = [req EXCEPT ![r] = request]
    /\ UNCHANGED <<dbVars, taskVars, batchVars, closed>>

\* prepare, then nodeForCheck: a check needs an applied configuration, a kernel
\* that answers and a node that can be used.
PrepareSingle(r) ==
    /\ applied
    /\ \E n \in Nodes :
          /\ cfg[n] \in Usable
          /\ Begin(r, [kind |-> "single", state |-> [m \in {n} |-> cfg[m]]])

PrepareBatch(r) ==
    /\ applied
    /\ \E ids \in SUBSET Nodes :
          LET usable == {n \in ids : cfg[n] \in Usable}
          IN  /\ usable # {}
              /\ Begin(r, [kind |-> "batch", state |-> [n \in usable |-> cfg[n]]])

\* GET /api/state, GET /api/node-checks and the answer to every other request.
PreparePoll(r) == Begin(r, [kind |-> "poll", state |-> cfg])

\* The context of the request ends, or the kernel does not answer.
GiveUp(r) ==
    /\ req[r].kind # "none"
    /\ req' = [req EXCEPT ![r] = NoRequest]
    /\ UNCHANGED <<dbVars, taskVars, batchVars, closed>>

Respond(r) == req' = [req EXCEPT ![r] = NoRequest]

\* claim: the task of a node is shared while it is unfinished, and cancelled when
\* it was created for another content.
Shared(n) == current[n] # 0 /\ ~Finished(current[n])
Owned(nodes) == {n \in nodes : ~Shared(n)}

NewTask(n, v, b) == [pc |-> "start", node |-> n, cfg |-> v, batch |-> b,
                     cancelled |-> FALSE, status |-> "open"]

\* The identifiers that the nodes without a task in flight get: the least ones that
\* are free, in any order.
Allocations(nodes) ==
    LET Least == {t \in Free : Cardinality({u \in Free : u < t}) < Cardinality(nodes)}
    IN  {a \in [nodes -> Least] : \A m, n \in nodes : m # n => a[m] # a[n]}

\* A shared task of another content than the one asked for is cancelled.
Replaced(t, s) ==
    \E n \in DOMAIN s : current[n] = t /\ Shared(n) /\ task[t].cfg # s[n]

\* The tasks after claiming the nodes of the state s, as s has them, for batch b
\* (0: none), where a names the new ones.
Claim(s, b, a) ==
    /\ task' = [t \in Tasks |->
          IF \E n \in DOMAIN a : a[n] = t
          THEN LET n == CHOOSE n \in DOMAIN a : a[n] = t IN NewTask(n, s[n], b)
          ELSE IF \E n \in DOMAIN a : current[n] = t
               THEN NoTask
               ELSE [task[t] EXCEPT !.cancelled = @ \/ Replaced(t, s)]]
    /\ current' = [n \in Nodes |-> IF n \in DOMAIN a THEN a[n] ELSE current[n]]

StartSingle(r) ==
    /\ req[r].kind = "single"
    /\ ~closed
    /\ \E a \in Allocations(Owned(DOMAIN req[r].state)) : Claim(req[r].state, 0, a)
    /\ Respond(r)
    /\ UNCHANGED <<dbVars, batchVars, closed>>

\* A second batch while one runs or stops is answered with the one there is.
BatchBusy == batch.status \in {"running", "stopping"}

StartBatch(r) ==
    /\ req[r].kind = "batch"
    /\ ~closed
    /\ ~BatchBusy
    /\ batch.id < MaxBatches
    /\ \E a \in Allocations(Owned(DOMAIN req[r].state)) :
          /\ Claim(req[r].state, batch.id + 1, a)
          /\ queue' = {[task |-> current'[n], owned |-> n \in DOMAIN a] :
                          n \in DOMAIN req[r].state}
    /\ batch' = [NoBatch EXCEPT !.id = batch.id + 1, !.status = "running",
                                !.total = Cardinality(DOMAIN req[r].state)]
    /\ worker' = [w \in Workers |-> [pc |-> "next", item |-> NoItem]]
    /\ Respond(r)
    /\ UNCHANGED <<dbVars, closed>>

StartRefused(r) ==
    /\ req[r].kind \in {"single", "batch"}
    /\ closed \/ (req[r].kind = "batch" /\ BatchBusy)
    /\ Respond(r)
    /\ UNCHANGED <<dbVars, taskVars, batchVars, closed>>

\* Mutant: a stop cancels what the batch waits for, the tasks it shares included.
StopBatchAll ==
    /\ batch.status = "running"
    /\ batch' = [batch EXCEPT !.status = "stopping", !.stopped = TRUE]
    /\ task' = [t \in Tasks |->
          IF ~Finished(t) /\ \E w \in Workers : worker[w].item.task = t
          THEN [task[t] EXCEPT !.cancelled = TRUE] ELSE task[t]]
    /\ UNCHANGED <<dbVars, current, queue, worker, req, closed>>

StopBatch ==
    /\ batch.status = "running"
    /\ batch' = [batch EXCEPT !.status = "stopping", !.stopped = TRUE]
    /\ UNCHANGED <<dbVars, taskVars, queue, worker, req, closed>>

\* Mutant: the task of a removed node is forgotten without being cancelled.
SnapshotForgets(r) ==
    /\ req[r].kind = "poll"
    /\ current' = [n \in Nodes |-> IF req[r].state[n] = Absent THEN 0 ELSE current[n]]
    /\ Respond(r)
    /\ UNCHANGED <<dbVars, task, batchVars, closed>>

\* Snapshot(state): tasks of nodes the state does not hold are cancelled and
\* forgotten, those of another content cancelled and shown as stale.
Snapshot(r) ==
    /\ req[r].kind = "poll"
    /\ LET s == req[r].state
           Gone == {n \in Nodes : current[n] # 0 /\ s[n] = Absent}
           Changed == {n \in Nodes : /\ current[n] # 0
                                     /\ s[n] # Absent
                                     /\ task[current[n]].cfg # s[n]}
       IN /\ task' = [t \in Tasks |->
                CASE \E n \in Gone : current[n] = t ->
                        IF Finished(t) THEN NoTask
                                       ELSE [task[t] EXCEPT !.cancelled = TRUE]
                  [] \E n \in Changed : current[n] = t ->
                        [task[t] EXCEPT !.cancelled = TRUE, !.status = "stale"]
                  [] OTHER -> task[t]]
          /\ current' = [n \in Nodes |-> IF n \in Gone THEN 0 ELSE current[n]]
    /\ Respond(r)
    /\ UNCHANGED <<dbVars, batchVars, closed>>

\* Server.Close, deferred by main.
Close ==
    /\ ~closed
    /\ closed' = TRUE
    /\ UNCHANGED <<dbVars, taskVars, batchVars, req>>

-----------------------------------------------------------------------------
\* execute.  A task of a batch is executed by the worker that took it, a single
\* one by a goroutine of its own.

Running(t) == task[t].batch = 0 \/ \E w \in Workers :
                 worker[w].pc = "wait" /\ worker[w].item = [task |-> t, owned |-> TRUE]

Move(t, label) == task' = [task EXCEPT ![t].pc = label]

TaskFrame == UNCHANGED <<dbVars, current, batchVars, req, closed>>

\* How execute ends: the slot is released, then the result becomes the task's, done
\* is closed and the context released.  A task between these deferred functions has
\* nothing left to do and holds nothing, so they are one step.
End(t, result) ==
    /\ task' = [task EXCEPT ![t] =
          IF current[task[t].node] = t
          THEN [@ EXCEPT !.pc = "done", !.status = result, !.cancelled = TRUE, !.batch = 0]
          ELSE NoTask]
    /\ TaskFrame

\* The slots taken.
Holders == {t \in Tasks : task[t].pc = "probe"}

\* A task takes a slot and reads its node under Manager.mu (currentNode); the probe
\* starts if the node is as the task has it and the configuration is applied.
\* Taking the slot commutes with everything before the read, so it is one step.
StartProbe(t) ==
    /\ Cardinality(Holders) < Slots
    /\ CASE cfg[task[t].node] # task[t].cfg -> End(t, "stale")
         [] cfg[task[t].node] = task[t].cfg /\ ~applied -> End(t, "skipped")
         [] OTHER -> Move(t, "probe") /\ TaskFrame

TakeSlot(t) ==
    /\ task[t].pc = "start"
    /\ Running(t)
    /\ ~Done(t)
    /\ StartProbe(t)

\* The read fails.
ReadFails(t) ==
    /\ task[t].pc = "start"
    /\ Running(t)
    /\ ~Done(t)
    /\ Cardinality(Holders) < Slots
    /\ End(t, "settled")

\* The context is done before the slot is taken, at a read, or during the probe;
\* where a slot is free too, the select may take it, and it is given back at once.
ExecuteCancelled(t) ==
    /\ task[t].pc \in {"start", "probe"}
    /\ Running(t)
    /\ Done(t)
    /\ End(t, "cancelled")

\* Kernel.Delay returns a delay or an error, and the node is read again: an old
\* probe is not attached to a changed node.  A read that fails counts as changed.
ProbeEnds(t) ==
    /\ task[t].pc = "probe"
    /\ ~Done(t)
    /\ \/ End(t, "stale")
       \/ cfg[task[t].node] = task[t].cfg /\ applied /\ End(t, "settled")

Execute(t) == TakeSlot(t) \/ ReadFails(t) \/ ExecuteCancelled(t) \/ ProbeEnds(t)

-----------------------------------------------------------------------------
\* Batch workers.

WorkerFrame == UNCHANGED <<dbVars, taskVars, req, closed>>

TakeItem(w) ==
    /\ worker[w].pc = "next"
    /\ \E item \in queue :
          /\ worker' = [worker EXCEPT ![w] = [pc |-> "wait", item |-> item]]
          /\ queue' = queue \ {item}
    /\ UNCHANGED batch
    /\ WorkerFrame

\* Mutant: an item is counted when its task is executed and when it is awaited.
CountItemTwice == batch' = [batch EXCEPT !.completed = @ + 2]

CountItem == batch' = [batch EXCEPT !.completed = @ + 1]

\* The task of the item is done.
ItemDone(w) ==
    /\ worker[w].pc = "wait"
    /\ Finished(worker[w].item.task)
    /\ CountItem
    /\ worker' = [worker EXCEPT ![w] = [pc |-> "next", item |-> NoItem]]
    /\ UNCHANGED queue
    /\ WorkerFrame

\* Mutant: the item that a stop interrupts is not counted.
ItemAbandonedUncounted(w) ==
    /\ worker[w].pc = "wait"
    /\ BatchDone
    /\ worker[w].item.owned => Finished(worker[w].item.task)
    /\ worker' = [worker EXCEPT ![w] = [pc |-> "next", item |-> NoItem]]
    /\ UNCHANGED <<batch, queue>>
    /\ WorkerFrame

\* The batch is stopped first.  An owned item is executed before the select, so
\* both of its cases are ready; a shared one is left in flight.
ItemAbandoned(w) ==
    /\ worker[w].pc = "wait"
    /\ BatchDone
    /\ worker[w].item.owned => Finished(worker[w].item.task)
    /\ CountItem
    /\ worker' = [worker EXCEPT ![w] = [pc |-> "next", item |-> NoItem]]
    /\ UNCHANGED queue
    /\ WorkerFrame

\* Mutant: the workers of a stopped batch leave its queue as it is.
WorkerLeavesQueue(w) ==
    /\ worker[w].pc = "next"
    /\ queue = {} \/ BatchDone
    /\ worker' = [worker EXCEPT ![w] = IdleWorker]
    /\ UNCHANGED <<batch, queue>>
    /\ WorkerFrame

WorkerLeaves(w) ==
    /\ worker[w].pc = "next"
    /\ queue = {}
    /\ worker' = [worker EXCEPT ![w] = IdleWorker]
    /\ UNCHANGED <<batch, queue>>
    /\ WorkerFrame

BatchEnds ==
    /\ BatchBusy
    /\ \A w \in Workers : worker[w].pc = "off"
    /\ batch' = [batch EXCEPT !.status = IF BatchDone THEN "stopped" ELSE "completed"]
    /\ UNCHANGED <<queue, worker>>
    /\ WorkerFrame

Work(w) == TakeItem(w) \/ ItemDone(w) \/ ItemAbandoned(w) \/ WorkerLeaves(w)

Handle(r) ==
    \/ PrepareSingle(r) \/ PrepareBatch(r) \/ PreparePoll(r) \/ GiveUp(r)
    \/ StartSingle(r) \/ StartBatch(r) \/ StartRefused(r) \/ Snapshot(r)

\* wg.Wait has returned and the last handler is gone: the process exits.
Terminated ==
    /\ closed
    /\ InFlight = {}
    /\ ~BatchBusy
    /\ \A r \in Requests : req[r].kind = "none"
    /\ UNCHANGED vars

Next ==
    \/ \E r \in Requests : Handle(r)
    \/ \E t \in Tasks : Execute(t)
    \/ \E w \in Workers : Work(w)
    \/ BatchEnds
    \/ Edit \/ StopBatch \/ Close
    \/ Terminated

Spec == Init /\ [][Next]_vars

\* The goroutines of the service run: probes end within their 7 seconds, the
\* semaphore serves those who wait on it in turn (a Go channel is a queue), and
\* nothing is assumed of the users.
Fairness ==
    /\ \A t \in Tasks : WF_vars(Execute(t)) /\ SF_vars(TakeSlot(t))
    /\ \A w \in Workers : WF_vars(Work(w))
    /\ WF_vars(BatchEnds)

FairSpec == Spec /\ Fairness

-----------------------------------------------------------------------------
(***************************************************************************)
(* Properties                                                              *)
(***************************************************************************)
\* Every variable stays in its type.
TypeOK ==
    /\ cfg \in States
    /\ applied \in BOOLEAN
    /\ edits \in 0..MaxEdits
    /\ task \in [Tasks -> [pc : {"start", "probe", "done"},
                          node : Nodes, cfg : Contents, batch : 0..MaxBatches,
                          cancelled : BOOLEAN,
                          status : Finals \cup {"none", "open"}]]
    /\ current \in [Nodes -> 0..MaxTasks]
    /\ batch \in [id : 0..MaxBatches, total : 0..Cardinality(Nodes),
                  status : {"none", "running", "stopping", "stopped", "completed"},
                  stopped : BOOLEAN, completed : 0..Cardinality(Nodes)]
    /\ queue \subseteq [task : Tasks, owned : BOOLEAN]
    /\ worker \in [Workers -> [pc : {"off", "next", "wait"},
                              item : [task : 0..MaxTasks, owned : BOOLEAN]]]
    /\ closed \in BOOLEAN

\* "Requests in flight for the same node are shared" (README.md:152): no two
\* tasks of a node are at work uncancelled, although a poll may forget a task that
\* still runs and a handler may claim from an old state.
OneLiveTask ==
    \A s, t \in InFlight :
        s # t /\ task[s].node = task[t].node => task[s].cancelled \/ task[t].cancelled

\* "completed counts the targets dealt with" (API.md:78): every target of a batch
\* is queued, with a worker, or counted, exactly once, and a batch that has ended
\* has counted all of them - stopped or not, shared tasks included.
BatchAccounts ==
    /\ batch.completed + Cardinality(queue)
         + Cardinality({w \in Workers : worker[w].pc = "wait"}) = batch.total
    /\ batch.status \in {"stopped", "completed"} => batch.completed = batch.total

\* A handler uses what it has read of the node of t: that it is gone, or has another
\* content than t was started for.
Outdates(r, t) ==
    /\ req[r].kind # "none" /\ req'[r].kind = "none"
    /\ task[t].node \in DOMAIN req[r].state
    /\ \/ req[r].state[task[t].node] = Absent
       \/ req[r].state[task[t].node] # task[t].cfg

\* Stopping a batch spares the single checks it shares (README.md:152).  Such a check
\* ends as cancelled only if the service is closed or it was cancelled itself before;
\* only a handler that has read the node as gone or changed does that, not a stop, a
\* worker or the end of a batch; and where nothing was edited nobody does.
StopSparesSingles ==
    [][\A t \in Tasks : task[t].batch = 0 /\ ~Finished(t) =>
          /\ task'[t].pc = "done" /\ task'[t].status = "cancelled"
                => closed \/ task[t].cancelled
          /\ task'[t].pc # "done" /\ task'[t].cancelled /\ ~task[t].cancelled
                => edits > 0 /\ \E r \in Requests : Outdates(r, t)]_vars

\* A check that was accepted is at work on the content it was asked for: no
\* request to check a node again, made in the present state of the
\* configuration, is swallowed by an older task of that node.
RecheckIsServed ==
    [][\A r \in Requests :
          StartSingle(r) =>
             \A n \in DOMAIN req[r].state :
                req[r].state[n] = cfg[n] => LET t == current'[n]
                                            IN  /\ task'[t].cfg = cfg[n]
                                                /\ ~task'[t].cancelled]_vars

\* Everything that was started ends: a task, whatever it waits for - the probe, a
\* slot, the kernel, the batch that was to execute it - and a batch, also one that
\* shares tasks with single checks and one that is stopped in the middle.  So does
\* Close, which waits for both.
ChecksEnd ==
    /\ \A t \in Tasks : ~Finished(t) ~> Finished(t)
    /\ BatchBusy ~> ~BatchBusy
=============================================================================
