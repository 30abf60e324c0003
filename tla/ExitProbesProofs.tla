-------------------------- MODULE ExitProbesProofs ---------------------------
(***************************************************************************)
(* What ExitProbes promises, for any number of nodes, listeners, handlers, *)
(* runs and edits.  That runs exclude each other makes the selection of    *)
(* the probe group belong to one run: while a node is looked up, the group *)
(* has selected it or, after a publication, DIRECT.  What a run still has  *)
(* before it and what its batch has counted make up its targets at every   *)
(* step, less what a cancelled run has dropped.                            *)
(***************************************************************************)
EXTENDS ExitProbes, FiniteSetTheorems, TLAPS

\* Where a run has a target in hand.
InProbe == {"pace", "select", "lookup"}

\* The handlers hold what the sets of nodes and listeners have.
RequestsAreTyped ==
    \A r \in Requests :
       /\ req[r].kind \in {"none", "start", "poll"}
       /\ req[r].kind = "start" => /\ req[r].targets \in SUBSET Targets
                                   /\ req[r].port \in Ports \cup {NoExit}
       /\ req[r].kind = "poll" => req[r].gone \in SUBSET Targets

Typing == TypeOK /\ RequestsAreTyped /\ req = [r \in Requests |-> req[r]]

\* A goroutine at work has its batch open, and a target where it needs one.
AtWork ==
    \A k \in Runs :
       /\ run[k].pc # "off" => batch[k].status \in {"running", "stopping"}
       /\ run[k].pc \in InProbe => run[k].target \in Targets

\* The runs to come have nothing of an earlier one.
RunsAreFresh == \A k \in Runs : k > last => run[k] = IdleRun

\* While a run looks up a node, the probe group has selected it, or DIRECT again.
SelectionIsHeld ==
    \A k \in Runs : run[k].pc = "lookup" /\ run[k].target \in Nodes
                       => selected \in {run[k].target, Direct}

\* What a batch has counted and what its run has before it.
Sum(k) == batch[k].completed + Cardinality(run[k].targets) + Cardinality(InHand(k))

\* Nothing is counted twice, and only a cancelled run leaves something uncounted.
Accounts ==
    \A k \in Runs :
       /\ Sum(k) <= batch[k].total
       /\ ~Done(k) => Sum(k) = batch[k].total
       /\ batch[k].status = "completed" => batch[k].completed = batch[k].total

\* Run k has x before it, or was at it when it was stopped.
Has(k, x) == x \in run[k].targets \cup InHand(k) \/ (Done(k) /\ x = run[k].target)

\* Who is shown as waiting has such a run.
Awaited == \A x \in Targets : InFlight(x) => \E k \in Runs : Has(k, x)

Sound == /\ Typing /\ RunningIsHeld /\ AtWork /\ RunsAreFresh
         /\ SelectionIsHeld /\ NodesNotMixedUp /\ Accounts /\ Awaited

RunRecords == [pc : {"off", "next", "pace", "select", "lookup"},
               targets : SUBSET Targets, target : Targets \cup {NoExit},
               port : Ports \cup {NoExit}, cancelled : BOOLEAN]
BatchRecords == [status : {"none", "running", "stopping", "stopped", "completed"},
                 total : 0..Cardinality(Targets), completed : 0..Cardinality(Targets)]
ShownRecords ==
    [status : {"none", "queued", "running", "success", "failed", "cancelled"},
     via : Targets \cup {Direct, NoExit}]

-----------------------------------------------------------------------------
\* Lemmas about sets of targets.

LEMMA TargetsAreFinite ==
  /\ IsFiniteSet(Targets) /\ Cardinality(Targets) \in Nat
  /\ \A T \in SUBSET Targets :
        IsFiniteSet(T) /\ Cardinality(T) \in Nat /\ Cardinality(T) <= Cardinality(Targets)
<1>1. IsFiniteSet(Targets)
  BY ExitProbesAssumption, FS_Union DEF Targets
<1>2. ASSUME NEW T \in SUBSET Targets
      PROVE  /\ IsFiniteSet(T) /\ Cardinality(T) \in Nat
             /\ Cardinality(T) <= Cardinality(Targets)
  BY <1>1, FS_Subset, FS_CardinalityType
<1>3. QED
  BY <1>1, <1>2, FS_CardinalityType

\* A run has one target in hand, or none.
LEMMA HandSize ==
  ASSUME NEW k \in Runs
  PROVE  Cardinality(InHand(k)) = IF run[k].pc \in InProbe THEN 1 ELSE 0
BY FS_EmptySet, FS_Singleton DEF InHand, InProbe

LEMMA HandSizeAfter ==
  ASSUME NEW k \in Runs
  PROVE  Cardinality(InHand(k)') = IF run'[k].pc \in InProbe THEN 1 ELSE 0
BY FS_EmptySet, FS_Singleton DEF InHand, InProbe

-----------------------------------------------------------------------------
\* What the steps change.

\* A step of a run leaves the other runs, the handlers and the stored configuration as
\* they are.
LEMMA ProbeFrame ==
  ASSUME TypeOK, NEW k \in Runs, Probe(k)
  PROVE  /\ UNCHANGED <<saved, kernel, applied, edits, req, last, closed>>
         /\ run[k].pc # "off"
         /\ run'[k].cancelled = run[k].cancelled
         /\ run'[k].port = run[k].port \/ run'[k].port = NoExit
         /\ batch'[k].total = batch[k].total
         /\ \A j \in Runs \ {k} : run'[j] = run[j] /\ batch'[j] = batch[j]
<1>1. run \in [Runs -> RunRecords] /\ batch \in [Runs -> BatchRecords]
  BY DEF TypeOK, RunRecords, BatchRecords
<1>2. CASE NextTarget(k)
  BY <1>1, <1>2 DEF NextTarget, At, RunFrame, confVars, RunRecords
<1>3. CASE Paced(k) \/ PaceCancelled(k)
  BY <1>1, <1>3 DEF Paced, PaceCancelled, At, Goto, RunFrame, confVars, RunRecords
<1>4. CASE Select(k)
  BY <1>1, <1>4 DEF Select, At, Goto, RunFrame, RunRecords
<1>5. CASE SelectFails(k)
  BY <1>1, <1>5 DEF SelectFails, At, Record, RunFrame, RunRecords, BatchRecords
<1>6. CASE Lookup(k)
  <2>1. PICK status, via : Record(k, status, via)
    BY <1>6 DEF Lookup
  <2>2. run[k].pc = "lookup" /\ UNCHANGED <<confVars, running>> /\ RunFrame
    BY <1>6 DEF Lookup, At
  <2>3. QED
    BY <1>1, <2>1, <2>2 DEF Record, RunFrame, confVars, RunRecords, BatchRecords
<1>7. CASE Finish(k)
  BY <1>1, <1>7 DEF Finish, At, RunFrame, confVars, RunRecords, BatchRecords
<1>8. QED
  BY <1>2, <1>3, <1>4, <1>5, <1>6, <1>7 DEF Probe

\* Where a step of a run takes it, and what it has before it then.
LEMMA ProbeMoves ==
  ASSUME TypeOK, NEW k \in Runs, Probe(k)
  PROVE  \/ /\ NextTarget(k) /\ run[k].pc = "next" /\ run'[k].pc = "pace" /\ ~Done(k)
            /\ run'[k].target \in run[k].targets
            /\ run'[k].targets = run[k].targets \ {run'[k].target}
            /\ shown' = [shown EXCEPT ![run'[k].target] =
                            [status |-> "running", via |-> NoExit]]
            /\ UNCHANGED <<running, batch, selected>>
         \/ /\ Paced(k) /\ run[k].pc = "pace" /\ run'[k].pc \in {"select", "lookup"}
            /\ run'[k].pc = "lookup" => run[k].target \notin Nodes
            /\ run'[k].target = run[k].target /\ run'[k].targets = run[k].targets
            /\ UNCHANGED <<running, batch, shown, selected>>
         \/ /\ PaceCancelled(k) /\ run[k].pc = "pace" /\ run'[k].pc = "next" /\ Done(k)
            /\ run'[k].target = run[k].target /\ run'[k].targets = run[k].targets
            /\ UNCHANGED <<running, batch, shown, selected>>
         \/ /\ Select(k) /\ run[k].pc = "select" /\ run'[k].pc = "lookup"
            /\ run'[k].target = run[k].target /\ run'[k].targets = run[k].targets
            /\ selected' = run[k].target /\ selected' \in Active(kernel)
            /\ UNCHANGED <<running, batch, shown>>
         \/ \E status \in {"success", "failed", "cancelled"}, via \in Targets \cup {Direct, NoExit} :
            /\ run[k].pc \in {"select", "lookup"} /\ run'[k].pc = "next"
            /\ run'[k].targets = run[k].targets
            /\ batch' = [batch EXCEPT ![k].completed = @ + 1]
            /\ shown' = [shown EXCEPT ![run[k].target] = [status |-> status, via |-> via]]
            /\ status = "success" /\ run[k].target \in Nodes
                 => run[k].pc = "lookup" /\ via = selected
            /\ selected' \in {selected} \cup Active(kernel)
            /\ UNCHANGED running
         \/ /\ Finish(k) /\ run[k].pc = "next" /\ run'[k].pc = "off"
            /\ run'[k].target = run[k].target /\ run'[k].targets = run[k].targets
            /\ Done(k) \/ run[k].targets = {}
            /\ running' = FALSE
            /\ batch'[k].completed = batch[k].completed
            /\ batch'[k].status = IF batch[k].status # "running" THEN batch[k].status
                                  ELSE IF Done(k) THEN "stopped" ELSE "completed"
            /\ UNCHANGED <<shown, selected>>
<1>1. run \in [Runs -> RunRecords] /\ batch \in [Runs -> BatchRecords]
  BY DEF TypeOK, RunRecords, BatchRecords
<1>2. CASE NextTarget(k)
  <2>1. PICK x \in run[k].targets :
           /\ run' = [run EXCEPT ![k].pc = "pace", ![k].target = x, ![k].targets = @ \ {x}]
           /\ shown' = [shown EXCEPT ![x] = [status |-> "running", via |-> NoExit]]
    BY <1>2 DEF NextTarget
  <2>2. /\ run'[k].pc = "pace" /\ run'[k].target = x
        /\ run'[k].targets = run[k].targets \ {x}
    BY <1>1, <2>1 DEF RunRecords
  <2>3. run[k].pc = "next" /\ ~Done(k) /\ UNCHANGED <<running, batch, selected>>
    BY <1>2 DEF NextTarget, At, confVars
  <2>4. QED
    BY <1>2, <2>1, <2>2, <2>3
<1>3. CASE Paced(k)
  BY <1>1, <1>3 DEF Paced, At, Goto, confVars, RunRecords
<1>4. CASE PaceCancelled(k)
  BY <1>1, <1>4 DEF PaceCancelled, At, Goto, confVars, RunRecords
<1>5. CASE Select(k)
  BY <1>1, <1>5 DEF Select, At, Goto, RunRecords
<1>6. CASE SelectFails(k)
  <2>1. /\ Record(k, "failed", NoExit) /\ run[k].pc = "select"
        /\ selected' \in {selected} \cup Active(kernel) /\ UNCHANGED running
    BY <1>6 DEF SelectFails, At
  <2>2. /\ run'[k].pc = "next"
        /\ run'[k].targets = run[k].targets
        /\ batch' = [batch EXCEPT ![k].completed = @ + 1]
        /\ shown' = [shown EXCEPT ![run[k].target] = [status |-> "failed", via |-> NoExit]]
    BY <1>1, <2>1 DEF Record, RunRecords
  <2>3. "failed" \in {"success", "failed", "cancelled"} /\ "failed" # "success"
        /\ NoExit \in Targets \cup {Direct, NoExit}
    OBVIOUS
  <2>4. QED
    BY <2>1, <2>2, <2>3
<1>7. CASE Lookup(k)
  <2>1. PICK status \in {"success", "failed", "cancelled"}, via \in Targets \cup {Direct, NoExit} :
           /\ Record(k, status, via)
           /\ status = "success" /\ run[k].target \in Nodes => via = selected
    <3>1. CASE \E exit \in Exits(k) : Record(k, "success", exit)
      <4>1. PICK exit \in Exits(k) : Record(k, "success", exit)
        BY <3>1
      <4>2. exit \in Targets \cup {Direct, NoExit}
        <5>1. CASE run[k].target \in Nodes
          BY <5>1 DEF Exits, TypeOK, Active, Targets
        <5>2. CASE run[k].target \notin Nodes
          BY <5>2 DEF Exits, Targets
        <5>3. QED
          BY <5>1, <5>2
      <4>3. run[k].target \in Nodes => exit = selected
        BY DEF Exits
      <4>4. QED
        BY <4>1, <4>2, <4>3
    <3>2. CASE Record(k, "failed", NoExit)
      BY <3>2
    <3>3. CASE Record(k, "cancelled", NoExit)
      BY <3>3
    <3>4. QED
      BY <1>7, <3>1, <3>2, <3>3 DEF Lookup
  <2>2. run[k].pc = "lookup" /\ UNCHANGED <<selected, running>>
    BY <1>7 DEF Lookup, At, confVars
  <2>3. /\ run'[k].pc = "next"
        /\ run'[k].targets = run[k].targets
        /\ batch' = [batch EXCEPT ![k].completed = @ + 1]
        /\ shown' = [shown EXCEPT ![run[k].target] = [status |-> status, via |-> via]]
    BY <1>1, <2>1 DEF Record, RunRecords
  <2>4. QED
    BY <2>1, <2>2, <2>3
<1>8. CASE Finish(k)
  <2>1. run[k].pc = "next" /\ running' = FALSE /\ UNCHANGED <<shown, selected>>
        /\ (Done(k) \/ run[k].targets = {})
    BY <1>8 DEF Finish, At, confVars
  <2>2. /\ run'[k].pc = "off" /\ run'[k].target = run[k].target
        /\ run'[k].targets = run[k].targets
    BY <1>1, <1>8 DEF Finish, RunRecords
  <2>3. /\ batch'[k].completed = batch[k].completed
        /\ batch'[k].status = IF batch[k].status # "running" THEN batch[k].status
                              ELSE IF Done(k) THEN "stopped" ELSE "completed"
    BY <1>1, <1>8 DEF Finish, BatchRecords
  <2>4. QED
    BY <1>8, <2>1, <2>2, <2>3
<1>9. QED
  BY <1>2, <1>3, <1>4, <1>5, <1>6, <1>7, <1>8 DEF Probe

\* The steps other than those of runs.
Outside ==
    \/ Edit \/ Apply \/ ReloadSame \/ Close
    \/ \E r \in Requests :
          PrepareNodes(r) \/ PrepareListener(r) \/ PreparePoll(r) \/ StartRefused(r)

\* Of what the runs and the page have, they change nothing.  Where the kernel loads a
\* configuration it selects DIRECT.
LEMMA OutsideFrame ==
  ASSUME Outside
  PROVE  /\ UNCHANGED <<running, run, last, batch, shown>>
         /\ selected' = selected \/ selected' = Direct
         /\ closed => closed'
<1>1. CASE Edit \/ Apply \/ ReloadSame
  BY <1>1 DEF Edit, Apply, ReloadSame, LoadInto, probeVars
<1>2. CASE Close
  BY <1>2 DEF Close, confVars, probeVars
<1>3. ASSUME NEW r \in Requests,
             PrepareNodes(r) \/ PrepareListener(r) \/ PreparePoll(r) \/ StartRefused(r)
      PROVE  UNCHANGED <<confVars, probeVars, closed>>
  BY <1>3 DEF PrepareNodes, PrepareListener, PreparePoll, StartRefused, Begin
<1>4. QED
  BY <1>1, <1>2, <1>3 DEF Outside, confVars, probeVars

\* Every step, by what it does to the runs.
LEMMA StepCases ==
  ASSUME [Next]_vars
  PROVE  \/ Outside \/ Stop \/ UNCHANGED vars
         \/ \E r \in Requests : Start(r) \/ Snapshot(r)
         \/ \E k \in Runs : Probe(k)
BY DEF Next, Handle, Outside

-----------------------------------------------------------------------------
\* Runs exclude each other.

LEMMA OneRunStep == Typing /\ RunningIsHeld /\ [Next]_vars => RunningIsHeld'
<1> SUFFICES ASSUME Typing, RunningIsHeld, [Next]_vars
             PROVE  RunningIsHeld'
  OBVIOUS
<1>1. run \in [Runs -> RunRecords] /\ TypeOK
  BY DEF Typing, TypeOK, RunRecords
<1>2. CASE Outside \/ UNCHANGED vars
  <2>1. UNCHANGED <<running, run>>
    BY <1>2, OutsideFrame DEF vars, probeVars
  <2>2. QED
    BY <2>1 DEF RunningIsHeld
<1>3. CASE Stop
  <2>1. running' = running /\ \A k \in Runs : run'[k].pc = run[k].pc
    BY <1>1, <1>3 DEF Stop, RunRecords
  <2>2. QED
    BY <2>1 DEF RunningIsHeld
<1>4. ASSUME NEW r \in Requests, Start(r) PROVE RunningIsHeld'
  <2>1. last' \in Runs /\ running' = TRUE /\ ~running
    BY <1>4, <1>1, ExitProbesAssumption DEF Start, TypeOK, Runs
  <2>2. /\ \A k \in Runs \ {last'} : run'[k] = run[k]
        /\ run'[last'].pc = "next"
    BY <1>1, <1>4, <2>1 DEF Start, IdleRun
  <2>3. \A k \in Runs : run[k].pc = "off"
    BY <2>1 DEF RunningIsHeld
  <2>4. QED
    BY <2>1, <2>2, <2>3 DEF RunningIsHeld
<1>5. ASSUME NEW r \in Requests, Snapshot(r) PROVE RunningIsHeld'
  BY <1>5 DEF Snapshot, RunningIsHeld
<1>6. ASSUME NEW k \in Runs, Probe(k) PROVE RunningIsHeld'
  <2>1. run[k].pc # "off" /\ \A j \in Runs \ {k} : run'[j] = run[j]
    BY <1>1, <1>6, ProbeFrame
  <2>2. running /\ \A j \in Runs \ {k} : run[j].pc = "off"
    BY <2>1 DEF RunningIsHeld
  <2>3. \/ run'[k].pc # "off" /\ running' = running
        \/ run'[k].pc = "off" /\ running' = FALSE
    BY <1>1, <1>6, ProbeMoves
  <2>4. QED
    BY <2>1, <2>2, <2>3 DEF RunningIsHeld
<1>7. QED
  BY <1>2, <1>3, <1>4, <1>5, <1>6, StepCases

\* No other run is at work beside one that is.
LEMMA OthersAreOff ==
  ASSUME RunningIsHeld, NEW k \in Runs, run[k].pc # "off"
  PROVE  \A j \in Runs \ {k} : run[j].pc = "off"
BY DEF RunningIsHeld

-----------------------------------------------------------------------------
\* Runs at work and runs to come.

LEMMA AtWorkStep == Typing /\ AtWork /\ [Next]_vars => AtWork'
<1> SUFFICES ASSUME Typing, AtWork, [Next]_vars
             PROVE  AtWork'
  OBVIOUS
<1>1. /\ run \in [Runs -> RunRecords] /\ batch \in [Runs -> BatchRecords] /\ TypeOK
      /\ last \in 0..MaxRuns
  BY DEF Typing, TypeOK, RunRecords, BatchRecords
<1>2. CASE Outside \/ UNCHANGED vars
  <2>1. UNCHANGED <<batch, run>>
    BY <1>2, OutsideFrame DEF vars, probeVars
  <2>2. QED
    BY <2>1 DEF AtWork
<1>3. CASE Stop
  <2>1. /\ \A k \in Runs : run'[k].pc = run[k].pc /\ run'[k].target = run[k].target
        /\ \A k \in Runs : batch'[k].status \in {batch[k].status, "stopping"}
    BY <1>1, <1>3 DEF Stop, RunRecords, BatchRecords
  <2>2. QED
    BY <2>1 DEF AtWork
<1>4. ASSUME NEW r \in Requests, Start(r) PROVE AtWork'
  <2>1. last' \in Runs
    BY <1>4, <1>1, ExitProbesAssumption DEF Start, Runs
  <2>2. /\ \A k \in Runs \ {last'} : run'[k] = run[k] /\ batch'[k] = batch[k]
        /\ run'[last'].pc = "next" /\ batch'[last'].status = "running"
    BY <1>1, <1>4, <2>1 DEF Start, IdleRun
  <2>3. QED
    BY <2>1, <2>2 DEF AtWork, InProbe
<1>5. ASSUME NEW r \in Requests, Snapshot(r) PROVE AtWork'
  BY <1>5 DEF Snapshot, AtWork
<1>6. ASSUME NEW k \in Runs, Probe(k) PROVE AtWork'
  <2>1. /\ run[k].pc # "off"
        /\ \A j \in Runs \ {k} : run'[j] = run[j] /\ batch'[j] = batch[j]
    BY <1>1, <1>6, ProbeFrame
  <2>2. batch[k].status \in {"running", "stopping"} /\ run[k].targets \in SUBSET Targets
    BY <1>1, <2>1 DEF AtWork, RunRecords
  <2>3. run'[k].pc # "off" => batch'[k].status = batch[k].status
    <3>1. UNCHANGED batch \/ batch' = [batch EXCEPT ![k].completed = @ + 1] \/ run'[k].pc = "off"
      BY <1>1, <1>6, ProbeMoves
    <3>2. QED
      BY <1>1, <3>1 DEF BatchRecords
  <2>4. run'[k].pc \in InProbe => run'[k].target \in Targets
    BY <1>1, <1>6, <2>2, ProbeMoves DEF InProbe, AtWork
  <2>5. QED
    BY <2>1, <2>2, <2>3, <2>4 DEF AtWork
<1>7. QED
  BY <1>2, <1>3, <1>4, <1>5, <1>6, StepCases

LEMMA FreshStep ==
  Typing /\ RunsAreFresh /\ [Next]_vars => RunsAreFresh'
<1> SUFFICES ASSUME Typing, RunsAreFresh, [Next]_vars
             PROVE  RunsAreFresh'
  OBVIOUS
<1>1. /\ run \in [Runs -> RunRecords] /\ TypeOK /\ last \in 0..MaxRuns
  BY DEF Typing, TypeOK, RunRecords
<1>2. CASE Outside \/ UNCHANGED vars
  <2>1. UNCHANGED <<last, run>>
    BY <1>2, OutsideFrame DEF vars, probeVars
  <2>2. QED
    BY <2>1 DEF RunsAreFresh
<1>3. CASE Stop
  <2>1. last' = last /\ \A k \in Runs : k > last => run'[k] = run[k]
    BY <1>1, <1>3 DEF Stop, Runs
  <2>2. QED
    BY <2>1 DEF RunsAreFresh
<1>4. ASSUME NEW r \in Requests, Start(r) PROVE RunsAreFresh'
  <2>1. last' = last + 1 /\ \A k \in Runs \ {last'} : run'[k] = run[k]
    BY <1>1, <1>4 DEF Start
  <2>2. \A k \in Runs : k > last' => k # last' /\ k > last
    BY <1>1, <2>1, ExitProbesAssumption DEF Runs
  <2>3. QED
    BY <2>1, <2>2 DEF RunsAreFresh
<1>5. ASSUME NEW r \in Requests, Snapshot(r) PROVE RunsAreFresh'
  BY <1>5 DEF Snapshot, RunsAreFresh
<1>6. ASSUME NEW k \in Runs, Probe(k) PROVE RunsAreFresh'
  <2>1. /\ run[k].pc # "off" /\ last' = last
        /\ \A j \in Runs \ {k} : run'[j] = run[j]
    BY <1>1, <1>6, ProbeFrame
  <2>2. ~(k > last)
    BY <2>1 DEF RunsAreFresh, IdleRun
  <2>3. QED
    BY <2>1, <2>2 DEF RunsAreFresh
<1>7. QED
  BY <1>2, <1>3, <1>4, <1>5, <1>6, StepCases

-----------------------------------------------------------------------------
\* The selection of the probe group.

LEMMA SelectionStep ==
  Typing /\ RunningIsHeld /\ AtWork /\ SelectionIsHeld /\ [Next]_vars => SelectionIsHeld'
<1> SUFFICES ASSUME Typing, RunningIsHeld, AtWork, SelectionIsHeld, [Next]_vars
             PROVE  SelectionIsHeld'
  OBVIOUS
<1>1. run \in [Runs -> RunRecords] /\ TypeOK
  BY DEF Typing, TypeOK, RunRecords
<1>2. CASE Outside
  <2>1. UNCHANGED run /\ (selected' = selected \/ selected' = Direct)
    BY <1>2, OutsideFrame
  <2>2. QED
    BY <2>1 DEF SelectionIsHeld
<1>3. CASE Stop
  <2>1. /\ selected' = selected
        /\ \A k \in Runs : run'[k].pc = run[k].pc /\ run'[k].target = run[k].target
    BY <1>1, <1>3 DEF Stop, RunRecords, confVars
  <2>2. QED
    BY <2>1 DEF SelectionIsHeld
<1>4. ASSUME NEW r \in Requests, Start(r) PROVE SelectionIsHeld'
  <2>1. /\ selected' = selected /\ last' \in Runs
        /\ \A k \in Runs \ {last'} : run'[k] = run[k]
    BY <1>1, <1>4, ExitProbesAssumption DEF Start, confVars, TypeOK, Runs
  <2>2. run'[last'].pc = "next"
    BY <1>1, <1>4, <2>1 DEF Start, IdleRun
  <2>3. QED
    BY <2>1, <2>2 DEF SelectionIsHeld
<1>5. CASE UNCHANGED vars \/ \E r \in Requests : Snapshot(r)
  BY <1>5 DEF Snapshot, SelectionIsHeld, vars, confVars, probeVars
<1>6. ASSUME NEW k \in Runs, Probe(k) PROVE SelectionIsHeld'
  <2>1. /\ run[k].pc # "off"
        /\ \A j \in Runs \ {k} : run'[j] = run[j] /\ run[j].pc = "off"
    BY <1>1, <1>6, ProbeFrame, OthersAreOff
  <2>2. run'[k].pc = "lookup" /\ run'[k].target \in Nodes => selected' = run'[k].target
    BY <1>1, <1>6, ProbeMoves
  <2>3. QED
    BY <2>1, <2>2 DEF SelectionIsHeld
<1>7. QED
  BY <1>2, <1>3, <1>4, <1>5, <1>6, StepCases

LEMMA NotMixedStep ==
  Typing /\ AtWork /\ SelectionIsHeld /\ NodesNotMixedUp /\ [Next]_vars => NodesNotMixedUp'
<1> SUFFICES ASSUME Typing, AtWork, SelectionIsHeld, NodesNotMixedUp, [Next]_vars
             PROVE  NodesNotMixedUp'
  OBVIOUS
<1>1. shown \in [Targets -> ShownRecords] /\ TypeOK /\ Nodes \subseteq Targets
  BY DEF Typing, TypeOK, ShownRecords, Targets
<1>2. CASE Outside \/ Stop \/ UNCHANGED vars
  <2>1. UNCHANGED shown
    BY <1>2, OutsideFrame DEF Stop, vars, probeVars
  <2>2. QED
    BY <2>1 DEF NodesNotMixedUp
<1>3. ASSUME NEW r \in Requests, Start(r) \/ Snapshot(r) PROVE NodesNotMixedUp'
  <2>1. \A x \in Targets : shown'[x] = shown[x] \/ shown'[x].status # "success"
    BY <1>3 DEF Start, Snapshot, Unknown
  <2>2. QED
    BY <1>1, <2>1 DEF NodesNotMixedUp
<1>4. ASSUME NEW k \in Runs, Probe(k) PROVE NodesNotMixedUp'
  <2>1. CASE UNCHANGED shown
    BY <2>1 DEF NodesNotMixedUp
  <2>2. CASE shown' = [shown EXCEPT ![run'[k].target] = [status |-> "running", via |-> NoExit]]
    <3>1. \A x \in Targets : shown'[x] = shown[x] \/ shown'[x].status # "success"
      BY <1>1, <2>2
    <3>2. QED
      BY <1>1, <3>1 DEF NodesNotMixedUp
  <2>3. CASE \E status \in {"success", "failed", "cancelled"}, via \in Targets \cup {Direct, NoExit} :
                /\ run[k].pc \in {"select", "lookup"}
                /\ shown' = [shown EXCEPT ![run[k].target] = [status |-> status, via |-> via]]
                /\ status = "success" /\ run[k].target \in Nodes
                     => run[k].pc = "lookup" /\ via = selected
    <3>1. PICK status \in {"success", "failed", "cancelled"}, via \in Targets \cup {Direct, NoExit} :
             /\ shown' = [shown EXCEPT ![run[k].target] = [status |-> status, via |-> via]]
             /\ status = "success" /\ run[k].target \in Nodes
                  => run[k].pc = "lookup" /\ via = selected
      BY <2>3
    <3>2. ASSUME NEW n \in Nodes, shown'[n].status = "success"
          PROVE  shown'[n].via \in {n, Direct}
      <4>1. CASE n = run[k].target
        <5>1. shown'[n] = [status |-> status, via |-> via]
          BY <1>1, <3>1, <4>1
        <5>2. run[k].pc = "lookup" /\ via = selected
          BY <3>1, <3>2, <4>1, <5>1
        <5>3. selected \in {n, Direct}
          BY <4>1, <5>2 DEF SelectionIsHeld
        <5>4. QED
          BY <5>1, <5>2, <5>3
      <4>2. CASE n # run[k].target
        <5>1. shown'[n] = shown[n]
          BY <1>1, <3>1, <4>2
        <5>2. QED
          BY <3>2, <5>1 DEF NodesNotMixedUp
      <4>3. QED
        BY <4>1, <4>2
    <3>3. QED
      BY <3>2 DEF NodesNotMixedUp
  <2>4. QED
    BY <1>1, <1>4, <2>1, <2>2, <2>3, ProbeMoves
<1>5. QED
  BY <1>2, <1>3, <1>4, StepCases

-----------------------------------------------------------------------------
\* The accounts of a batch.

LEMMA SumParts ==
  ASSUME TypeOK, NEW k \in Runs
  PROVE  /\ batch[k].completed \in Nat /\ batch[k].total \in Nat
         /\ IsFiniteSet(run[k].targets) /\ Cardinality(run[k].targets) \in Nat
         /\ Sum(k) = batch[k].completed + Cardinality(run[k].targets)
                       + (IF run[k].pc \in InProbe THEN 1 ELSE 0)
<1>1. /\ batch[k].completed \in 0..Cardinality(Targets)
      /\ batch[k].total \in 0..Cardinality(Targets)
      /\ run[k].targets \in SUBSET Targets
  BY DEF TypeOK
<1>2. QED
  BY <1>1, TargetsAreFinite, HandSize DEF Sum

LEMMA SumAfter ==
  ASSUME NEW k \in Runs
  PROVE  Sum(k)' = batch'[k].completed + Cardinality(run'[k].targets)
                     + (IF run'[k].pc \in InProbe THEN 1 ELSE 0)
BY HandSizeAfter DEF Sum

\* No step of a run loses a target, but for the one a cancelled run gives up while it
\* waits.
LEMMA ProbeAccounts ==
  ASSUME TypeOK, NEW k \in Runs, Probe(k)
  PROVE  Sum(k)' <= Sum(k) /\ (~Done(k) => Sum(k)' = Sum(k))
<1> DEFINE Hand(pc) == IF pc \in InProbe THEN 1 ELSE 0
<1>1. /\ run \in [Runs -> RunRecords] /\ batch \in [Runs -> BatchRecords]
      /\ batch[k].completed \in Nat /\ IsFiniteSet(run[k].targets)
      /\ Cardinality(run[k].targets) \in Nat
  BY SumParts DEF TypeOK, RunRecords, BatchRecords
<1>2. Sum(k) = batch[k].completed + Cardinality(run[k].targets) + Hand(run[k].pc)
  BY SumParts
<1>3. Sum(k)' = batch'[k].completed + Cardinality(run'[k].targets) + Hand(run'[k].pc)
  BY SumAfter
<1>4. /\ Hand("next") = 0 /\ Hand("off") = 0
      /\ Hand("pace") = 1 /\ Hand("select") = 1 /\ Hand("lookup") = 1
  BY DEF InProbe
<1> HIDE DEF Hand
<1>5. CASE /\ run[k].pc = "next" /\ run'[k].pc = "pace"
           /\ run'[k].target \in run[k].targets
           /\ run'[k].targets = run[k].targets \ {run'[k].target}
           /\ UNCHANGED batch
  <2>1. Cardinality(run'[k].targets) = Cardinality(run[k].targets) - 1
    <3>1. \A T, x : IsFiniteSet(T) /\ x \in T => Cardinality(T \ {x}) = Cardinality(T) - 1
      BY FS_RemoveElement
    <3>2. QED
      BY <1>1, <1>5, <3>1
  <2>2. QED
    BY <1>1, <1>2, <1>3, <1>4, <1>5, <2>1
<1>6. CASE /\ run[k].pc \in InProbe /\ run'[k].pc \in InProbe
           /\ run'[k].targets = run[k].targets /\ UNCHANGED batch
  BY <1>1, <1>2, <1>3, <1>4, <1>6 DEF InProbe
<1>7. CASE /\ run[k].pc = "pace" /\ run'[k].pc = "next" /\ Done(k)
           /\ run'[k].targets = run[k].targets /\ UNCHANGED batch
  BY <1>1, <1>2, <1>3, <1>4, <1>7
<1>8. CASE /\ run[k].pc \in {"select", "lookup"} /\ run'[k].pc = "next"
           /\ run'[k].targets = run[k].targets
           /\ batch' = [batch EXCEPT ![k].completed = @ + 1]
  <2>1. batch'[k].completed = batch[k].completed + 1
    BY <1>1, <1>8 DEF BatchRecords
  <2>2. QED
    BY <1>1, <1>2, <1>3, <1>4, <1>8, <2>1
<1>9. CASE /\ run[k].pc = "next" /\ run'[k].pc = "off" /\ run'[k].targets = run[k].targets
           /\ batch'[k].completed = batch[k].completed
  BY <1>1, <1>2, <1>3, <1>4, <1>9
<1>10. QED
  BY <1>5, <1>6, <1>7, <1>8, <1>9, ProbeMoves DEF InProbe

LEMMA AccountsStep == Typing /\ AtWork /\ Accounts /\ [Next]_vars => Accounts'
<1> SUFFICES ASSUME Typing, AtWork, Accounts, [Next]_vars
             PROVE  Accounts'
  OBVIOUS
<1>1. /\ run \in [Runs -> RunRecords] /\ batch \in [Runs -> BatchRecords] /\ TypeOK
      /\ last \in 0..MaxRuns
  BY DEF Typing, TypeOK, RunRecords, BatchRecords
<1>2. ASSUME NEW k \in Runs,
             run'[k].pc = run[k].pc, run'[k].targets = run[k].targets,
             batch'[k].completed = batch[k].completed, batch'[k].total = batch[k].total,
             batch'[k].status = "completed" => batch[k].status = "completed",
             Done(k) => Done(k)'
      PROVE  /\ Sum(k)' <= batch'[k].total
             /\ ~Done(k)' => Sum(k)' = batch'[k].total
             /\ batch'[k].status = "completed" => batch'[k].completed = batch'[k].total
  <2>1. Sum(k)' = Sum(k)
    BY <1>1, <1>2, SumParts, SumAfter
  <2>2. QED
    BY <1>2, <2>1 DEF Accounts
<1>3. CASE Outside \/ UNCHANGED vars \/ \E r \in Requests : Snapshot(r)
  <2>1. UNCHANGED <<batch, run>> /\ (closed => closed')
    BY <1>3, OutsideFrame DEF Snapshot, vars, probeVars
  <2>2. \A k \in Runs : Done(k) => Done(k)'
    BY <2>1 DEF Done
  <2>3. QED
    BY <1>2, <2>1, <2>2 DEF Accounts
<1>4. CASE Stop
  <2>1. closed' = closed /\ last \in Runs
    BY <1>1, <1>4, ExitProbesAssumption DEF Stop, Runs
  <2>2. ASSUME NEW k \in Runs
        PROVE  /\ run'[k].pc = run[k].pc /\ run'[k].targets = run[k].targets
               /\ run[k].cancelled => run'[k].cancelled
               /\ batch'[k].completed = batch[k].completed
               /\ batch'[k].total = batch[k].total
               /\ batch'[k].status \in {batch[k].status, "stopping"}
    BY <1>1, <1>4 DEF Stop, RunRecords, BatchRecords
  <2>3. \A k \in Runs : Done(k) => Done(k)'
    BY <2>1, <2>2 DEF Done
  <2>4. QED
    BY <1>2, <2>2, <2>3 DEF Accounts
<1>5. ASSUME NEW r \in Requests, Start(r) PROVE Accounts'
  <2>1. last' \in Runs /\ closed' = closed
    BY <1>1, <1>5, ExitProbesAssumption DEF Start, Runs
  <2>2. /\ \A k \in Runs \ {last'} : run'[k] = run[k] /\ batch'[k] = batch[k]
        /\ run'[last'] = [IdleRun EXCEPT !.pc = "next", !.targets = req[r].targets,
                                         !.port = req[r].port]
        /\ batch'[last'] = [status |-> "running", completed |-> 0,
                            total |-> Cardinality(req[r].targets)]
    BY <1>1, <1>5, <2>1 DEF Start
  <2>3. ASSUME NEW k \in Runs, k # last'
        PROVE  /\ Sum(k)' <= batch'[k].total
               /\ ~Done(k)' => Sum(k)' = batch'[k].total
               /\ batch'[k].status = "completed" => batch'[k].completed = batch'[k].total
    <3>1. run'[k] = run[k] /\ batch'[k] = batch[k]
      BY <2>2, <2>3
    <3>2. Done(k) => Done(k)'
      BY <2>1, <3>1 DEF Done
    <3>3. QED
      BY <1>2, <3>1, <3>2
  <2>4. req[r].targets \in SUBSET Targets
    BY <1>5 DEF Start, Typing, RequestsAreTyped
  <2>5. Cardinality(req[r].targets) \in Nat
    BY <2>4, TargetsAreFinite
  <2>6. /\ run'[last'].pc = "next" /\ run'[last'].targets = req[r].targets
        /\ batch'[last'].completed = 0 /\ batch'[last'].status = "running"
        /\ batch'[last'].total = Cardinality(req[r].targets)
    BY <2>2 DEF IdleRun
  <2>8. ASSUME NEW k \in Runs, k = last'
        PROVE  /\ Sum(k)' = batch'[k].total
               /\ batch'[k].status # "completed"
    <3>1. Sum(k)' = batch'[k].completed + Cardinality(run'[k].targets)
                     + (IF run'[k].pc \in InProbe THEN 1 ELSE 0)
      BY SumAfter
    <3>2. QED
      BY <2>5, <2>6, <2>8, <3>1 DEF InProbe
  <2>9. ASSUME NEW k \in Runs, k = last'
        PROVE  Sum(k)' <= batch'[k].total
    BY <2>5, <2>6, <2>8, <2>9
  <2>10. QED
    BY <2>3, <2>8, <2>9 DEF Accounts
<1>6. ASSUME NEW k \in Runs, Probe(k) PROVE Accounts'
  <2>1. /\ run[k].pc # "off" /\ closed' = closed /\ run'[k].cancelled = run[k].cancelled
        /\ batch'[k].total = batch[k].total
        /\ \A j \in Runs \ {k} : run'[j] = run[j] /\ batch'[j] = batch[j]
    BY <1>1, <1>6, ProbeFrame
  <2>2. \A j \in Runs : Done(j)' <=> Done(j)
    BY <2>1 DEF Done
  <2>3. ASSUME NEW j \in Runs, j # k
        PROVE  /\ Sum(j)' <= batch'[j].total
               /\ ~Done(j)' => Sum(j)' = batch'[j].total
               /\ batch'[j].status = "completed" => batch'[j].completed = batch'[j].total
    <3>1. run'[j] = run[j] /\ batch'[j] = batch[j]
      BY <2>1, <2>3
    <3>2. QED
      BY <1>2, <2>2, <3>1
  <2>4. /\ Sum(k)' \in Int /\ Sum(k) \in Int
        /\ Sum(k)' <= Sum(k) /\ (~Done(k) => Sum(k)' = Sum(k))
    <3>1. Sum(k) \in Int
      BY <1>1, SumParts
    <3>2. Sum(k)' \in Int
      <4>1. /\ run[k].targets \in SUBSET Targets /\ batch[k].completed \in Nat
        BY <1>1, SumParts DEF RunRecords
      <4>2. run'[k].targets \in SUBSET Targets
        BY <1>1, <1>6, <4>1, ProbeMoves
      <4>3. \/ batch'[k].completed = batch[k].completed
            \/ batch' = [batch EXCEPT ![k].completed = @ + 1]
        BY <1>1, <1>6, ProbeMoves
      <4>4. batch'[k].completed \in Nat
        BY <1>1, <4>1, <4>3 DEF BatchRecords
      <4>5. QED
        BY <4>2, <4>4, TargetsAreFinite, SumAfter
    <3>3. QED
      BY <1>1, <1>6, <3>1, <3>2, ProbeAccounts
  <2>5. batch[k].total \in Nat /\ batch[k].completed \in Nat
    BY <1>1, SumParts
  <2>6. /\ Sum(k)' <= batch'[k].total
        /\ ~Done(k)' => Sum(k)' = batch'[k].total
    BY <2>1, <2>2, <2>4, <2>5 DEF Accounts
  <2>7. batch'[k].status = "completed" => batch'[k].completed = batch'[k].total
    <3>1. batch[k].status \in {"running", "stopping"}
      BY <2>1 DEF AtWork
    <3>2. CASE batch'[k].status = batch[k].status
      BY <3>1, <3>2
    <3>3. CASE batch'[k].status # batch[k].status
      <4>1. UNCHANGED batch \/ batch' = [batch EXCEPT ![k].completed = @ + 1]
            => batch'[k].status = batch[k].status
        BY <1>1 DEF BatchRecords
      <4>2. /\ run[k].pc = "next" /\ run'[k].pc = "off"
            /\ run'[k].targets = run[k].targets /\ (Done(k) \/ run[k].targets = {})
            /\ batch'[k].completed = batch[k].completed
            /\ batch'[k].status = IF batch[k].status # "running" THEN batch[k].status
                                  ELSE IF Done(k) THEN "stopped" ELSE "completed"
        BY <1>1, <1>6, <3>3, <4>1, ProbeMoves
      <4>3. CASE ~Done(k)
        <5>1. Sum(k)' = batch'[k].completed
          <6>1. Sum(k)' = batch'[k].completed + Cardinality(run'[k].targets)
                            + (IF run'[k].pc \in InProbe THEN 1 ELSE 0)
            BY SumAfter
          <6>2. Cardinality({}) = 0
            BY FS_EmptySet
          <6>3. QED
            BY <2>5, <4>2, <4>3, <6>1, <6>2 DEF InProbe
        <5>2. QED
          BY <2>2, <2>6, <4>3, <5>1
      <4>4. CASE Done(k)
        BY <3>1, <4>2, <4>4
      <4>5. QED
        BY <4>3, <4>4
    <3>4. QED
      BY <3>2, <3>3
  <2>8. QED
    BY <2>3, <2>6, <2>7 DEF Accounts
<1>7. QED
  BY <1>3, <1>4, <1>5, <1>6, StepCases

-----------------------------------------------------------------------------
\* Who waits for a run.

LEMMA AwaitedStep == Typing /\ RunsAreFresh /\ Awaited /\ [Next]_vars => Awaited'
<1> SUFFICES ASSUME Typing, RunsAreFresh, Awaited, [Next]_vars
             PROVE  Awaited'
  OBVIOUS
<1>1. /\ run \in [Runs -> RunRecords] /\ shown \in [Targets -> ShownRecords] /\ TypeOK
      /\ last \in 0..MaxRuns
  BY DEF Typing, TypeOK, RunRecords, ShownRecords
<1>2. ASSUME NEW k \in Runs, run'[k].pc = run[k].pc, run'[k].target = run[k].target
      PROVE  InHand(k)' = InHand(k)
  BY <1>2 DEF InHand
<1>3. CASE Outside \/ UNCHANGED vars \/ \E r \in Requests : Snapshot(r)
  <2>1. UNCHANGED run /\ (closed => closed')
    BY <1>3, OutsideFrame DEF Snapshot, vars, probeVars
  <2>2. \A x \in Targets : InFlight(x)' => InFlight(x)
    BY <1>3, OutsideFrame DEF Snapshot, Unknown, InFlight, vars, probeVars
  <2>3. \A k \in Runs, x \in Targets : Has(k, x) => Has(k, x)'
    BY <2>1 DEF Done, InHand, Has
  <2>4. QED
    BY <2>2, <2>3 DEF Awaited
<1>4. CASE Stop
  <2>1. /\ UNCHANGED <<shown, closed>>
        /\ \A k \in Runs : /\ run'[k].pc = run[k].pc /\ run'[k].target = run[k].target
                           /\ run'[k].targets = run[k].targets
                           /\ run[k].cancelled => run'[k].cancelled
    BY <1>1, <1>4 DEF Stop, RunRecords
  <2>2. \A k \in Runs : (Done(k) => Done(k)') /\ InHand(k)' = InHand(k)
    BY <1>2, <2>1 DEF Done
  <2>3. \A x \in Targets : InFlight(x)' => InFlight(x)
    BY <2>1 DEF InFlight
  <2>4. \A k \in Runs, x \in Targets : Has(k, x) => Has(k, x)'
    BY <2>1, <2>2 DEF Has
  <2>5. QED
    BY <2>3, <2>4 DEF Awaited
<1>5. ASSUME NEW r \in Requests, Start(r) PROVE Awaited'
  <2>1. last' \in Runs /\ last' > last /\ closed' = closed /\ ~closed
    BY <1>1, <1>5, ExitProbesAssumption DEF Start, Runs
  <2>2. /\ \A k \in Runs \ {last'} : run'[k] = run[k]
        /\ run'[last'].targets = req[r].targets
    BY <1>1, <1>5, <2>1 DEF Start, IdleRun
  <2>3. ASSUME NEW x \in Targets, InFlight(x)'
        PROVE  \E k \in Runs : Has(k, x)'
    <3>1. CASE x \in req[r].targets
      BY <2>1, <2>2, <3>1 DEF Has
    <3>2. CASE x \notin req[r].targets
      <4>1. InFlight(x)
        BY <1>5, <2>3, <3>2 DEF Start, InFlight
      <4>2. PICK k \in Runs : Has(k, x)
        BY <4>1 DEF Awaited
      <4>3. k # last'
        <5>1. SUFFICES ASSUME k = last' PROVE FALSE
          OBVIOUS
        <5>2. run[k] = IdleRun
          BY <2>1, <5>1 DEF RunsAreFresh
        <5>3. ~Done(k) /\ run[k].targets = {} /\ InHand(k) = {}
          BY <2>1, <5>2 DEF IdleRun, Done, InHand
        <5>4. QED
          BY <4>2, <5>3 DEF Has
      <4>4. run'[k] = run[k]
        BY <2>2, <4>3
      <4>5. (Done(k) => Done(k)') /\ InHand(k)' = InHand(k)
        BY <2>1, <4>4 DEF Done, InHand
      <4>6. QED
        BY <4>2, <4>4, <4>5 DEF Has
    <3>3. QED
      BY <3>1, <3>2
  <2>4. QED
    BY <2>3 DEF Awaited
<1>6. ASSUME NEW k \in Runs, Probe(k) PROVE Awaited'
  <2>1. /\ closed' = closed /\ run'[k].cancelled = run[k].cancelled
        /\ \A j \in Runs \ {k} : run'[j] = run[j]
    BY <1>1, <1>6, ProbeFrame
  <2>2. \A j \in Runs : Done(j) <=> Done(j)'
    BY <2>1 DEF Done
  <2>3. \A j \in Runs \ {k} : InHand(j)' = InHand(j)
    BY <2>1 DEF InHand
  \* What run k had it has still, or is not shown as waiting.
  <2>4. ASSUME NEW x \in Targets, InFlight(x)'
        PROVE  Has(k, x)' \/ (InFlight(x) /\ ~Has(k, x))
    <3>1. CASE /\ run[k].pc = "next" /\ run'[k].pc = "pace" /\ ~Done(k)
               /\ run'[k].targets = run[k].targets \ {run'[k].target}
               /\ shown' = [shown EXCEPT ![run'[k].target] =
                               [status |-> "running", via |-> NoExit]]
      <4>1. InHand(k)' = {run'[k].target} /\ InHand(k) = {}
        BY <3>1 DEF InHand
      <4>2. CASE x = run'[k].target
        BY <4>1, <4>2 DEF Has
      <4>3. CASE x # run'[k].target
        <5>1. shown'[x] = shown[x]
          BY <1>1, <3>1, <4>3
        <5>2. InFlight(x)
          BY <2>4, <5>1 DEF InFlight
        <5>3. QED
          BY <3>1, <4>1, <4>3, <5>2 DEF Has
      <4>4. QED
        BY <4>2, <4>3
    <3>2. CASE /\ run'[k].target = run[k].target /\ run'[k].targets = run[k].targets
               /\ InHand(k)' = InHand(k) \/ (Done(k) /\ InHand(k) = {run[k].target})
               /\ UNCHANGED shown
      <4>1. InFlight(x)
        BY <2>4, <3>2 DEF InFlight
      <4>2. Has(k, x) => Has(k, x)'
        BY <2>2, <3>2 DEF Has
      <4>3. QED
        BY <4>1, <4>2
    <3>3. CASE \E status \in {"success", "failed", "cancelled"}, via \in Targets \cup {Direct, NoExit} :
                  /\ run[k].pc \in {"select", "lookup"} /\ run'[k].pc = "next"
                  /\ run'[k].targets = run[k].targets
                  /\ shown' = [shown EXCEPT ![run[k].target] = [status |-> status, via |-> via]]
      <4>1. PICK status \in {"success", "failed", "cancelled"}, via \in Targets \cup {Direct, NoExit} :
               shown' = [shown EXCEPT ![run[k].target] = [status |-> status, via |-> via]]
        BY <3>3
      <4>2. x # run[k].target
        <5>1. SUFFICES ASSUME x = run[k].target PROVE FALSE
          OBVIOUS
        <5>2. shown'[x].status = status
          BY <1>1, <4>1, <5>1
        <5>3. QED
          BY <2>4, <5>2 DEF InFlight
      <4>3. shown'[x] = shown[x]
        BY <1>1, <4>1, <4>2
      <4>4. InFlight(x)
        BY <2>4, <4>3 DEF InFlight
      <4>5. InHand(k) = {run[k].target}
        BY <3>3 DEF InHand
      <4>6. QED
        BY <3>3, <4>2, <4>4, <4>5 DEF Has
    <3>4. CASE run[k].pc \in InProbe /\ run'[k].pc \in InProbe
      BY <1>1, <1>6, <3>2, <3>4, ProbeMoves DEF InHand, InProbe
    <3>5. CASE run[k].pc = "pace" /\ run'[k].pc = "next"
      BY <1>1, <1>6, <3>2, <3>5, ProbeMoves DEF InHand
    <3>6. CASE run[k].pc = "next" /\ run'[k].pc = "off"
      <4>1. /\ run'[k].target = run[k].target /\ run'[k].targets = run[k].targets
            /\ UNCHANGED shown
        BY <1>1, <1>6, <3>6, ProbeMoves
      <4>2. InHand(k)' = InHand(k)
        BY <3>6 DEF InHand
      <4>3. InFlight(x)
        BY <2>4, <4>1 DEF InFlight
      <4>4. Has(k, x) => Has(k, x)'
        BY <2>2, <4>1, <4>2 DEF Has
      <4>5. QED
        BY <4>3, <4>4
    <3>7. QED
      BY <1>1, <1>6, <3>1, <3>3, <3>4, <3>5, <3>6, ProbeMoves DEF InProbe
  <2>5. ASSUME NEW x \in Targets, InFlight(x)' PROVE \E j \in Runs : Has(j, x)'
    <3>1. CASE Has(k, x)'
      BY <3>1
    <3>2. CASE InFlight(x) /\ ~Has(k, x)
      <4>1. PICK j \in Runs : Has(j, x)
        BY <3>2 DEF Awaited
      <4>2. Has(j, x)'
        BY <2>1, <2>2, <2>3, <3>2, <4>1 DEF Has
      <4>3. QED
        BY <4>2
    <3>3. QED
      BY <2>4, <2>5, <3>1, <3>2
  <2>6. QED
    BY <2>5 DEF Awaited
<1>7. QED
  BY <1>3, <1>4, <1>5, <1>6, StepCases

-----------------------------------------------------------------------------
\* Types.

LEMMA TypingInit == Init => Typing
<1> SUFFICES ASSUME Init PROVE Typing
  OBVIOUS
<1>1. 0 \in 0..Cardinality(Targets) /\ 0 \in 0..MaxEdits /\ 0 \in 0..MaxRuns
  BY TargetsAreFinite, ExitProbesAssumption
<1>2. IdleRun \in RunRecords /\ NoBatch \in BatchRecords /\ Unknown \in ShownRecords
  BY <1>1 DEF IdleRun, NoBatch, Unknown, RunRecords, BatchRecords, ShownRecords
<1>3. /\ run \in [Runs -> RunRecords] /\ batch \in [Runs -> BatchRecords]
      /\ shown \in [Targets -> ShownRecords]
  BY <1>2 DEF Init
<1>4. TypeOK
  BY <1>1, <1>3 DEF Init, TypeOK, RunRecords, BatchRecords, ShownRecords
<1>5. RequestsAreTyped /\ req = [r \in Requests |-> req[r]]
  BY DEF Init, RequestsAreTyped, NoRequest
<1>6. QED
  BY <1>4, <1>5 DEF Typing

\* The handlers.
LEMMA RequestsStep ==
  ASSUME Typing, [Next]_vars
  PROVE  RequestsAreTyped' /\ req' = [r \in Requests |-> req'[r]]
<1>1. /\ req = [r \in Requests |-> req[r]] /\ RequestsAreTyped
      /\ saved \in Configurations /\ run \in [Runs -> RunRecords]
  BY DEF Typing, TypeOK, RunRecords
<1>2. ASSUME NEW r \in Requests, NEW request, req' = [req EXCEPT ![r] = request],
             /\ request.kind \in {"none", "start", "poll"}
             /\ request.kind = "start" => /\ request.targets \in SUBSET Targets
                                          /\ request.port \in Ports \cup {NoExit}
             /\ request.kind = "poll" => request.gone \in SUBSET Targets
      PROVE  RequestsAreTyped' /\ req' = [q \in Requests |-> req'[q]]
  <2>1. req'[r] = request /\ \A q \in Requests \ {r} : req'[q] = req[q]
    BY <1>1, <1>2
  <2>2. req' = [q \in Requests |-> req'[q]]
    BY <1>1, <1>2
  <2>3. RequestsAreTyped'
    BY <1>1, <1>2, <2>1 DEF RequestsAreTyped
  <2>4. QED
    BY <2>2, <2>3
<1>3. CASE UNCHANGED req
  BY <1>1, <1>3 DEF RequestsAreTyped
<1>4. ASSUME NEW r \in Requests, Respond(r)
      PROVE  RequestsAreTyped' /\ req' = [q \in Requests |-> req'[q]]
  <2>1. req' = [req EXCEPT ![r] = NoRequest] /\ NoRequest.kind = "none"
    BY <1>4 DEF Respond, NoRequest
  <2>2. QED
    BY <1>2, <2>1
<1>5. ASSUME NEW r \in Requests, PrepareNodes(r)
      PROVE  RequestsAreTyped' /\ req' = [q \in Requests |-> req'[q]]
  <2>1. PICK ids \in SUBSET Active(saved) :
           Begin(r, [kind |-> "start", targets |-> ids, port |-> NoExit])
    BY <1>5 DEF PrepareNodes
  <2> DEFINE request == [kind |-> "start", targets |-> ids, port |-> NoExit]
  <2>2. ids \in SUBSET Targets
    BY DEF Active, Targets
  <2>3. /\ request.kind = "start" /\ request.targets \in SUBSET Targets
        /\ request.port \in Ports \cup {NoExit}
    BY <2>2
  <2>4. req' = [req EXCEPT ![r] = request]
    BY <2>1 DEF Begin
  <2> HIDE DEF request
  <2>5. QED
    BY <1>2, <2>3, <2>4
<1>6. ASSUME NEW r \in Requests, PrepareListener(r)
      PROVE  RequestsAreTyped' /\ req' = [q \in Requests |-> req'[q]]
  <2>1. PICK l \in Listeners :
           /\ saved[l] \in Ports
           /\ Begin(r, [kind |-> "start", targets |-> {l}, port |-> saved[l]])
    BY <1>6 DEF PrepareListener
  <2> DEFINE request == [kind |-> "start", targets |-> {l}, port |-> saved[l]]
  <2>2. {l} \in SUBSET Targets
    BY DEF Targets
  <2>3. /\ request.kind = "start" /\ request.targets \in SUBSET Targets
        /\ request.port \in Ports \cup {NoExit}
    BY <2>1, <2>2
  <2>4. req' = [req EXCEPT ![r] = request]
    BY <2>1 DEF Begin
  <2> HIDE DEF request
  <2>5. QED
    BY <1>2, <2>3, <2>4
<1>7. ASSUME NEW r \in Requests, PreparePoll(r)
      PROVE  RequestsAreTyped' /\ req' = [q \in Requests |-> req'[q]]
  <2> DEFINE request == [kind |-> "poll", gone |-> {x \in Targets : saved[x] = "gone"}]
  <2>1. req' = [req EXCEPT ![r] = request]
    BY <1>7 DEF PreparePoll, Begin
  <2>2. request.kind = "poll" /\ request.gone \in SUBSET Targets
    OBVIOUS
  <2> HIDE DEF request
  <2>3. QED
    BY <1>2, <2>1, <2>2
<1>8. CASE Edit \/ Apply \/ ReloadSame \/ Close \/ Stop \/ UNCHANGED vars
  BY <1>3, <1>8 DEF Edit, Apply, ReloadSame, Close, Stop, vars
<1>9. ASSUME NEW k \in Runs, Probe(k) PROVE UNCHANGED req
  BY <1>9, ProbeFrame DEF Typing
<1>10. ASSUME NEW r \in Requests, Start(r) \/ StartRefused(r) \/ Snapshot(r)
       PROVE  Respond(r)
  BY <1>10 DEF Start, StartRefused, Snapshot
<1>11. QED
  BY <1>3, <1>4, <1>5, <1>6, <1>7, <1>8, <1>9, <1>10 DEF Next, Handle

\* The configuration and what the kernel has selected of it.
LEMMA ConfigurationTypes ==
  ASSUME TypeOK, [Next]_vars
  PROVE  /\ saved' \in Configurations /\ kernel' \in Configurations
         /\ applied' \in BOOLEAN /\ selected' \in Active(kernel') \cup {Direct}
         /\ edits' \in 0..MaxEdits /\ closed' \in BOOLEAN
<1>1. /\ saved \in Configurations /\ kernel \in Configurations
      /\ applied \in BOOLEAN /\ selected \in Active(kernel) \cup {Direct}
      /\ edits \in 0..MaxEdits /\ closed \in BOOLEAN
  BY DEF TypeOK
<1>2. CASE UNCHANGED <<confVars, closed>>
  BY <1>1, <1>2 DEF confVars
<1>3. CASE Edit
  <2>1. saved' \in Configurations /\ edits' \in 0..MaxEdits /\ closed' = closed
    BY <1>1, <1>3, ExitProbesAssumption DEF Edit
  <2>2. CASE LoadInto(saved') /\ applied' = TRUE
    BY <1>1, <2>1, <2>2 DEF LoadInto
  <2>3. CASE applied' = FALSE /\ UNCHANGED <<kernel, selected>>
    BY <1>1, <2>1, <2>3
  <2>4. QED
    BY <1>3, <2>2, <2>3 DEF Edit
<1>4. CASE Apply
  <2>1. /\ kernel' = saved /\ selected' = Direct /\ applied' = TRUE
        /\ UNCHANGED <<saved, edits, closed>>
    BY <1>4 DEF Apply, LoadInto
  <2>2. QED
    BY <1>1, <2>1
<1>5. CASE ReloadSame
  <2>1. kernel' = kernel /\ selected' = Direct /\ UNCHANGED <<saved, applied, edits, closed>>
    BY <1>5 DEF ReloadSame, LoadInto
  <2>2. QED
    BY <1>1, <2>1
<1>6. CASE Close
  <2>1. closed' = TRUE /\ UNCHANGED confVars
    BY <1>6 DEF Close
  <2>2. QED
    BY <1>1, <2>1 DEF confVars
<1>7. ASSUME NEW k \in Runs, Probe(k)
      PROVE  /\ UNCHANGED <<saved, kernel, applied, edits, closed>>
             /\ selected' \in Active(kernel) \cup {Direct}
  <2>1. UNCHANGED <<saved, kernel, applied, edits, closed>>
    BY <1>7, ProbeFrame
  <2>2. selected' \in Active(kernel) \cup {Direct}
    BY <1>1, <1>7, ProbeMoves
  <2>3. QED
    BY <2>1, <2>2
<1>8. CASE Stop \/ UNCHANGED vars \/ \E r \in Requests : Handle(r)
  BY <1>2, <1>8 DEF Stop, Handle, PrepareNodes, PrepareListener, PreparePoll, Begin, Start,
     StartRefused, Snapshot, vars
<1>9. QED
  BY <1>1, <1>3, <1>4, <1>5, <1>6, <1>7, <1>8 DEF Next

\* The runs, their batches and what is shown.
LEMMA ProbeTypes ==
  ASSUME Typing, AtWork, Accounts, [Next]_vars
  PROVE  /\ running' \in BOOLEAN /\ run' \in [Runs -> RunRecords]
         /\ last' \in 0..MaxRuns /\ batch' \in [Runs -> BatchRecords]
         /\ shown' \in [Targets -> ShownRecords]
<1>1. /\ running \in BOOLEAN /\ run \in [Runs -> RunRecords]
      /\ last \in 0..MaxRuns /\ batch \in [Runs -> BatchRecords]
      /\ shown \in [Targets -> ShownRecords] /\ TypeOK
  BY DEF Typing, TypeOK, RunRecords, BatchRecords, ShownRecords
<1>2. CASE Outside \/ UNCHANGED vars
  <2>1. UNCHANGED <<running, run, last, batch, shown>>
    BY <1>2, OutsideFrame DEF vars, probeVars
  <2>2. QED
    BY <1>1, <2>1
<1>3. CASE Stop
  <2>1. UNCHANGED <<running, last, shown>>
    BY <1>3 DEF Stop
  <2>2. run' \in [Runs -> RunRecords]
    BY <1>1, <1>3 DEF Stop, RunRecords
  <2>3. batch' \in [Runs -> BatchRecords]
    BY <1>1, <1>3 DEF Stop, BatchRecords
  <2>4. QED
    BY <1>1, <2>1, <2>2, <2>3
<1>4. ASSUME NEW r \in Requests, Start(r)
      PROVE  /\ running' \in BOOLEAN /\ run' \in [Runs -> RunRecords]
             /\ last' \in 0..MaxRuns /\ batch' \in [Runs -> BatchRecords]
             /\ shown' \in [Targets -> ShownRecords]
  <2>1. last' \in 0..MaxRuns /\ running' = TRUE
    BY <1>1, <1>4, ExitProbesAssumption DEF Start
  <2>2. req[r].targets \in SUBSET Targets /\ req[r].port \in Ports \cup {NoExit}
    BY <1>4 DEF Start, Typing, RequestsAreTyped
  <2>3. run' \in [Runs -> RunRecords]
    BY <1>1, <1>4, <2>2 DEF Start, IdleRun, RunRecords
  <2>4. Cardinality(req[r].targets) \in 0..Cardinality(Targets) /\ 0 \in 0..Cardinality(Targets)
    BY <2>2, TargetsAreFinite
  <2>5. batch' \in [Runs -> BatchRecords]
    BY <1>1, <1>4, <2>4 DEF Start, BatchRecords
  <2>6. shown' \in [Targets -> ShownRecords]
    BY <1>1, <1>4 DEF Start, ShownRecords
  <2>7. QED
    BY <2>1, <2>3, <2>5, <2>6
<1>5. ASSUME NEW r \in Requests, Snapshot(r)
      PROVE  shown' \in [Targets -> ShownRecords] /\ UNCHANGED <<running, run, last, batch>>
  BY <1>1, <1>5 DEF Snapshot, Unknown, ShownRecords
<1>6. ASSUME NEW k \in Runs, Probe(k)
      PROVE  /\ running' \in BOOLEAN /\ run' \in [Runs -> RunRecords]
             /\ last' = last /\ batch' \in [Runs -> BatchRecords]
             /\ shown' \in [Targets -> ShownRecords]
  <2>1. last' = last /\ running' \in {running, FALSE}
    BY <1>1, <1>6, ProbeFrame, ProbeMoves
  <2>2. run' \in [Runs -> RunRecords]
    <3>1. CASE NextTarget(k)
      BY <1>1, <3>1 DEF NextTarget, RunRecords
    <3>2. CASE Paced(k) \/ PaceCancelled(k) \/ Select(k)
      BY <1>1, <3>2 DEF Paced, PaceCancelled, Select, Goto, RunRecords
    <3>3. CASE SelectFails(k) \/ Lookup(k)
      <4>1. run' = [run EXCEPT ![k].pc = "next", ![k].target = NoExit]
        BY <3>3 DEF SelectFails, Lookup, Record
      <4>2. [run[k] EXCEPT !.pc = "next", !.target = NoExit] \in RunRecords
        BY <1>1 DEF RunRecords
      <4>3. QED
        BY <1>1, <4>1, <4>2
    <3>4. CASE Finish(k)
      <4>1. [run[k] EXCEPT !.pc = "off", !.port = NoExit] \in RunRecords
        BY <1>1 DEF RunRecords
      <4>2. QED
        BY <1>1, <3>4, <4>1 DEF Finish
    <3>5. QED
      BY <1>6, <3>1, <3>2, <3>3, <3>4 DEF Probe
  <2>3. batch' \in [Runs -> BatchRecords]
    <3>1. CASE UNCHANGED batch
      BY <1>1, <3>1
    <3>2. CASE run[k].pc \in InProbe /\ batch' = [batch EXCEPT ![k].completed = @ + 1]
      <4>1. /\ batch[k].completed \in Nat /\ batch[k].total \in 0..Cardinality(Targets)
            /\ Cardinality(run[k].targets) \in Nat
            /\ Sum(k) = batch[k].completed + Cardinality(run[k].targets) + 1
        BY <1>1, <3>2, SumParts DEF BatchRecords
      <4>2. Sum(k) <= batch[k].total
        BY DEF Accounts
      <4>3. batch[k].completed + 1 \in 0..Cardinality(Targets)
        BY <4>1, <4>2, TargetsAreFinite
      <4>4. QED
        BY <1>1, <3>2, <4>3 DEF BatchRecords
    <3>3. CASE Finish(k)
      BY <1>1, <3>3 DEF Finish, BatchRecords
    <3>4. QED
      BY <1>1, <1>6, <3>1, <3>2, <3>3, ProbeMoves DEF InProbe
  <2>4. shown' \in [Targets -> ShownRecords]
    <3>1. CASE UNCHANGED shown
      BY <1>1, <3>1
    <3>2. CASE shown' = [shown EXCEPT ![run'[k].target] = [status |-> "running", via |-> NoExit]]
      BY <1>1, <3>2 DEF ShownRecords
    <3>3. CASE \E status \in {"success", "failed", "cancelled"}, via \in Targets \cup {Direct, NoExit} :
                  shown' = [shown EXCEPT ![run[k].target] = [status |-> status, via |-> via]]
      <4>1. PICK status \in {"success", "failed", "cancelled"}, via \in Targets \cup {Direct, NoExit} :
               shown' = [shown EXCEPT ![run[k].target] = [status |-> status, via |-> via]]
        BY <3>3
      <4>2. [status |-> status, via |-> via] \in ShownRecords
        BY DEF ShownRecords
      <4>3. QED
        BY <1>1, <4>1, <4>2
    <3>4. QED
      BY <1>1, <1>6, <3>1, <3>2, <3>3, ProbeMoves
  <2>5. QED
    BY <1>1, <2>1, <2>2, <2>3, <2>4
<1>7. QED
  BY <1>1, <1>2, <1>3, <1>4, <1>5, <1>6, StepCases

LEMMA TypingStep == Typing /\ AtWork /\ Accounts /\ [Next]_vars => Typing'
<1> SUFFICES ASSUME Typing, AtWork, Accounts, [Next]_vars PROVE Typing'
  OBVIOUS
<1>1. TypeOK'
  <2>1. /\ saved' \in Configurations /\ kernel' \in Configurations
        /\ applied' \in BOOLEAN /\ selected' \in Active(kernel') \cup {Direct}
        /\ edits' \in 0..MaxEdits /\ closed' \in BOOLEAN
    BY ConfigurationTypes DEF Typing
  <2>2. /\ running' \in BOOLEAN /\ run' \in [Runs -> RunRecords]
        /\ last' \in 0..MaxRuns /\ batch' \in [Runs -> BatchRecords]
        /\ shown' \in [Targets -> ShownRecords]
    BY ProbeTypes
  <2>3. QED
    BY <2>1, <2>2 DEF TypeOK, RunRecords, BatchRecords, ShownRecords
<1>2. QED
  BY <1>1, RequestsStep DEF Typing

-----------------------------------------------------------------------------

LEMMA SoundInit == Init => Sound
<1> SUFFICES ASSUME Init PROVE Sound
  OBVIOUS
<1>1. Typing
  BY TypingInit
<1>2. \A k \in Runs : run[k] = IdleRun /\ batch[k] = NoBatch
  BY DEF Init
<1>3. \A k \in Runs : run[k].pc = "off" /\ batch[k].status = "none"
  BY <1>2 DEF IdleRun, NoBatch
<1>4. RunningIsHeld
  BY <1>3 DEF Init, RunningIsHeld
<1>5. AtWork /\ SelectionIsHeld
  BY <1>3 DEF AtWork, SelectionIsHeld, InProbe
<1>6. RunsAreFresh
  BY <1>2 DEF RunsAreFresh
<1>7. \A x \in Targets : shown[x].status = "none"
  BY DEF Init, Unknown
<1>8. NodesNotMixedUp /\ Awaited
  BY <1>7 DEF NodesNotMixedUp, Awaited, InFlight, Targets
<1>9. Accounts
  <2>1. ASSUME NEW k \in Runs PROVE Sum(k) = batch[k].total
    <3>1. /\ run[k].targets = {} /\ run[k].pc = "off"
          /\ batch[k].completed = 0 /\ batch[k].total = 0
      BY <1>2 DEF IdleRun, NoBatch
    <3>2. Cardinality({}) = 0 /\ InHand(k) = {}
      BY <3>1, FS_EmptySet DEF InHand
    <3>3. QED
      BY <3>1, <3>2 DEF Sum
  <2>2. \A k \in Runs : batch[k].total = 0
    BY <1>2 DEF NoBatch
  <2>3. QED
    BY <1>3, <2>1, <2>2 DEF Accounts
<1>10. QED
  BY <1>1, <1>4, <1>5, <1>6, <1>8, <1>9 DEF Sound

LEMMA SoundStep == Sound /\ [Next]_vars => Sound'
  BY TypingStep, OneRunStep, AtWorkStep, FreshStep, SelectionStep, NotMixedStep,
     AccountsStep, AwaitedStep DEF Sound

LEMMA AlwaysSound == Spec => []Sound
  BY SoundInit, SoundStep, PTL DEF Spec

\* Every variable keeps its type.
THEOREM ProbeVariablesAreTyped == Spec => []TypeOK
<1>1. Sound => TypeOK
  BY DEF Sound, Typing
<1>2. QED
  BY <1>1, AlwaysSound, PTL

\* probeNode shows no node with an address that was seen through another one.
THEOREM NodesAreNeverMixedUp == Spec => []NodesNotMixedUp
<1>1. Sound => NodesNotMixedUp
  BY DEF Sound
<1>2. QED
  BY <1>1, AlwaysSound, PTL

\* The flag that start tests and the goroutine gives back admits one run at a time, and
\* is up only while one is at work.
THEOREM OneRunAtATime == Spec => []RunningIsHeld
<1>1. Sound => RunningIsHeld
  BY DEF Sound
<1>2. QED
  BY <1>1, AlwaysSound, PTL

\* No way through a probe loses a target or its result.
THEOREM NoResultIsLost == Spec => []NothingIsLost
<1>1. Sound => NothingIsLost
  BY DEF Sound, Accounts, Awaited, Has, NothingIsLost, Sum
<1>2. QED
  BY <1>1, AlwaysSound, PTL
=============================================================================
