----------------------------- MODULE ExitProbes -----------------------------
(***************************************************************************)
(* The exit address probes of manager/exitip.go: a run probes nodes one    *)
(* after the other through the probe group of the kernel, or one listener  *)
(* through its own port, in a goroutine that holds no mutex of the         *)
(* manager.  A publication of the configuration may fall between any two   *)
(* steps of a run; it is atomic here, because who reads the configuration  *)
(* waits for it to end, and it resets what the kernel had selected.        *)
(***************************************************************************)
EXTENDS Integers, FiniteSets

CONSTANTS
    Nodes,        \* node identifiers
    Listeners,    \* listener identifiers
    Ports,        \* local ports of listeners
    Direct,       \* the outbound that uses the address of the host
    NoExit,       \* no outbound: the result carries no address
    Requests,     \* handlers that can be between their read and their use of it
    MaxRuns,      \* bound on the runs
    MaxEdits      \* bound on the edits of the configuration

ASSUME ExitProbesAssumption ==
    /\ IsFiniteSet(Nodes) /\ IsFiniteSet(Listeners)
    /\ Nodes \cap Listeners = {}
    /\ Direct \notin Nodes \cup Listeners
    /\ NoExit \notin Nodes \cup Listeners \cup {Direct}
    /\ MaxRuns \in Nat /\ MaxEdits \in Nat

VARIABLES
    saved,      \* the stored configuration, by node and listener
    kernel,     \* the configuration the kernel runs
    applied,    \* the stored revision is applied, without error
    selected,   \* the member that ExitProbeGroup has selected in the kernel
    edits,      \* number of edits so far
    req,        \* [Requests -> a handler and the state it has read]
    running,    \* ExitProbes.running
    run,        \* [Runs -> what each goroutine is at]
    last,       \* number of runs started
    batch,      \* [Runs -> batch record]; ExitProbes.batch is that of the last run
    shown,      \* ExitProbes.nodes and ExitProbes.listeners
    closed      \* Close was called

confVars == <<saved, kernel, applied, selected, edits>>
probeVars == <<running, run, last, batch, shown>>
vars == <<confVars, req, probeVars, closed>>

Runs == 1..MaxRuns
Targets == Nodes \cup Listeners

\* A node is "on", "off" (disabled or unavailable) or "gone"; a listener has a port,
\* is "off", or is "gone".  No two listeners have a port in common.
Configurations ==
    {c \in [Targets -> Ports \cup {"on", "off", "gone"}] :
        /\ \A n \in Nodes : c[n] \in {"on", "off", "gone"}
        /\ \A l \in Listeners : c[l] \in Ports \cup {"off", "gone"}
        /\ \A k, l \in Listeners : k # l /\ c[k] \in Ports => c[k] # c[l]}

Active(c) == {n \in Nodes : c[n] = "on"}

NoRequest == [kind |-> "none"]
IdleRun == [pc |-> "off", targets |-> {}, target |-> NoExit, port |-> NoExit,
            cancelled |-> FALSE]
NoBatch == [status |-> "none", total |-> 0, completed |-> 0]
Unknown == [status |-> "none", via |-> NoExit]

\* ExitIPResult.InFlight.
InFlight(x) == shown[x].status \in {"queued", "running"}

Done(k) == run[k].cancelled \/ closed

Init ==
    /\ saved \in Configurations
    /\ kernel = saved
    /\ applied = TRUE
    /\ selected = Direct
    /\ edits = 0
    /\ req = [r \in Requests |-> NoRequest]
    /\ running = FALSE
    /\ run = [k \in Runs |-> IdleRun]
    /\ last = 0
    /\ batch = [k \in Runs |-> NoBatch]
    /\ shown = [x \in Targets |-> Unknown]
    /\ closed = FALSE

-----------------------------------------------------------------------------
\* The configuration.  The probe group lists DIRECT first and store-selected is off:
\* whatever loads a configuration into the kernel selects DIRECT.

\* Mutant: the kernel stores what was selected.
LoadKeepsSelected(c) == kernel' = c /\ UNCHANGED selected

LoadInto(c) == kernel' = c /\ selected' = Direct

\* A change that is published, or one whose publication fails.
Edit ==
    /\ ~closed
    /\ edits < MaxEdits
    /\ edits' = edits + 1
    /\ \E x \in Targets, c \in Configurations :
          /\ \A y \in Targets \ {x} : c[y] = saved[y]
          /\ saved' = c
    /\ \/ LoadInto(saved') /\ applied' = TRUE
       \/ applied' = FALSE /\ UNCHANGED <<kernel, selected>>
    /\ UNCHANGED <<req, probeVars, closed>>

\* The stored configuration is applied again.
Apply ==
    /\ ~closed
    /\ LoadInto(saved)
    /\ applied' = TRUE
    /\ UNCHANGED <<saved, edits, req, probeVars, closed>>

\* The configuration the kernel runs is loaded again: the previous one after a
\* publication that failed, or by a kernel that was restarted.
ReloadSame ==
    /\ LoadInto(kernel)
    /\ UNCHANGED <<saved, applied, edits, req, probeVars, closed>>

-----------------------------------------------------------------------------
\* Handlers.  The first step reads the state, the second one uses it.

Begin(r, request) ==
    /\ ~closed
    /\ req[r].kind = "none"
    /\ req' = [req EXCEPT ![r] = request]
    /\ UNCHANGED <<confVars, probeVars, closed>>

Respond(r) == req' = [req EXCEPT ![r] = NoRequest]

\* StartNodes up to start: prepare, and the usable ones of the nodes asked for.
PrepareNodes(r) ==
    /\ applied
    /\ \E ids \in SUBSET Active(saved) :
          /\ ids # {}
          /\ Begin(r, [kind |-> "start", targets |-> ids, port |-> NoExit])

\* StartListener up to start.
PrepareListener(r) ==
    /\ applied
    /\ \E l \in Listeners :
          /\ saved[l] \in Ports
          /\ Begin(r, [kind |-> "start", targets |-> {l}, port |-> saved[l]])

\* Of the state, a poll uses what there is.
PreparePoll(r) ==
    Begin(r, [kind |-> "poll", gone |-> {x \in Targets : saved[x] = "gone"}])

\* start: the run gets its batch and its targets are shown as queued.
Start(r) ==
    /\ req[r].kind = "start"
    /\ ~closed
    /\ ~running
    /\ last < MaxRuns
    /\ running' = TRUE
    /\ last' = last + 1
    /\ run' = [run EXCEPT ![last'] = [IdleRun EXCEPT !.pc = "next",
                                                     !.targets = req[r].targets,
                                                     !.port = req[r].port]]
    /\ batch' = [batch EXCEPT ![last'] = [status |-> "running", completed |-> 0,
                                          total |-> Cardinality(req[r].targets)]]
    /\ shown' = [x \in Targets |-> IF x \in req[r].targets
                                   THEN [status |-> "queued", via |-> NoExit]
                                   ELSE shown[x]]
    /\ Respond(r)
    /\ UNCHANGED <<confVars, closed>>

\* The service is stopping, a run is going on, or the request is given up.
StartRefused(r) ==
    /\ req[r].kind = "start"
    /\ Respond(r)
    /\ UNCHANGED <<confVars, probeVars, closed>>

\* Snapshot(state): results of what the state does not hold are forgotten, those of
\* a run that is still going on included.
Snapshot(r) ==
    /\ req[r].kind = "poll"
    /\ shown' = [x \in Targets |-> IF x \in req[r].gone THEN Unknown ELSE shown[x]]
    /\ Respond(r)
    /\ UNCHANGED <<confVars, running, run, last, batch, closed>>

\* Mutant: stopping a run lets the next one begin at once.
StopFrees ==
    /\ last > 0
    /\ batch[last].status = "running"
    /\ batch' = [batch EXCEPT ![last].status = "stopping"]
    /\ run' = [run EXCEPT ![last].cancelled = TRUE]
    /\ running' = FALSE
    /\ UNCHANGED <<confVars, req, last, shown, closed>>

Stop ==
    /\ last > 0
    /\ batch[last].status = "running"
    /\ batch' = [batch EXCEPT ![last].status = "stopping"]
    /\ run' = [run EXCEPT ![last].cancelled = TRUE]
    /\ UNCHANGED <<confVars, req, running, last, shown, closed>>

Close ==
    /\ ~closed
    /\ closed' = TRUE
    /\ UNCHANGED <<confVars, req, probeVars>>

-----------------------------------------------------------------------------
\* The goroutine of a run.

RunFrame == UNCHANGED <<req, last, closed>>

At(k, label) == run[k].pc = label
Goto(k, label) == run' = [run EXCEPT ![k].pc = label]

\* The head of the loop and of probeNode or probeListener: the next target is shown
\* as running and paced.
NextTarget(k) ==
    /\ At(k, "next")
    /\ ~Done(k)
    /\ \E x \in run[k].targets :
          /\ run' = [run EXCEPT ![k].pc = "pace", ![k].target = x,
                                ![k].targets = @ \ {x}]
          /\ shown' = [shown EXCEPT ![x] = [status |-> "running", via |-> NoExit]]
    /\ UNCHANGED <<confVars, running, batch>>
    /\ RunFrame

\* The time has come; pace looks at the context only where it need not wait or
\* where both are ready.
Paced(k) ==
    /\ At(k, "pace")
    /\ Goto(k, IF run[k].target \in Nodes THEN "select" ELSE "lookup")
    /\ UNCHANGED <<confVars, running, batch, shown>>
    /\ RunFrame

\* The probe returns without a result; a cancelled run takes no other target.
PaceCancelled(k) ==
    /\ At(k, "pace")
    /\ Done(k)
    /\ Goto(k, "next")
    /\ UNCHANGED <<confVars, running, batch, shown>>
    /\ RunFrame

\* Kernel.SelectProxy on the probe group.
Select(k) ==
    /\ At(k, "select")
    /\ run[k].target \in Active(kernel)
    /\ selected' = run[k].target
    /\ Goto(k, "lookup")
    /\ UNCHANGED <<saved, kernel, applied, edits, running, batch, shown>>
    /\ RunFrame

\* record: the result replaces what was shown and counts.
Record(k, status, via) ==
    /\ shown' = [shown EXCEPT ![run[k].target] = [status |-> status, via |-> via]]
    /\ batch' = [batch EXCEPT ![k].completed = @ + 1]
    /\ run' = [run EXCEPT ![k].pc = "next", ![k].target = NoExit]

\* Mutant: a selection that fails is not recorded.
SelectFailsSilently(k) ==
    /\ At(k, "select")
    /\ selected' \in {selected} \cup (Active(kernel) \cap {run[k].target})
    /\ Goto(k, "next")
    /\ UNCHANGED <<saved, kernel, applied, edits, running, shown, batch>>
    /\ RunFrame

\* The kernel refuses or its answer does not arrive.
SelectFails(k) ==
    /\ At(k, "select")
    /\ selected' \in {selected} \cup (Active(kernel) \cap {run[k].target})
    /\ Record(k, "failed", NoExit)
    /\ UNCHANGED <<saved, kernel, applied, edits, running>>
    /\ RunFrame

\* The outbounds behind the port of the run: the selected member of the probe group,
\* or the exit of the listener that has the port now.
Exits(k) ==
    IF run[k].target \in Nodes
    THEN IF Active(kernel) = {} THEN {} ELSE {selected}
    ELSE {l \in Listeners : kernel[l] = run[k].port}

\* lookup asks the service through the port; everything that goes wrong is a failure.
Lookup(k) ==
    /\ At(k, "lookup")
    /\ \/ \E exit \in Exits(k) : Record(k, "success", exit)
       \/ Record(k, "failed", NoExit)
       \/ Done(k) /\ Record(k, "cancelled", NoExit)
    /\ UNCHANGED <<confVars, running>>
    /\ RunFrame

\* Mutant: only a run that was not stopped gives way to the next one.
FinishRunning(k) ==
    /\ At(k, "next")
    /\ Done(k) \/ run[k].targets = {}
    /\ run' = [run EXCEPT ![k].pc = "off", ![k].port = NoExit]
    /\ running' = (batch[k].status # "running")
    /\ batch' = [batch EXCEPT ![k].status =
          IF @ # "running" THEN @ ELSE IF Done(k) THEN "stopped" ELSE "completed"]
    /\ UNCHANGED <<confVars, shown>>
    /\ RunFrame

\* The deferred function of the goroutine.  Targets that were not reached stay queued,
\* and a batch that is stopping stays so.
Finish(k) ==
    /\ At(k, "next")
    /\ Done(k) \/ run[k].targets = {}
    /\ run' = [run EXCEPT ![k].pc = "off", ![k].port = NoExit]
    /\ running' = FALSE
    /\ batch' = [batch EXCEPT ![k].status =
          IF @ # "running" THEN @ ELSE IF Done(k) THEN "stopped" ELSE "completed"]
    /\ UNCHANGED <<confVars, shown>>
    /\ RunFrame

Probe(k) ==
    \/ NextTarget(k) \/ Paced(k) \/ PaceCancelled(k)
    \/ Select(k) \/ SelectFails(k) \/ Lookup(k) \/ Finish(k)

Handle(r) ==
    \/ PrepareNodes(r) \/ PrepareListener(r) \/ PreparePoll(r)
    \/ Start(r) \/ StartRefused(r) \/ Snapshot(r)

Next ==
    \/ Edit \/ Apply \/ ReloadSame
    \/ \E r \in Requests : Handle(r)
    \/ Stop \/ Close
    \/ \E k \in Runs : Probe(k)

Spec == Init /\ [][Next]_vars

-----------------------------------------------------------------------------
(***************************************************************************)
(* Properties                                                              *)
(***************************************************************************)
\* Every variable stays in its type.
TypeOK ==
    /\ saved \in Configurations
    /\ kernel \in Configurations
    /\ applied \in BOOLEAN
    /\ selected \in Active(kernel) \cup {Direct}
    /\ edits \in 0..MaxEdits
    /\ running \in BOOLEAN
    /\ run \in [Runs -> [pc : {"off", "next", "pace", "select", "lookup"},
                         targets : SUBSET Targets, target : Targets \cup {NoExit},
                         port : Ports \cup {NoExit}, cancelled : BOOLEAN]]
    /\ last \in 0..MaxRuns
    /\ batch \in [Runs -> [status : {"none", "running", "stopping", "stopped", "completed"},
                           total : 0..Cardinality(Targets),
                           completed : 0..Cardinality(Targets)]]
    /\ shown \in [Targets ->
                    [status : {"none", "queued", "running", "success", "failed", "cancelled"},
                     via : Targets \cup {Direct, NoExit}]]
    /\ closed \in BOOLEAN

\* "Two concurrent probes would attribute each other's exit address"
\* (exitip.go:90): an address shown for a node was never seen through another
\* node, whatever is edited, stopped and started meanwhile.
NodesNotMixedUp ==
    \A n \in Nodes : shown[n].status = "success" => shown[n].via \in {n, Direct}

\* "It does not fall back to a direct connection and report the host's address"
\* (README.md:200, API.md:141): a node is never shown with an address that was
\* seen without it.
HostNeverShown ==
    \A n \in Nodes : shown[n].status = "success" => shown[n].via # Direct

\* The target a run is at.
InHand(k) == IF run[k].pc \in {"pace", "select", "lookup"} THEN {run[k].target} ELSE {}

\* One run at a time, and the next one can begin when it has ended: the flag is
\* up exactly while some goroutine probes, however the run ends.
RunningIsHeld ==
    /\ running <=> \E k \in Runs : run[k].pc # "off"
    /\ \A j, k \in Runs : run[j].pc # "off" /\ run[k].pc # "off" => j = k

\* No result is lost on any way through a probe: a batch that was not cancelled has
\* counted each of its targets or has it before it, one that says it is completed
\* has a result for all of them, and a target shown as queued or running is one that
\* a run has before it, or one that a run which was stopped was at or had not reached.
NothingIsLost ==
    /\ \A k \in Runs :
          /\ batch[k].status = "completed" => batch[k].completed = batch[k].total
          /\ ~Done(k) => batch[k].completed + Cardinality(run[k].targets)
                           + Cardinality(InHand(k)) = batch[k].total
    /\ \A x \in Targets : InFlight(x) =>
          \E k \in Runs : \/ x \in run[k].targets \cup InHand(k)
                          \/ Done(k) /\ x = run[k].target
=============================================================================
