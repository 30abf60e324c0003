---------------------------- MODULE ConfigApply ----------------------------
(***************************************************************************)
(* How a stored configuration becomes the running one: manager/config.go,  *)
(* the publishing half of routing_source_service.go, Store.mutate and      *)
(* Store.recordApply, the startup goroutine of main.go and the bootstrap   *)
(* of docker/entrypoint.sh.                                                *)
(*                                                                         *)
(* The database keeps a document, its revision, the revision last applied  *)
(* and the last error.  A change commits first and is then applied; the    *)
(* publication of a routing source (activation, or the update of the       *)
(* active source) is applied first and committed afterwards.  Both run     *)
(* under Manager.mu, so one operation is in flight at a time (pc), but the *)
(* manager, the kernel and the container can each stop between any two of  *)
(* its steps, and every call on the kernel or the file system can fail.    *)
(*                                                                         *)
(* A document is the active routing source and a body (nodes, listeners,   *)
(* routing settings, the content of the sources); what the properties tell *)
(* apart of a body is the ports it opens.  Selections restored after a     *)
(* reload count as part of the reload.                                     *)
(***************************************************************************)
EXTENDS Integers, FiniteSets

CONSTANTS
    Sources,      \* identifiers of stored routing sources
    NoSource,     \* "": no routing source is active
    Legacy,       \* the retired local scheme an old last-good.yaml may hold
    Bodies,       \* contents of the database
    EmptyBody,    \* the body of a new database: it opens no port
    Ports,        \* listening ports
    Reserved,     \* Manager.ReservedPorts
    FixedPorts,   \* [Bodies -> SUBSET Ports]: listeners pinned to a node
    RulePorts,    \* [Bodies -> SUBSET Ports]: listeners of the rule engine
    MaxRevision,  \* bound on the number of committed changes
    MaxCrashes    \* bound on the number of process and container stops

ASSUME SourceAssumption ==
    /\ NoSource \notin Sources
    /\ Legacy \notin Sources
    /\ NoSource # Legacy

ASSUME BodyAssumption ==
    /\ EmptyBody \in Bodies
    /\ FixedPorts \in [Bodies -> SUBSET Ports]
    /\ RulePorts \in [Bodies -> SUBSET Ports]
    /\ FixedPorts[EmptyBody] = {}
    /\ RulePorts[EmptyBody] = {}

ASSUME BoundAssumption == MaxRevision \in Nat /\ MaxCrashes \in Nat

VARIABLES
    doc,        \* database: what is stored
    revision,   \* database: state.revision
    applied,    \* database: state.applied_revision
    lastError,  \* database: state.last_error is not empty
    cfgFile,    \* config.yaml
    goodFile,   \* last-good.yaml; an absent file reads as the empty config
    kstate,     \* kernel: "down", "started", "reloaded" or "verified"
    kcfg,       \* kernel: the configuration it has loaded
    kbound,     \* kernel: the ports it is listening on
    mstate,     \* "off": no container; "boot": between the two writes of
                \* Bootstrap; "down", "up": the manager inside the container
    startup,    \* the startup goroutine has not applied yet
    pc,         \* where the operation holding Manager.mu is
    kind,       \* "change", "publish", "reapply", or "none" when idle
    target,     \* the document being applied
    snap,       \* the revision of the snapshot the operation works on
    old,        \* config.yaml as applyConfig read it
    outcome,    \* what applyConfig came to
    crashes,    \* number of stops so far
    proven,     \* history: configurations the kernel has passed Verify with
    unrecorded  \* history: the end of an operation was not written to state

dbVars == <<doc, revision, applied, lastError>>
fileVars == <<cfgFile, goodFile>>
kernelVars == <<kstate, kcfg, kbound>>
hostVars == <<mstate, startup, crashes>>
opVars == <<pc, kind, target, snap, old, outcome>>
histVars == <<proven, unrecorded>>
vars == <<dbVars, fileVars, kernelVars, hostVars, opVars, histVars>>

Docs == [source : Sources \cup {NoSource}, body : Bodies]
Configs == [source : Sources \cup {NoSource, Legacy}, body : Bodies]

\* A rule listener is generated only while a source is active, and without a
\* rule listener nothing of the source reaches the configuration.
Build(d) == IF RulePorts[d.body] = {} THEN [d EXCEPT !.source = NoSource]
                                      ELSE d

\* The configuration of an empty State.
EmptyConfig == [source |-> NoSource, body |-> EmptyBody]

ListenPorts(c) ==
    FixedPorts[c.body] \cup (IF c.source = NoSource THEN {}
                                                    ELSE RulePorts[c.body])

\* Bootstrap's removal of the rule listeners, groups, rules, providers and DNS.
Retire(c) == [c EXCEPT !.source = NoSource]

Candidate == Build(target)

-----------------------------------------------------------------------------
Init ==
    /\ doc \in Docs
    /\ revision = 0
    /\ lastError = FALSE
    /\ \/ /\ doc = EmptyConfig          \* a new data directory
          /\ applied = -1
          /\ goodFile = EmptyConfig
       \/ /\ doc.source = NoSource      \* one left by an older version
          /\ applied = 0
          /\ goodFile = [doc EXCEPT !.source = Legacy]
          /\ ListenPorts(goodFile) \cap Reserved = {}
       \/ /\ doc.source # NoSource      \* one left with a source active
          /\ applied = 0
          /\ goodFile = Build(doc)
          /\ ListenPorts(goodFile) \cap Reserved = {}
    /\ cfgFile = goodFile
    /\ kstate = "down"
    /\ kcfg = EmptyConfig
    /\ kbound = {}
    /\ mstate = "off"
    /\ startup = FALSE
    /\ pc = "idle"
    /\ kind = "none"
    /\ target = EmptyConfig
    /\ snap = 0
    /\ old = EmptyConfig
    /\ outcome = "none"
    /\ crashes = 0
    /\ proven = {goodFile}
    /\ unrecorded = FALSE

-----------------------------------------------------------------------------
\* Entering an operation: Manager.mu is free, the manager runs.

CanBegin == mstate = "up" /\ pc = "idle"

Begin(k, d, r) ==
    /\ pc' = "check"
    /\ kind' = k
    /\ target' = d
    /\ snap' = r
    /\ old' = old
    /\ outcome' = "none"

\* Manager.Change with a function that commits: the document and its revision
\* change in one transaction, and the new snapshot is applied.
Change ==
    /\ CanBegin
    /\ revision < MaxRevision
    /\ \E b \in Bodies : doc' = [doc EXCEPT !.body = b]
    /\ revision' = revision + 1
    /\ Begin("change", doc', revision')
    /\ UNCHANGED <<applied, lastError, fileVars, kernelVars, hostVars, histVars>>

\* Manager.Apply on request of the user.
Apply ==
    /\ CanBegin
    /\ Begin("change", doc, revision)
    /\ UNCHANGED <<dbVars, fileVars, kernelVars, hostVars, histVars>>

\* The goroutine of main: it polls Version until the kernel answers, applies
\* once, and returns whatever came of it.
StartupApply ==
    /\ CanBegin
    /\ startup
    /\ kstate # "down"
    /\ startup' = FALSE
    /\ Begin("change", doc, revision)
    /\ UNCHANGED <<dbVars, fileVars, kernelVars, mstate, crashes, histVars>>

\* Activate: another source, or none, becomes the active one.
Activate ==
    /\ CanBegin
    /\ revision < MaxRevision
    /\ \E s \in (Sources \cup {NoSource}) \ {doc.source} :
          Begin("publish", [doc EXCEPT !.source = s], revision)
    /\ UNCHANGED <<dbVars, fileVars, kernelVars, hostVars, histVars>>

\* accept with a changed version of the active source: only while the stored
\* configuration is the applied one.
AcceptActive ==
    /\ CanBegin
    /\ revision < MaxRevision
    /\ doc.source # NoSource
    /\ revision = applied
    /\ ~lastError
    /\ \E b \in Bodies : Begin("publish", [doc EXCEPT !.body = b], revision)
    /\ UNCHANGED <<dbVars, fileVars, kernelVars, hostVars, histVars>>

-----------------------------------------------------------------------------
\* applyConfig.  Each step names where it leaves the operation.

Goto(label, result) ==
    /\ pc' = label
    /\ outcome' = result
    /\ UNCHANGED <<kind, target, snap, old>>

\* The generation, the port checks, the validation by "mihomo -t", the version
\* request or the first write fails: nothing has been replaced.
CheckFails ==
    /\ pc = "check"
    /\ Goto("end", "rejected")
    /\ UNCHANGED <<dbVars, fileVars, kernelVars, hostVars, histVars>>

\* Every check passes and config.yaml is replaced.  A port the previous file
\* does not open must not answer now.
Install ==
    /\ pc = "check"
    /\ ListenPorts(Candidate) \cap Reserved = {}
    /\ (ListenPorts(Candidate) \ ListenPorts(cfgFile)) \cap kbound = {}
    /\ kstate # "down"
    /\ old' = cfgFile
    /\ cfgFile' = Candidate
    /\ pc' = "reload"
    /\ UNCHANGED <<dbVars, goodFile, kernelVars, hostVars, histVars,
                   kind, target, snap, outcome>>

\* PUT /configs reads the file named.  The kernel may fail to bind a port and
\* may keep one it should close; the reply says nothing of either.
KernelLoads ==
    /\ kstate # "down"
    /\ kstate' = "reloaded"
    /\ kcfg' = cfgFile
    /\ kbound' \in SUBSET (ListenPorts(cfgFile) \cup kbound)

\* Mutant: the listeners are not verified after the reload.
ReloadIsEnough ==
    /\ pc = "reload"
    /\ KernelLoads
    /\ Goto("keep", "none")
    /\ UNCHANGED <<dbVars, fileVars, hostVars, histVars>>

\* Reload and restoreSelections succeed.
Reload ==
    /\ pc = "reload"
    /\ KernelLoads
    /\ Goto("verify", "none")
    /\ UNCHANGED <<dbVars, fileVars, hostVars, histVars>>

\* Reload or a selection fails, or its reply is lost: the kernel may or may not
\* have loaded the file.
ReloadFails ==
    /\ pc = "reload"
    /\ KernelLoads \/ UNCHANGED kernelVars
    /\ Goto("undo", "none")
    /\ UNCHANGED <<dbVars, fileVars, hostVars, histVars>>

\* Mutant: the ports to close are not looked at.
AnswersActive(active, removed) == kstate # "down" /\ active \subseteq kbound

\* What Verify establishes by connecting to the ports.
Answers(active, removed) ==
    /\ kstate # "down"
    /\ active \subseteq kbound
    /\ removed \cap kbound = {}

Verify ==
    /\ pc = "verify"
    /\ Answers(ListenPorts(Candidate), ListenPorts(old) \ ListenPorts(Candidate))
    /\ kstate' = "verified"
    /\ proven' = proven \cup {kcfg}
    /\ Goto("keep", "none")
    /\ UNCHANGED <<dbVars, fileVars, kcfg, kbound, hostVars, unrecorded>>

\* Mutant: Verify has no deadline.
VerifyWaits == FALSE

\* A port does not answer, or the context ends first.
VerifyFails ==
    /\ pc = "verify"
    /\ Goto("undo", "none")
    /\ UNCHANGED <<dbVars, fileVars, kernelVars, hostVars, histVars>>

KeepGood ==
    /\ pc = "keep"
    /\ goodFile' = Candidate
    /\ Goto("end", "applied")
    /\ UNCHANGED <<dbVars, cfgFile, kernelVars, hostVars, histVars>>

\* Mutant: an error of writing last-good.yaml is ignored.
KeepGoodUnchecked ==
    /\ pc = "keep"
    /\ Goto("end", "applied")
    /\ UNCHANGED <<dbVars, fileVars, kernelVars, hostVars, histVars>>

KeepGoodFails ==
    /\ pc = "keep"
    /\ Goto("undo", "none")
    /\ UNCHANGED <<dbVars, fileVars, kernelVars, hostVars, histVars>>

\* Recovery: the old file is written back, reloaded and verified; the first
\* step that fails ends it.
UndoWrite ==
    /\ pc = "undo"
    /\ cfgFile' = old
    /\ Goto("undoReload", "none")
    /\ UNCHANGED <<dbVars, goodFile, kernelVars, hostVars, histVars>>

UndoWriteFails ==
    /\ pc = "undo"
    /\ Goto("end", "broken")
    /\ UNCHANGED <<dbVars, fileVars, kernelVars, hostVars, histVars>>

UndoReload ==
    /\ pc = "undoReload"
    /\ KernelLoads
    /\ Goto("undoVerify", "none")
    /\ UNCHANGED <<dbVars, fileVars, hostVars, histVars>>

UndoReloadFails ==
    /\ pc = "undoReload"
    /\ KernelLoads \/ UNCHANGED kernelVars
    /\ Goto("end", "broken")
    /\ UNCHANGED <<dbVars, fileVars, hostVars, histVars>>

UndoVerify ==
    /\ pc = "undoVerify"
    /\ Answers(ListenPorts(old), ListenPorts(Candidate) \ ListenPorts(old))
    /\ kstate' = "verified"
    /\ proven' = proven \cup {kcfg}
    /\ Goto("end", "restored")
    /\ UNCHANGED <<dbVars, fileVars, kcfg, kbound, hostVars, unrecorded>>

UndoVerifyFails ==
    /\ pc = "undoVerify"
    /\ Goto("end", "broken")
    /\ UNCHANGED <<dbVars, fileVars, kernelVars, hostVars, histVars>>

-----------------------------------------------------------------------------
\* Leaving an operation: Manager.mu is released, the locals are gone.

Finish ==
    /\ pc' = "idle"
    /\ kind' = "none"
    /\ target' = EmptyConfig
    /\ snap' = 0
    /\ old' = EmptyConfig
    /\ outcome' = "none"

\* Mutant: the revision after the applied one is recorded.
RecordNext ==
    /\ pc = "end"
    /\ kind = "change"
    /\ IF outcome = "applied"
       THEN applied' = snap + 1 /\ lastError' = FALSE
       ELSE lastError' = TRUE /\ UNCHANGED applied
    /\ unrecorded' = FALSE
    /\ Finish
    /\ UNCHANGED <<doc, revision, fileVars, kernelVars, hostVars, proven>>

\* applyLocked: recordApply stores the revision of the snapshot, or the error.
Record ==
    /\ pc = "end"
    /\ kind = "change"
    /\ IF outcome = "applied"
       THEN applied' = snap /\ lastError' = FALSE
       ELSE lastError' = TRUE /\ UNCHANGED applied
    /\ unrecorded' = FALSE
    /\ Finish
    /\ UNCHANGED <<doc, revision, fileVars, kernelVars, hostVars, proven>>

\* The statement of recordApply fails: the caller is told, the row is not changed.
RecordFails ==
    /\ pc = "end"
    /\ kind = "change"
    /\ unrecorded' = TRUE
    /\ Finish
    /\ UNCHANGED <<dbVars, fileVars, kernelVars, hostVars, proven>>

\* Activate and accept return the error of applyConfig without recordApply.
PublishAborts ==
    /\ pc = "end"
    /\ kind = "publish"
    /\ outcome # "applied"
    /\ unrecorded' = (unrecorded \/ outcome = "broken")
    /\ Finish
    /\ UNCHANGED <<dbVars, fileVars, kernelVars, hostVars, proven>>

\* Mutant: a candidate that was rolled back is published.
PublishCommitsEarly ==
    /\ pc = "end"
    /\ kind = "publish"
    /\ outcome # "rejected"
    /\ doc' = target
    /\ revision' = revision + 1
    /\ pc' = "ack"
    /\ snap' = revision'
    /\ UNCHANGED <<applied, lastError, fileVars, kernelVars, hostVars, histVars,
                   kind, target, old, outcome>>

PublishCommits ==
    /\ pc = "end"
    /\ kind = "publish"
    /\ outcome = "applied"
    /\ doc' = target
    /\ revision' = revision + 1
    /\ pc' = "ack"
    /\ snap' = revision'
    /\ UNCHANGED <<applied, lastError, fileVars, kernelVars, hostVars, histVars,
                   kind, target, old, outcome>>

\* Mutant: a failed commit returns without applying the stored document again.
PublishCommitLost ==
    /\ pc = "end"
    /\ kind = "publish"
    /\ outcome = "applied"
    /\ Finish
    /\ UNCHANGED <<dbVars, fileVars, kernelVars, hostVars, histVars>>

\* The transaction fails: the stored document is applied again.
PublishCommitFails ==
    /\ pc = "end"
    /\ kind = "publish"
    /\ outcome = "applied"
    /\ Begin("reapply", doc, revision)
    /\ UNCHANGED <<dbVars, fileVars, kernelVars, hostVars, histVars>>

\* The result of applying it again is dropped ("_ = m.applyConfig").
ReapplyEnds ==
    /\ pc = "end"
    /\ kind = "reapply"
    /\ unrecorded' = (unrecorded \/ outcome # "applied")
    /\ Finish
    /\ UNCHANGED <<dbVars, fileVars, kernelVars, hostVars, proven>>

Acknowledge ==
    /\ pc = "ack"
    /\ applied' = snap
    /\ lastError' = FALSE
    /\ unrecorded' = FALSE
    /\ Finish
    /\ UNCHANGED <<doc, revision, fileVars, kernelVars, hostVars, proven>>

AcknowledgeFails ==
    /\ pc = "ack"
    /\ unrecorded' = TRUE
    /\ Finish
    /\ UNCHANGED <<dbVars, fileVars, kernelVars, hostVars, proven>>

-----------------------------------------------------------------------------
\* Processes.  Whatever stops the manager forgets the operation in flight.

Crash == crashes < MaxCrashes /\ crashes' = crashes + 1

ManagerStops ==
    /\ Crash
    /\ mstate = "up"
    /\ mstate' = "down"
    /\ startup' = FALSE
    /\ Finish
    /\ UNCHANGED <<dbVars, fileVars, kernelVars, histVars>>

\* Mutant: nothing is applied at startup.
ManagerStartsIdle ==
    /\ mstate = "down"
    /\ mstate' = "up"
    /\ UNCHANGED <<dbVars, fileVars, kernelVars, startup, crashes, opVars, histVars>>

\* supervisord starts the manager, without Bootstrap.
ManagerStarts ==
    /\ mstate = "down"
    /\ mstate' = "up"
    /\ startup' = TRUE
    /\ UNCHANGED <<dbVars, fileVars, kernelVars, crashes, opVars, histVars>>

KernelStops ==
    /\ Crash
    /\ kstate # "down"
    /\ kstate' = "down"
    /\ kbound' = {}
    /\ UNCHANGED <<dbVars, fileVars, kcfg, mstate, startup, opVars, histVars>>

\* supervisord starts the kernel on config.yaml, as the file is now.
KernelStarts ==
    /\ mstate \in {"down", "up"}
    /\ kstate = "down"
    /\ kstate' = "started"
    /\ kcfg' = cfgFile
    /\ kbound' \in SUBSET ListenPorts(cfgFile)
    /\ UNCHANGED <<dbVars, fileVars, hostVars, opVars, histVars>>

ContainerStops ==
    /\ Crash
    /\ mstate # "off"
    /\ mstate' = "off"
    /\ startup' = FALSE
    /\ kstate' = "down"
    /\ kbound' = {}
    /\ Finish
    /\ UNCHANGED <<dbVars, fileVars, kcfg, histVars>>

\* Mutant: the rule listeners of an older version are kept.
BootConfigAsIs == goodFile

\* Bootstrap, run by the entry point.  It takes last-good.yaml, retires the
\* rule listeners when no source is active, and keeps the retired file.
BootConfig == IF doc.source = NoSource THEN Retire(goodFile) ELSE goodFile

BootstrapKeepsGood ==
    /\ mstate = "off"
    /\ ListenPorts(BootConfig) \cap Reserved = {}
    /\ mstate' = "boot"
    /\ goodFile' = BootConfig
    /\ UNCHANGED <<dbVars, cfgFile, kernelVars, startup, crashes, opVars, histVars>>

BootstrapWritesConfig ==
    /\ mstate = "boot"
    /\ mstate' = "down"
    /\ cfgFile' = BootConfig
    /\ UNCHANGED <<dbVars, goodFile, kernelVars, startup, crashes, opVars, histVars>>

-----------------------------------------------------------------------------
ApplyStep ==
    \/ CheckFails \/ Install
    \/ Reload \/ ReloadFails
    \/ Verify \/ VerifyFails
    \/ KeepGood \/ KeepGoodFails
    \/ UndoWrite \/ UndoWriteFails
    \/ UndoReload \/ UndoReloadFails
    \/ UndoVerify \/ UndoVerifyFails

EndStep ==
    \/ Record \/ RecordFails
    \/ PublishAborts \/ PublishCommits \/ PublishCommitFails \/ ReapplyEnds
    \/ Acknowledge \/ AcknowledgeFails

Request == Change \/ Apply \/ Activate \/ AcceptActive

Supervise ==
    \/ ManagerStarts \/ KernelStarts
    \/ BootstrapKeepsGood \/ BootstrapWritesConfig

Stop == ManagerStops \/ KernelStops \/ ContainerStops

Next == Request \/ StartupApply \/ ApplyStep \/ EndStep \/ Supervise \/ Stop

Spec == Init /\ [][Next]_vars

\* The 45, 60 and 15 second contexts end every step of an operation, the
\* supervisor restarts what stopped, and the startup goroutine gets the mutex
\* in the end: a Go mutex hands itself to a waiter that has starved for 1 ms.
\* Nothing is assumed of the users, and nothing makes a step succeed.
Fairness ==
    /\ WF_vars(ApplyStep)
    /\ WF_vars(EndStep)
    /\ WF_vars(Supervise)
    /\ SF_vars(StartupApply)

FairSpec == Spec /\ Fairness

-----------------------------------------------------------------------------
(***************************************************************************)
(* Properties                                                              *)
(***************************************************************************)
Labels == {"idle", "check", "reload", "verify", "keep", "undo", "undoReload",
           "undoVerify", "end", "ack"}

\* Every variable stays in its type: the state of the database, of the two
\* files, of the kernel, of the processes and of the operation in flight.
TypeOK ==
    /\ doc \in Docs
    /\ revision \in 0..MaxRevision
    /\ applied \in -1..MaxRevision
    /\ lastError \in BOOLEAN
    /\ cfgFile \in Configs
    /\ goodFile \in Configs
    /\ kstate \in {"down", "started", "reloaded", "verified"}
    /\ kcfg \in Configs
    /\ kbound \in SUBSET Ports
    /\ mstate \in {"off", "boot", "down", "up"}
    /\ startup \in BOOLEAN
    /\ pc \in Labels
    /\ kind \in {"none", "change", "publish", "reapply"}
    /\ target \in Docs
    /\ snap \in 0..MaxRevision
    /\ old \in Configs
    /\ outcome \in {"none", "rejected", "applied", "restored", "broken"}
    /\ crashes \in 0..MaxCrashes
    /\ proven \in SUBSET Configs
    /\ unrecorded \in BOOLEAN

Acked == applied = revision /\ ~lastError

Idle == mstate = "up" /\ pc = "idle" /\ ~startup

\* Everything that runs or would run after a restart is the stored document.
Serving ==
    /\ cfgFile = Build(doc)
    /\ goodFile = Build(doc)
    /\ kcfg = Build(doc)
    /\ kstate # "reloaded"

\* While no operation is in flight, "applied" is said of the configuration the
\* kernel has and both files hold, unless the end of an operation could not be
\* or was not written to the database: no order of failures, rollbacks and
\* restarts of the three processes makes the label of applyLocked lie.
AckedIsServing == Idle /\ Acked /\ ~unrecorded => Serving

\* README.md:106 ("applied" means that the configuration is applied and its
\* listeners have started), asked of publications: from a state where the label
\* is true, a publication that ends, well or badly, and leaves the label up leaves
\* it true.
AppliedMeansServing ==
    [][kind = "publish" /\ pc' = "idle" /\ mstate' = "up" /\ ~startup
       /\ ~unrecorded /\ Acked'
       => ListenPorts(Build(doc')) \subseteq kbound' /\ kcfg' = Build(doc')]_vars

\* A configuration is called restored only when it is the one that config.yaml
\* held before, the kernel has loaded it, and no port of the rejected one is left
\* open (config.go: "the previous configuration was restored").
RestoredIsPrevious ==
    outcome = "restored" =>
        /\ cfgFile = old
        /\ kcfg = old
        /\ kstate = "verified" =>
              /\ ListenPorts(old) \subseteq kbound
              /\ (ListenPorts(Candidate) \ ListenPorts(old)) \cap kbound = {}

\* last-good.yaml always holds a configuration the kernel has proved to serve,
\* or what Bootstrap's retirement leaves of one: whatever is interrupted, the
\* next start of the container does not try an unproven candidate.
LastGoodIsProven ==
    goodFile \in proven \cup {Retire(c) : c \in proven}

\* The retired local scheme does not come back: after the first Bootstrap
\* neither config.yaml, nor the file a rollback would restore, nor the kernel
\* holds it, whatever fails later (config.go: "A later failed reload must not
\* restore the obsolete local scheme either").
LegacyStaysRetired ==
    mstate \in {"down", "up"} =>
        /\ cfgFile.source # Legacy
        /\ old.source # Legacy
        /\ goodFile.source # Legacy
        /\ kstate # "down" => kcfg.source # Legacy

\* A step that makes the database say "applied" (recordApply after a change,
\* or the acknowledgement of a publication) is taken only when both files hold
\* the stored document and the kernel has it, loaded and verified or restarted
\* from that file.
AckIsTruthful ==
    [][applied' # applied => Acked' /\ Serving']_vars

\* A committed change is always reconciled: it ends applied, or with an error
\* the user can read, or with a write of the state row that failed - through
\* rollbacks and restarts of manager, kernel and container.
ChangeIsReconciled ==
    (revision # applied) ~> (revision = applied \/ lastError \/ unrecorded)

\* Every operation releases Manager.mu, whatever the kernel does.
LockIsReleased == (pc # "idle") ~> (pc = "idle")

\* Without its files, kernel and rollbacks an operation is one of Publication.
PromiseOf == INSTANCE Publication WITH
    failed <- lastError, good <- goodFile,
    op <- [kind |-> IF pc = "ack" THEN "ack" ELSE kind, want |-> target],
    Blank <- EmptyConfig, Built <- Build, Retired <- Retire

\* What a user is promised of changes and publications (README.md:102-106):
\* each does one thing to the stored document, a publication stores it only once
\* last-good.yaml has it, "applied" is said only then, and whatever fails, is
\* rolled back or restarted in between looks like an operation given up.
Promise == PromiseOf!Spec
=============================================================================
