------------------------- MODULE ConfigApplyProofs -------------------------
(***************************************************************************)
(* Proofs about ConfigApply, for every set of sources, bodies and ports    *)
(* and every bound on revisions and crashes.                               *)
(*                                                                         *)
(* Typing is proved with the one fact it needs: a publication starts below *)
(* the bound on revisions and keeps the database as it was until its own   *)
(* commit.                                                                 *)
(***************************************************************************)
EXTENDS ConfigApply, TLAPS

USE DEF dbVars, fileVars, kernelVars, hostVars, opVars, histVars

\* The bound holds until a publication commits: nothing else writes meanwhile.
PublishBelowBound ==
    kind = "publish" /\ pc # "ack" => revision < MaxRevision

Typing == TypeOK /\ PublishBelowBound

\* What the configuration operators yield.
LEMMA ConfigTypes ==
    /\ EmptyConfig \in Configs /\ EmptyConfig \in Docs
    /\ \A d \in Docs : Build(d) \in Configs
    /\ \A c \in Configs : Retire(c) \in Configs
    /\ \A c \in Configs : ListenPorts(c) \subseteq Ports
  BY SourceAssumption, BodyAssumption
     DEF EmptyConfig, Configs, Docs, Build, Retire, ListenPorts

LEMMA TypingInit == Init => Typing
<1> SUFFICES ASSUME Init PROVE Typing
  OBVIOUS
<1>1. doc \in Docs /\ goodFile \in Configs
  <2>1. CASE goodFile \in {EmptyConfig, Build(doc)}
    BY <2>1, ConfigTypes DEF Init
  <2>2. CASE goodFile = [doc EXCEPT !.source = Legacy]
    BY <2>2, ConfigTypes DEF Init, Docs, Configs
  <2>3. QED
    BY <2>1, <2>2 DEF Init
<1>2. lastError \in BOOLEAN /\ startup \in BOOLEAN /\ unrecorded \in BOOLEAN
  BY Zenon DEF Init
<1>3. applied \in -1..MaxRevision /\ revision \in 0..MaxRevision
      /\ snap \in 0..MaxRevision /\ crashes \in 0..MaxCrashes
  BY BoundAssumption DEF Init
<1>4. cfgFile \in Configs /\ kcfg \in Configs /\ old \in Configs
      /\ target \in Docs /\ proven \in SUBSET Configs /\ kbound \in SUBSET Ports
  BY <1>1, ConfigTypes DEF Init
<1>5. QED
  BY <1>1, <1>2, <1>3, <1>4 DEF Init, Typing, TypeOK, PublishBelowBound, Labels

LEMMA TypingStep == Typing /\ [Next]_vars => Typing'
<1> SUFFICES ASSUME Typing, [Next]_vars PROVE Typing'
  OBVIOUS
<1> USE ConfigTypes, BoundAssumption DEF Typing, TypeOK, PublishBelowBound, Labels
<1>1. CASE Change
  BY <1>1 DEF Change, Begin, CanBegin, Docs
<1>2. CASE Apply
  BY <1>2 DEF Apply, Begin, CanBegin
<1>3. CASE StartupApply
  BY <1>3 DEF StartupApply, Begin, CanBegin
<1>4. CASE Activate
  BY <1>4 DEF Activate, Begin, CanBegin, Docs
<1>5. CASE AcceptActive
  BY <1>5 DEF AcceptActive, Begin, CanBegin, Docs
<1>6. CASE CheckFails
  BY <1>6 DEF CheckFails, Goto
<1>7. CASE Install
  BY <1>7 DEF Install, Candidate
<1>8. CASE Reload
  BY <1>8 DEF Reload, Goto, KernelLoads
<1>9. CASE ReloadFails
  BY <1>9 DEF ReloadFails, Goto, KernelLoads
<1>10. CASE Verify
  BY <1>10 DEF Verify, Goto, Answers
<1>11. CASE VerifyFails
  BY <1>11 DEF VerifyFails, Goto
<1>12. CASE KeepGood
  BY <1>12 DEF KeepGood, Goto, Candidate
<1>13. CASE KeepGoodFails
  BY <1>13 DEF KeepGoodFails, Goto
<1>14. CASE UndoWrite
  BY <1>14 DEF UndoWrite, Goto
<1>15. CASE UndoWriteFails
  BY <1>15 DEF UndoWriteFails, Goto
<1>16. CASE UndoReload
  BY <1>16 DEF UndoReload, Goto, KernelLoads
<1>17. CASE UndoReloadFails
  BY <1>17 DEF UndoReloadFails, Goto, KernelLoads
<1>18. CASE UndoVerify
  BY <1>18 DEF UndoVerify, Goto, Answers
<1>19. CASE UndoVerifyFails
  BY <1>19 DEF UndoVerifyFails, Goto
<1>20. CASE Record
  <2>1. /\ lastError' \in BOOLEAN /\ startup' \in BOOLEAN
        /\ unrecorded' \in BOOLEAN /\ mstate' \in {"off", "boot", "down", "up"}
    BY <1>20, Zenon DEF Record, Finish
  <2>2. /\ applied' \in -1..MaxRevision /\ snap' \in 0..MaxRevision
        /\ crashes' \in 0..MaxCrashes /\ PublishBelowBound'
    BY <1>20, SMT DEF Record, Finish
  <2>3. QED
    BY <1>20, <2>1, <2>2 DEF Record, Finish
<1>21. CASE RecordFails
  BY <1>21 DEF RecordFails, Finish
<1>22. CASE PublishAborts
  BY <1>22 DEF PublishAborts, Finish
<1>23. CASE PublishCommits
  BY <1>23 DEF PublishCommits
<1>24. CASE PublishCommitFails
  BY <1>24 DEF PublishCommitFails, Begin
<1>25. CASE ReapplyEnds
  BY <1>25 DEF ReapplyEnds, Finish
<1>26. CASE Acknowledge
  <2>1. /\ lastError' \in BOOLEAN /\ startup' \in BOOLEAN
        /\ unrecorded' \in BOOLEAN /\ mstate' \in {"off", "boot", "down", "up"}
    BY <1>26, Zenon DEF Acknowledge, Finish
  <2>2. /\ applied' \in -1..MaxRevision /\ snap' \in 0..MaxRevision
        /\ crashes' \in 0..MaxCrashes /\ PublishBelowBound'
    BY <1>26, SMT DEF Acknowledge, Finish
  <2>3. QED
    BY <1>26, <2>1, <2>2 DEF Acknowledge, Finish
<1>27. CASE AcknowledgeFails
  BY <1>27 DEF AcknowledgeFails, Finish
<1>28. CASE ManagerStarts
  BY <1>28 DEF ManagerStarts
<1>29. CASE KernelStarts
  BY <1>29 DEF KernelStarts
<1>30. CASE BootstrapKeepsGood
  BY <1>30 DEF BootstrapKeepsGood, BootConfig
<1>31. CASE BootstrapWritesConfig
  BY <1>31 DEF BootstrapWritesConfig, BootConfig
<1>32. CASE ManagerStops
  <2>1. /\ lastError' \in BOOLEAN /\ startup' \in BOOLEAN
        /\ unrecorded' \in BOOLEAN /\ mstate' \in {"off", "boot", "down", "up"}
    BY <1>32, Zenon DEF ManagerStops, Finish, Crash
  <2>2. /\ applied' \in -1..MaxRevision /\ snap' \in 0..MaxRevision
        /\ crashes' \in 0..MaxCrashes /\ PublishBelowBound'
    BY <1>32, SMT DEF ManagerStops, Finish, Crash
  <2>3. QED
    BY <1>32, <2>1, <2>2 DEF ManagerStops, Finish, Crash
<1>33. CASE KernelStops
  BY <1>33 DEF KernelStops, Crash
<1>34. CASE ContainerStops
  <2>1. /\ lastError' \in BOOLEAN /\ startup' \in BOOLEAN
        /\ unrecorded' \in BOOLEAN /\ mstate' \in {"off", "boot", "down", "up"}
    BY <1>34, Zenon DEF ContainerStops, Finish, Crash
  <2>2. /\ applied' \in -1..MaxRevision /\ snap' \in 0..MaxRevision
        /\ crashes' \in 0..MaxCrashes /\ PublishBelowBound'
    BY <1>34, SMT DEF ContainerStops, Finish, Crash
  <2>3. QED
    BY <1>34, <2>1, <2>2 DEF ContainerStops, Finish, Crash
<1>35. CASE UNCHANGED vars
  BY <1>35 DEF vars
<1>36. QED
  BY <1>1, <1>2, <1>3, <1>4, <1>5, <1>6, <1>7, <1>8, <1>9, <1>10, <1>11,
        <1>12, <1>13, <1>14, <1>15, <1>16, <1>17, <1>18, <1>19, <1>20,
        <1>21, <1>22, <1>23, <1>24, <1>25, <1>26, <1>27, <1>28, <1>29,
        <1>30, <1>31, <1>32, <1>33, <1>34, <1>35 DEF Next, Request,
       ApplyStep, EndStep, Supervise, Stop

\* Every variable stays in its type, whatever the instance.
THEOREM TypeCorrect == Spec => []TypeOK
<1>1. Typing => TypeOK
  BY DEF Typing
<1>2. QED
  BY <1>1, TypingInit, TypingStep, PTL DEF Spec

-----------------------------------------------------------------------------
(***************************************************************************)
(* The inductive invariant.  What an operation has established at each of  *)
(* its steps, so that its last one may say "applied":                      *)
(*   Locals       the mutex, the snapshot and the document agree;          *)
(*   Progress     which of the two files and the kernel hold the candidate *)
(*                or the previous configuration;                           *)
(*   LabelHolds   from where the database says "applied" truthfully, a     *)
(*                publication keeps what it needs to leave it truthful.    *)
(***************************************************************************)
Locals ==
    /\ applied <= revision
    /\ pc # "idle" => mstate = "up"
    /\ pc = "idle" <=> kind = "none"
    /\ pc \notin {"end", "ack"} => outcome = "none"
    /\ pc \in {"end", "ack"} => outcome # "none"
    /\ kind \in {"change", "reapply"} => target = doc
    /\ kind \in {"change", "reapply"} => pc # "ack"
    /\ kind = "change" => snap = revision
    /\ pc = "ack" => target = doc /\ snap = revision /\ outcome = "applied"

Progress ==
    /\ pc \in {"reload", "verify", "keep", "undo"} => cfgFile = Candidate
    /\ pc \in {"verify", "keep"} => kcfg = Candidate
    /\ pc = "keep" => kstate # "reloaded" /\ Candidate \in proven
    /\ pc \in {"undoReload", "undoVerify"} => cfgFile = old
    /\ pc = "undoVerify" => kcfg = old
    /\ outcome = "applied" =>
          cfgFile = Candidate /\ goodFile = Candidate /\ kcfg = Candidate
    /\ outcome = "restored" => cfgFile = old /\ kcfg = old
    /\ outcome \in {"applied", "restored"} => kstate # "reloaded"

Labelled == mstate = "up" /\ ~startup /\ Acked /\ ~unrecorded

LabelHolds ==
    Labelled =>
      /\ pc = "idle" => Serving
      /\ kind = "publish" /\ (pc = "check" \/ outcome = "rejected") => Serving
      /\ kind = "publish" /\ (outcome = "restored"
            \/ pc \in {"reload", "verify", "keep", "undo", "undoReload", "undoVerify"})
            => old = Build(doc) /\ goodFile = Build(doc)

Consistent == Typing /\ Locals /\ Progress /\ LabelHolds

LEMMA ConsistentInit == Init => Consistent
<1> SUFFICES ASSUME Init PROVE Consistent
  OBVIOUS
<1>1. Typing
  BY TypingInit
<1>2. Locals
  BY DEF Init, Locals
<1>3. Progress
  BY DEF Init, Progress
<1>4. LabelHolds
  BY DEF Init, LabelHolds, Labelled
<1>5. QED
  BY <1>1, <1>2, <1>3, <1>4 DEF Consistent

LEMMA LocalsStep == Typing /\ Locals /\ [Next]_vars => Locals'
<1> SUFFICES ASSUME Typing, Locals, [Next]_vars PROVE Locals'
  OBVIOUS
<1> USE DEF Typing, TypeOK, PublishBelowBound, Labels, Locals
<1>1. CASE Change
  BY <1>1 DEF Change, Begin, CanBegin
<1>2. CASE Apply
  BY <1>2 DEF Apply, Begin, CanBegin
<1>3. CASE StartupApply
  BY <1>3 DEF StartupApply, Begin, CanBegin
<1>4. CASE Activate
  BY <1>4 DEF Activate, Begin, CanBegin
<1>5. CASE AcceptActive
  BY <1>5 DEF AcceptActive, Begin, CanBegin
<1>6. CASE CheckFails
  BY <1>6 DEF CheckFails, Goto
<1>7. CASE Install
  BY <1>7 DEF Install
<1>8. CASE Reload
  BY <1>8 DEF Reload, Goto, KernelLoads
<1>9. CASE ReloadFails
  BY <1>9 DEF ReloadFails, Goto, KernelLoads
<1>10. CASE Verify
  BY <1>10 DEF Verify, Goto, Answers
<1>11. CASE VerifyFails
  BY <1>11 DEF VerifyFails, Goto
<1>12. CASE KeepGood
  BY <1>12 DEF KeepGood, Goto
<1>13. CASE KeepGoodFails
  BY <1>13 DEF KeepGoodFails, Goto
<1>14. CASE UndoWrite
  BY <1>14 DEF UndoWrite, Goto
<1>15. CASE UndoWriteFails
  BY <1>15 DEF UndoWriteFails, Goto
<1>16. CASE UndoReload
  BY <1>16 DEF UndoReload, Goto, KernelLoads
<1>17. CASE UndoReloadFails
  BY <1>17 DEF UndoReloadFails, Goto, KernelLoads
<1>18. CASE UndoVerify
  BY <1>18 DEF UndoVerify, Goto, Answers
<1>19. CASE UndoVerifyFails
  BY <1>19 DEF UndoVerifyFails, Goto
<1>20. CASE Record
  BY <1>20 DEF Record, Finish
<1>21. CASE RecordFails
  BY <1>21 DEF RecordFails, Finish
<1>22. CASE PublishAborts
  BY <1>22 DEF PublishAborts, Finish
<1>23. CASE PublishCommits
  BY <1>23 DEF PublishCommits
<1>24. CASE PublishCommitFails
  BY <1>24 DEF PublishCommitFails, Begin
<1>25. CASE ReapplyEnds
  BY <1>25 DEF ReapplyEnds, Finish
<1>26. CASE Acknowledge
  BY <1>26 DEF Acknowledge, Finish
<1>27. CASE AcknowledgeFails
  BY <1>27 DEF AcknowledgeFails, Finish
<1>28. CASE ManagerStarts
  BY <1>28 DEF ManagerStarts
<1>29. CASE KernelStarts
  BY <1>29 DEF KernelStarts
<1>30. CASE BootstrapKeepsGood
  BY <1>30 DEF BootstrapKeepsGood, BootConfig
<1>31. CASE BootstrapWritesConfig
  BY <1>31 DEF BootstrapWritesConfig, BootConfig
<1>32. CASE ManagerStops
  BY <1>32 DEF ManagerStops, Finish, Crash
<1>33. CASE KernelStops
  BY <1>33 DEF KernelStops, Crash
<1>34. CASE ContainerStops
  BY <1>34 DEF ContainerStops, Finish, Crash
<1>35. CASE UNCHANGED vars
  BY <1>35 DEF vars
<1>36. QED
  BY <1>1, <1>2, <1>3, <1>4, <1>5, <1>6, <1>7, <1>8, <1>9, <1>10, <1>11,
        <1>12, <1>13, <1>14, <1>15, <1>16, <1>17, <1>18, <1>19, <1>20,
        <1>21, <1>22, <1>23, <1>24, <1>25, <1>26, <1>27, <1>28, <1>29,
        <1>30, <1>31, <1>32, <1>33, <1>34, <1>35 DEF Next, Request,
       ApplyStep, EndStep, Supervise, Stop

LEMMA ProgressStep == Typing /\ Locals /\ Progress /\ [Next]_vars => Progress'
<1> SUFFICES ASSUME Typing, Locals, Progress, [Next]_vars PROVE Progress'
  OBVIOUS
<1> USE DEF Typing, TypeOK, Labels, Locals, Progress, Candidate
<1>1. CASE Change
  BY <1>1 DEF Change, Begin, CanBegin
<1>2. CASE Apply
  BY <1>2 DEF Apply, Begin, CanBegin
<1>3. CASE StartupApply
  BY <1>3 DEF StartupApply, Begin, CanBegin
<1>4. CASE Activate
  BY <1>4 DEF Activate, Begin, CanBegin
<1>5. CASE AcceptActive
  BY <1>5 DEF AcceptActive, Begin, CanBegin
<1>6. CASE CheckFails
  BY <1>6 DEF CheckFails, Goto
<1>7. CASE Install
  BY <1>7 DEF Install
<1>8. CASE Reload
  BY <1>8 DEF Reload, Goto, KernelLoads
<1>9. CASE ReloadFails
  BY <1>9 DEF ReloadFails, Goto, KernelLoads
<1>10. CASE Verify
  BY <1>10 DEF Verify, Goto, Answers
<1>11. CASE VerifyFails
  BY <1>11 DEF VerifyFails, Goto
<1>12. CASE KeepGood
  BY <1>12 DEF KeepGood, Goto
<1>13. CASE KeepGoodFails
  BY <1>13 DEF KeepGoodFails, Goto
<1>14. CASE UndoWrite
  BY <1>14 DEF UndoWrite, Goto
<1>15. CASE UndoWriteFails
  BY <1>15 DEF UndoWriteFails, Goto
<1>16. CASE UndoReload
  BY <1>16 DEF UndoReload, Goto, KernelLoads
<1>17. CASE UndoReloadFails
  BY <1>17 DEF UndoReloadFails, Goto, KernelLoads
<1>18. CASE UndoVerify
  BY <1>18 DEF UndoVerify, Goto, Answers
<1>19. CASE UndoVerifyFails
  BY <1>19 DEF UndoVerifyFails, Goto
<1>20. CASE Record
  BY <1>20 DEF Record, Finish
<1>21. CASE RecordFails
  BY <1>21 DEF RecordFails, Finish
<1>22. CASE PublishAborts
  BY <1>22 DEF PublishAborts, Finish
<1>23. CASE PublishCommits
  BY <1>23 DEF PublishCommits
<1>24. CASE PublishCommitFails
  BY <1>24 DEF PublishCommitFails, Begin
<1>25. CASE ReapplyEnds
  BY <1>25 DEF ReapplyEnds, Finish
<1>26. CASE Acknowledge
  BY <1>26 DEF Acknowledge, Finish
<1>27. CASE AcknowledgeFails
  BY <1>27 DEF AcknowledgeFails, Finish
<1>28. CASE ManagerStarts
  BY <1>28 DEF ManagerStarts
<1>29. CASE KernelStarts
  BY <1>29 DEF KernelStarts
<1>30. CASE BootstrapKeepsGood
  BY <1>30 DEF BootstrapKeepsGood, BootConfig
<1>31. CASE BootstrapWritesConfig
  BY <1>31 DEF BootstrapWritesConfig, BootConfig
<1>32. CASE ManagerStops
  BY <1>32 DEF ManagerStops, Finish, Crash
<1>33. CASE KernelStops
  BY <1>33 DEF KernelStops, Crash
<1>34. CASE ContainerStops
  BY <1>34 DEF ContainerStops, Finish, Crash
<1>35. CASE UNCHANGED vars
  BY <1>35 DEF vars
<1>36. QED
  BY <1>1, <1>2, <1>3, <1>4, <1>5, <1>6, <1>7, <1>8, <1>9, <1>10, <1>11,
        <1>12, <1>13, <1>14, <1>15, <1>16, <1>17, <1>18, <1>19, <1>20,
        <1>21, <1>22, <1>23, <1>24, <1>25, <1>26, <1>27, <1>28, <1>29,
        <1>30, <1>31, <1>32, <1>33, <1>34, <1>35 DEF Next, Request,
       ApplyStep, EndStep, Supervise, Stop

LEMMA LabelStep == Consistent /\ [Next]_vars => LabelHolds'
<1> SUFFICES ASSUME Consistent, [Next]_vars PROVE LabelHolds'
  OBVIOUS
<1> USE DEF Consistent, Typing, TypeOK, Labels, Locals, Progress, LabelHolds,
            Labelled, Acked, Serving, Candidate
<1>1. CASE Change
  BY <1>1 DEF Change, Begin, CanBegin
<1>2. CASE Apply
  BY <1>2 DEF Apply, Begin, CanBegin
<1>3. CASE StartupApply
  BY <1>3 DEF StartupApply, Begin, CanBegin
<1>4. CASE Activate
  BY <1>4 DEF Activate, Begin, CanBegin
<1>5. CASE AcceptActive
  BY <1>5 DEF AcceptActive, Begin, CanBegin
<1>6. CASE CheckFails
  BY <1>6 DEF CheckFails, Goto
<1>7. CASE Install
  BY <1>7 DEF Install
<1>8. CASE Reload
  BY <1>8 DEF Reload, Goto, KernelLoads
<1>9. CASE ReloadFails
  BY <1>9 DEF ReloadFails, Goto, KernelLoads
<1>10. CASE Verify
  BY <1>10 DEF Verify, Goto, Answers
<1>11. CASE VerifyFails
  BY <1>11 DEF VerifyFails, Goto
<1>12. CASE KeepGood
  BY <1>12 DEF KeepGood, Goto
<1>13. CASE KeepGoodFails
  BY <1>13 DEF KeepGoodFails, Goto
<1>14. CASE UndoWrite
  BY <1>14 DEF UndoWrite, Goto
<1>15. CASE UndoWriteFails
  BY <1>15 DEF UndoWriteFails, Goto
<1>16. CASE UndoReload
  BY <1>16 DEF UndoReload, Goto, KernelLoads
<1>17. CASE UndoReloadFails
  BY <1>17 DEF UndoReloadFails, Goto, KernelLoads
<1>18. CASE UndoVerify
  BY <1>18 DEF UndoVerify, Goto, Answers
<1>19. CASE UndoVerifyFails
  BY <1>19 DEF UndoVerifyFails, Goto
<1>20. CASE Record
  BY <1>20 DEF Record, Finish
<1>21. CASE RecordFails
  BY <1>21 DEF RecordFails, Finish
<1>22. CASE PublishAborts
  BY <1>22 DEF PublishAborts, Finish
<1>23. CASE PublishCommits
  BY <1>23 DEF PublishCommits
<1>24. CASE PublishCommitFails
  BY <1>24 DEF PublishCommitFails, Begin
<1>25. CASE ReapplyEnds
  BY <1>25 DEF ReapplyEnds, Finish
<1>26. CASE Acknowledge
  BY <1>26 DEF Acknowledge, Finish
<1>27. CASE AcknowledgeFails
  BY <1>27 DEF AcknowledgeFails, Finish
<1>28. CASE ManagerStarts
  BY <1>28 DEF ManagerStarts
<1>29. CASE KernelStarts
  BY <1>29 DEF KernelStarts
<1>30. CASE BootstrapKeepsGood
  BY <1>30 DEF BootstrapKeepsGood, BootConfig
<1>31. CASE BootstrapWritesConfig
  BY <1>31 DEF BootstrapWritesConfig, BootConfig
<1>32. CASE ManagerStops
  BY <1>32 DEF ManagerStops, Finish, Crash
<1>33. CASE KernelStops
  BY <1>33 DEF KernelStops, Crash
<1>34. CASE ContainerStops
  BY <1>34 DEF ContainerStops, Finish, Crash
<1>35. CASE UNCHANGED vars
  BY <1>35 DEF vars
<1>36. QED
  BY <1>1, <1>2, <1>3, <1>4, <1>5, <1>6, <1>7, <1>8, <1>9, <1>10, <1>11,
        <1>12, <1>13, <1>14, <1>15, <1>16, <1>17, <1>18, <1>19, <1>20,
        <1>21, <1>22, <1>23, <1>24, <1>25, <1>26, <1>27, <1>28, <1>29,
        <1>30, <1>31, <1>32, <1>33, <1>34, <1>35 DEF Next, Request,
       ApplyStep, EndStep, Supervise, Stop

LEMMA ConsistentStep == Consistent /\ [Next]_vars => Consistent'
  BY TypingStep, LocalsStep, ProgressStep, LabelStep DEF Consistent

LEMMA AlwaysConsistent == Spec => []Consistent
  BY ConsistentInit, ConsistentStep, PTL DEF Spec

\* While no operation is in flight, "applied" is said only of the configuration
\* the kernel has and both files hold (applyLocked, accept, Activate), unless
\* the end of an operation is missing from the database.
THEOREM LabelIsTrue == Spec => []AckedIsServing
<1>1. Consistent => AckedIsServing
  BY DEF Consistent, LabelHolds, Labelled, AckedIsServing, Idle
<1>2. QED
  BY <1>1, AlwaysConsistent, PTL

\* The steps that record an applied revision.
LEMMA AckStep == Consistent /\ [Next]_vars => (applied' # applied => Acked' /\ Serving')
<1> SUFFICES ASSUME Consistent, [Next]_vars, applied' # applied
             PROVE  Acked' /\ Serving'
  OBVIOUS
<1> USE DEF Consistent, Typing, TypeOK, Labels, Locals, Progress, Acked, Serving,
            Candidate
<1>1. Record \/ Acknowledge
  BY DEF Next, Request, ApplyStep, EndStep, Supervise, Stop, vars,
         Change, Apply, StartupApply, Activate, AcceptActive,
         CheckFails, Install, Reload, ReloadFails, Verify,
         VerifyFails, KeepGood, KeepGoodFails, UndoWrite,
         UndoWriteFails, UndoReload, UndoReloadFails, UndoVerify,
         UndoVerifyFails, RecordFails, PublishAborts, PublishCommits,
         PublishCommitFails, ReapplyEnds, AcknowledgeFails,
         ManagerStarts, KernelStarts, BootstrapKeepsGood,
         BootstrapWritesConfig, ManagerStops, KernelStops,
         ContainerStops
<1>2. CASE Record
  BY <1>2 DEF Record, Finish
<1>3. CASE Acknowledge
  BY <1>3 DEF Acknowledge, Finish
<1>4. QED
  BY <1>1, <1>2, <1>3

\* recordApply stores a revision as applied only when both files hold the stored
\* document of that revision and the kernel has it.
THEOREM AcknowledgementIsTruthful == Spec => AckIsTruthful
<1>1. Consistent /\ Consistent' /\ [Next]_vars
        => [applied' # applied => Acked' /\ Serving']_vars
  BY AckStep
<1>2. QED
  BY <1>1, AlwaysConsistent, PTL DEF Spec, AckIsTruthful

-----------------------------------------------------------------------------
\* Retiring twice is retiring once.
LEMMA RetireTwice == \A c \in Configs : Retire(Retire(c)) = Retire(c)
  BY DEF Configs, Retire

LEMMA LastGoodStep == Consistent /\ LastGoodIsProven /\ [Next]_vars => LastGoodIsProven'
<1> SUFFICES ASSUME Consistent, LastGoodIsProven, [Next]_vars
             PROVE  LastGoodIsProven'
  OBVIOUS
<1> USE DEF Consistent, Typing, TypeOK, Progress, LastGoodIsProven
<1>1. CASE KeepGood
  BY <1>1 DEF KeepGood, Goto
<1>2. CASE BootstrapKeepsGood
  BY <1>2, RetireTwice DEF BootstrapKeepsGood, BootConfig
<1>3. CASE Verify \/ UndoVerify
  BY <1>3 DEF Verify, UndoVerify, Goto
<1>4. CASE UNCHANGED <<goodFile, proven>>
  BY <1>4
<1>5. QED
  BY <1>1, <1>2, <1>3, <1>4
     DEF Next, Request, ApplyStep, EndStep, Supervise, Stop, vars,
         Change, Apply, StartupApply, Activate, AcceptActive,
         CheckFails, Install, Reload, ReloadFails, VerifyFails,
         KeepGoodFails, UndoWrite, UndoWriteFails, UndoReload,
         UndoReloadFails, UndoVerifyFails, Record, RecordFails,
         PublishAborts, PublishCommits, PublishCommitFails,
         ReapplyEnds, Acknowledge, AcknowledgeFails, ManagerStarts,
         KernelStarts, BootstrapWritesConfig, ManagerStops,
         KernelStops, ContainerStops, Goto, KernelLoads

\* last-good.yaml holds a configuration the kernel has passed Verify with, or
\* what Bootstrap leaves of one: no interruption lets a candidate in.
THEOREM LastGoodAlwaysProven == Spec => []LastGoodIsProven
<1>1. Init => LastGoodIsProven
  BY DEF Init, LastGoodIsProven
<1>2. QED
  BY <1>1, LastGoodStep, AlwaysConsistent, PTL DEF Spec

-----------------------------------------------------------------------------
\* What keeps the ports of a restored configuration: nothing touches the kernel
\* between UndoVerify and the end of the operation but its own stop.
LEMMA RestoredStep == Consistent /\ RestoredIsPrevious /\ [Next]_vars => RestoredIsPrevious'
<1> SUFFICES ASSUME Consistent, RestoredIsPrevious, [Next]_vars
             PROVE  RestoredIsPrevious'
  OBVIOUS
<1> USE DEF Consistent, Typing, TypeOK, Labels, Locals, Progress, RestoredIsPrevious,
            Candidate
<1>1. CASE Change
  BY <1>1 DEF Change, Begin, CanBegin
<1>2. CASE Apply
  BY <1>2 DEF Apply, Begin, CanBegin
<1>3. CASE StartupApply
  BY <1>3 DEF StartupApply, Begin, CanBegin
<1>4. CASE Activate
  BY <1>4 DEF Activate, Begin, CanBegin
<1>5. CASE AcceptActive
  BY <1>5 DEF AcceptActive, Begin, CanBegin
<1>6. CASE CheckFails
  BY <1>6 DEF CheckFails, Goto
<1>7. CASE Install
  BY <1>7 DEF Install
<1>8. CASE Reload
  BY <1>8 DEF Reload, Goto, KernelLoads
<1>9. CASE ReloadFails
  BY <1>9 DEF ReloadFails, Goto, KernelLoads
<1>10. CASE Verify
  BY <1>10 DEF Verify, Goto, Answers
<1>11. CASE VerifyFails
  BY <1>11 DEF VerifyFails, Goto
<1>12. CASE KeepGood
  BY <1>12 DEF KeepGood, Goto
<1>13. CASE KeepGoodFails
  BY <1>13 DEF KeepGoodFails, Goto
<1>14. CASE UndoWrite
  BY <1>14 DEF UndoWrite, Goto
<1>15. CASE UndoWriteFails
  BY <1>15 DEF UndoWriteFails, Goto
<1>16. CASE UndoReload
  BY <1>16 DEF UndoReload, Goto, KernelLoads
<1>17. CASE UndoReloadFails
  BY <1>17 DEF UndoReloadFails, Goto, KernelLoads
<1>18. CASE UndoVerify
  BY <1>18 DEF UndoVerify, Goto, Answers
<1>19. CASE UndoVerifyFails
  BY <1>19 DEF UndoVerifyFails, Goto
<1>20. CASE Record
  BY <1>20 DEF Record, Finish
<1>21. CASE RecordFails
  BY <1>21 DEF RecordFails, Finish
<1>22. CASE PublishAborts
  BY <1>22 DEF PublishAborts, Finish
<1>23. CASE PublishCommits
  BY <1>23 DEF PublishCommits
<1>24. CASE PublishCommitFails
  BY <1>24 DEF PublishCommitFails, Begin
<1>25. CASE ReapplyEnds
  BY <1>25 DEF ReapplyEnds, Finish
<1>26. CASE Acknowledge
  BY <1>26 DEF Acknowledge, Finish
<1>27. CASE AcknowledgeFails
  BY <1>27 DEF AcknowledgeFails, Finish
<1>28. CASE ManagerStarts
  BY <1>28 DEF ManagerStarts
<1>29. CASE KernelStarts
  BY <1>29 DEF KernelStarts
<1>30. CASE BootstrapKeepsGood
  BY <1>30 DEF BootstrapKeepsGood, BootConfig
<1>31. CASE BootstrapWritesConfig
  BY <1>31 DEF BootstrapWritesConfig, BootConfig
<1>32. CASE ManagerStops
  BY <1>32 DEF ManagerStops, Finish, Crash
<1>33. CASE KernelStops
  BY <1>33 DEF KernelStops, Crash
<1>34. CASE ContainerStops
  BY <1>34 DEF ContainerStops, Finish, Crash
<1>35. CASE UNCHANGED vars
  BY <1>35 DEF vars
<1>36. QED
  BY <1>1, <1>2, <1>3, <1>4, <1>5, <1>6, <1>7, <1>8, <1>9, <1>10, <1>11,
        <1>12, <1>13, <1>14, <1>15, <1>16, <1>17, <1>18, <1>19, <1>20,
        <1>21, <1>22, <1>23, <1>24, <1>25, <1>26, <1>27, <1>28, <1>29,
        <1>30, <1>31, <1>32, <1>33, <1>34, <1>35 DEF Next, Request,
       ApplyStep, EndStep, Supervise, Stop

\* "Restored" is said only of the configuration that ran before, on its ports.
THEOREM RestoredIsAlwaysPrevious == Spec => []RestoredIsPrevious
<1>1. Init => RestoredIsPrevious
  BY DEF Init, RestoredIsPrevious
<1>2. QED
  BY <1>1, RestoredStep, AlwaysConsistent, PTL DEF Spec

-----------------------------------------------------------------------------
\* Where the retired scheme can still be: in the files of a container that has
\* not run Bootstrap, whose database names no source.
RetiredScheme ==
    /\ goodFile.source = Legacy => mstate = "off" /\ doc.source = NoSource
    /\ cfgFile.source = Legacy => mstate \in {"off", "boot"}
    /\ kstate # "down" => mstate \in {"down", "up"} /\ kcfg.source # Legacy
    /\ old.source # Legacy

LEMMA NotLegacy ==
    /\ \A d \in Docs : Build(d).source # Legacy
    /\ \A c \in Configs : Retire(c).source # Legacy
    /\ EmptyConfig.source # Legacy
  BY SourceAssumption DEF Docs, Configs, Build, Retire, EmptyConfig

LEMMA RetiredSchemeStep ==
    Consistent /\ RetiredScheme /\ [Next]_vars => RetiredScheme'
<1> SUFFICES ASSUME Consistent, RetiredScheme, [Next]_vars
             PROVE  RetiredScheme'
  OBVIOUS
<1> USE NotLegacy DEF Consistent, Typing, TypeOK, Labels, Locals, RetiredScheme,
                      Candidate, Docs
<1>1. CASE Change
  BY <1>1 DEF Change, Begin, CanBegin
<1>2. CASE Apply
  BY <1>2 DEF Apply, Begin, CanBegin
<1>3. CASE StartupApply
  BY <1>3 DEF StartupApply, Begin, CanBegin
<1>4. CASE Activate
  BY <1>4 DEF Activate, Begin, CanBegin
<1>5. CASE AcceptActive
  BY <1>5 DEF AcceptActive, Begin, CanBegin
<1>6. CASE CheckFails
  BY <1>6 DEF CheckFails, Goto
<1>7. CASE Install
  BY <1>7 DEF Install
<1>8. CASE Reload
  BY <1>8 DEF Reload, Goto, KernelLoads
<1>9. CASE ReloadFails
  BY <1>9 DEF ReloadFails, Goto, KernelLoads
<1>10. CASE Verify
  BY <1>10 DEF Verify, Goto, Answers
<1>11. CASE VerifyFails
  BY <1>11 DEF VerifyFails, Goto
<1>12. CASE KeepGood
  BY <1>12 DEF KeepGood, Goto
<1>13. CASE KeepGoodFails
  BY <1>13 DEF KeepGoodFails, Goto
<1>14. CASE UndoWrite
  BY <1>14 DEF UndoWrite, Goto
<1>15. CASE UndoWriteFails
  BY <1>15 DEF UndoWriteFails, Goto
<1>16. CASE UndoReload
  BY <1>16 DEF UndoReload, Goto, KernelLoads
<1>17. CASE UndoReloadFails
  BY <1>17 DEF UndoReloadFails, Goto, KernelLoads
<1>18. CASE UndoVerify
  BY <1>18 DEF UndoVerify, Goto, Answers
<1>19. CASE UndoVerifyFails
  BY <1>19 DEF UndoVerifyFails, Goto
<1>20. CASE Record
  BY <1>20 DEF Record, Finish
<1>21. CASE RecordFails
  BY <1>21 DEF RecordFails, Finish
<1>22. CASE PublishAborts
  BY <1>22 DEF PublishAborts, Finish
<1>23. CASE PublishCommits
  BY <1>23 DEF PublishCommits
<1>24. CASE PublishCommitFails
  BY <1>24 DEF PublishCommitFails, Begin
<1>25. CASE ReapplyEnds
  BY <1>25 DEF ReapplyEnds, Finish
<1>26. CASE Acknowledge
  BY <1>26 DEF Acknowledge, Finish
<1>27. CASE AcknowledgeFails
  BY <1>27 DEF AcknowledgeFails, Finish
<1>28. CASE ManagerStarts
  BY <1>28 DEF ManagerStarts
<1>29. CASE KernelStarts
  BY <1>29 DEF KernelStarts
<1>30. CASE BootstrapKeepsGood
  BY <1>30 DEF BootstrapKeepsGood, BootConfig
<1>31. CASE BootstrapWritesConfig
  BY <1>31 DEF BootstrapWritesConfig, BootConfig
<1>32. CASE ManagerStops
  BY <1>32 DEF ManagerStops, Finish, Crash
<1>33. CASE KernelStops
  BY <1>33 DEF KernelStops, Crash
<1>34. CASE ContainerStops
  BY <1>34 DEF ContainerStops, Finish, Crash
<1>35. CASE UNCHANGED vars
  BY <1>35 DEF vars
<1>36. QED
  BY <1>1, <1>2, <1>3, <1>4, <1>5, <1>6, <1>7, <1>8, <1>9, <1>10, <1>11,
        <1>12, <1>13, <1>14, <1>15, <1>16, <1>17, <1>18, <1>19, <1>20,
        <1>21, <1>22, <1>23, <1>24, <1>25, <1>26, <1>27, <1>28, <1>29,
        <1>30, <1>31, <1>32, <1>33, <1>34, <1>35 DEF Next, Request,
       ApplyStep, EndStep, Supervise, Stop

\* After the first Bootstrap the retired local scheme is in neither file, nor in
\* what a rollback restores, nor in the kernel.
THEOREM LegacyNeverReturns == Spec => []LegacyStaysRetired
<1>1. Init => RetiredScheme
  BY NotLegacy, SourceAssumption DEF Init, RetiredScheme
<1>2. RetiredScheme => LegacyStaysRetired
  BY DEF RetiredScheme, LegacyStaysRetired
<1>3. QED
  BY <1>1, <1>2, RetiredSchemeStep, AlwaysConsistent, PTL DEF Spec
=============================================================================
