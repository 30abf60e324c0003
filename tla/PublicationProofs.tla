-------------------------- MODULE PublicationProofs -------------------------
(***************************************************************************)
(* ConfigApply implements Publication, for every set of sources, bodies    *)
(* and ports and every bound.  An operation shows as one that wants its    *)
(* target; of its steps the write of last-good.yaml is the abstract Keep,  *)
(* and what ends it is Settle, Commit, Withdraw, Acknowledge or Leave.     *)
(* Everything else - the checks, the reload, the verification, a rollback, *)
(* the kernel and the manager stopping while idle - changes nothing that   *)
(* Publication sees.  What the mapping needs of the reachable states is    *)
(* Consistent: "applied" is the outcome only of a candidate that           *)
(* last-good.yaml holds, and a change works on the stored document.        *)
(***************************************************************************)
EXTENDS ConfigApplyProofs

USE DEF dbVars, fileVars, kernelVars, hostVars, opVars, histVars

\* The operation as Publication sees it.
Seen == [kind |-> IF pc = "ack" THEN "ack" ELSE kind, want |-> target]

LEMMA InitImplements == Init => PromiseOf!Init
<1> SUFFICES ASSUME Init PROVE PromiseOf!Init
  OBVIOUS
<1>1. doc \in PromiseOf!Docs
  BY DEF Init, Docs, PromiseOf!Docs
<1>2. applied \in {-1, 0} /\ revision = 0 /\ lastError = FALSE
  BY DEF Init
<1>3. Seen = [kind |-> "none", want |-> EmptyConfig]
  BY DEF Init, Seen
<1>4. QED
  BY <1>1, <1>2, <1>3 DEF PromiseOf!Init, Seen

\* An idle manager works towards nothing.
NothingWanted == pc = "idle" => target = EmptyConfig

LEMMA NothingWantedStep == Locals /\ NothingWanted /\ [Next]_vars => NothingWanted'
<1> SUFFICES ASSUME Locals, NothingWanted, [Next]_vars PROVE NothingWanted'
  OBVIOUS
<1> USE DEF Locals, NothingWanted
<1>1. CASE Request
  BY <1>1 DEF Request, Change, Apply, Activate, AcceptActive, Begin
<1>2. CASE StartupApply
  BY <1>2 DEF StartupApply, Begin
<1>3. CASE ApplyStep
  BY <1>3 DEF ApplyStep, CheckFails, Install, Reload, ReloadFails, Verify,
     VerifyFails, KeepGood, KeepGoodFails, UndoWrite, UndoWriteFails,
     UndoReload, UndoReloadFails, UndoVerify, UndoVerifyFails, Goto
<1>4. CASE EndStep
  BY <1>4 DEF EndStep, Record, RecordFails, PublishAborts, PublishCommits,
     PublishCommitFails, ReapplyEnds, Acknowledge, AcknowledgeFails, Begin, Finish
<1>5. CASE Supervise
  BY <1>5 DEF Supervise, ManagerStarts, KernelStarts, BootstrapKeepsGood,
     BootstrapWritesConfig
<1>6. CASE Stop
  BY <1>6 DEF Stop, ManagerStops, KernelStops, ContainerStops, Finish
<1>7. CASE UNCHANGED vars
  BY <1>7 DEF vars
<1>8. QED
  BY <1>1, <1>2, <1>3, <1>4, <1>5, <1>6, <1>7 DEF Next

\* A step that changes neither the document, nor what is said of it, nor
\* last-good.yaml, nor the operation, changes nothing that Publication sees.
LEMMA Silent ==
    ASSUME UNCHANGED <<dbVars, goodFile, kind, target>>,
           (pc = "ack") = (pc' = "ack")
    PROVE  UNCHANGED PromiseOf!vars
  BY DEF PromiseOf!vars

\* An operation that ends with nothing done but its outcome said, or is forgotten.
LEMMA Leaves ==
    ASSUME UNCHANGED <<dbVars, goodFile>>, kind # "none", Finish
    PROVE  PromiseOf!Leave
  BY DEF Finish, PromiseOf!Leave, PromiseOf!Idle, PromiseOf!Ends, PromiseOf!Does

LEMMA StepImplements ==
    Consistent /\ NothingWanted /\ [Next]_vars => [PromiseOf!Next]_(PromiseOf!vars)
<1> SUFFICES ASSUME Consistent, NothingWanted, [Next]_vars
             PROVE  [PromiseOf!Next]_(PromiseOf!vars)
  OBVIOUS
<1> USE DEF Consistent, Locals
<1>1. CASE Change
  <2>1. PICK b \in Bodies : doc' = [doc EXCEPT !.body = b]
    BY <1>1 DEF Change
  <2>2. doc' \in PromiseOf!Docs /\ doc'.source = doc.source
    BY <2>1 DEF Typing, TypeOK, Docs, PromiseOf!Docs
  <2>3. PromiseOf!Change
    BY <1>1, <2>2 DEF Change, CanBegin, Begin, PromiseOf!Change,
       PromiseOf!Idle, PromiseOf!Does
  <2>4. QED
    BY <2>3 DEF PromiseOf!Next
<1>2. CASE Apply
  <2>1. PromiseOf!Apply
    BY <1>2 DEF Apply, CanBegin, Begin, PromiseOf!Apply, PromiseOf!Idle,
       PromiseOf!Does
  <2>2. QED
    BY <2>1 DEF PromiseOf!Next
<1>3. CASE StartupApply
  <2>1. PromiseOf!Apply
    BY <1>3 DEF StartupApply, CanBegin, Begin, PromiseOf!Apply, PromiseOf!Idle,
       PromiseOf!Does
  <2>2. QED
    BY <2>1 DEF PromiseOf!Next
<1>4. CASE Activate
  <2>1. PICK s \in (Sources \cup {NoSource}) \ {doc.source} :
           Begin("publish", [doc EXCEPT !.source = s], revision)
    BY <1>4 DEF Activate
  <2> DEFINE d == [doc EXCEPT !.source = s]
  <2>2. d \in PromiseOf!Docs /\ d.source # doc.source /\ d.body = doc.body
    BY <2>1 DEF Typing, TypeOK, Docs, PromiseOf!Docs
  <2>3. PromiseOf!Does("publish", d) /\ PromiseOf!Idle
    BY <1>4, <2>1 DEF Activate, CanBegin, Begin, PromiseOf!Idle, PromiseOf!Does
  <2>4. PromiseOf!Publish
    BY <1>4, <2>2, <2>3 DEF Activate, PromiseOf!Publish
  <2>5. QED
    BY <2>4 DEF PromiseOf!Next
<1>5. CASE AcceptActive
  <2>1. PICK b \in Bodies : Begin("publish", [doc EXCEPT !.body = b], revision)
    BY <1>5 DEF AcceptActive
  <2> DEFINE d == [doc EXCEPT !.body = b]
  <2>2. d \in PromiseOf!Docs /\ d.source = doc.source
    BY <2>1 DEF Typing, TypeOK, Docs, PromiseOf!Docs
  <2>3. PromiseOf!Does("publish", d) /\ PromiseOf!Idle
    BY <1>5, <2>1 DEF AcceptActive, CanBegin, Begin, PromiseOf!Idle, PromiseOf!Does
  <2>4. PromiseOf!Publish
    BY <1>5, <2>2, <2>3 DEF AcceptActive, PromiseOf!Publish
  <2>5. QED
    BY <2>4 DEF PromiseOf!Next
<1>6. CASE CheckFails
  BY <1>6, Silent DEF CheckFails, Goto
<1>7. CASE Install
  BY <1>7, Silent DEF Install
<1>8. CASE Reload
  BY <1>8, Silent DEF Reload, Goto
<1>9. CASE ReloadFails
  BY <1>9, Silent DEF ReloadFails, Goto
<1>10. CASE Verify
  BY <1>10, Silent DEF Verify, Goto
<1>11. CASE VerifyFails
  BY <1>11, Silent DEF VerifyFails, Goto
<1>12. CASE KeepGood
  <2>1. kind \in {"change", "publish", "reapply"}
    BY <1>12 DEF KeepGood, Typing, TypeOK
  <2>2. PromiseOf!Keep
    BY <1>12, <2>1 DEF KeepGood, Goto, Candidate, PromiseOf!Keep
  <2>3. QED
    BY <2>2 DEF PromiseOf!Next
<1>13. CASE KeepGoodFails
  BY <1>13, Silent DEF KeepGoodFails, Goto
<1>14. CASE UndoWrite
  BY <1>14, Silent DEF UndoWrite, Goto
<1>15. CASE UndoWriteFails
  BY <1>15, Silent DEF UndoWriteFails, Goto
<1>16. CASE UndoReload
  BY <1>16, Silent DEF UndoReload, Goto
<1>17. CASE UndoReloadFails
  BY <1>17, Silent DEF UndoReloadFails, Goto
<1>18. CASE UndoVerify
  BY <1>18, Silent DEF UndoVerify, Goto
<1>19. CASE UndoVerifyFails
  BY <1>19, Silent DEF UndoVerifyFails, Goto
<1>20. CASE Record
  <2>1. outcome = "applied" => goodFile = Build(target) /\ snap = revision
    BY <1>20 DEF Record, Progress, Candidate
  <2>2. PromiseOf!Ends /\ UNCHANGED <<doc, revision, goodFile>> /\ kind = "change"
        /\ pc # "ack"
    BY <1>20 DEF Record, Finish, PromiseOf!Ends, PromiseOf!Does
  <2>3. CASE outcome = "applied"
    <3>1. PromiseOf!SayApplied
      BY <1>20, <2>1, <2>2, <2>3 DEF Record, PromiseOf!SayApplied, PromiseOf!IsGood
    <3>2. QED
      BY <2>2, <3>1 DEF PromiseOf!Settle, PromiseOf!Next
  <2>4. CASE outcome # "applied"
    <3>1. lastError' = TRUE /\ UNCHANGED applied
      BY <1>20, <2>4, Zenon DEF Record
    <3>2. QED
      BY <2>2, <3>1 DEF PromiseOf!Settle, PromiseOf!Next
  <2>5. QED
    BY <2>3, <2>4
<1>21. CASE RecordFails
  <2>1. UNCHANGED <<dbVars, goodFile>> /\ kind # "none" /\ Finish
    BY <1>21 DEF RecordFails
  <2>2. QED
    BY <2>1, Leaves DEF PromiseOf!Next
<1>22. CASE PublishAborts
  <2>1. UNCHANGED <<dbVars, goodFile>> /\ kind # "none" /\ Finish
    BY <1>22 DEF PublishAborts
  <2>2. QED
    BY <2>1, Leaves DEF PromiseOf!Next
<1>23. CASE ReapplyEnds
  <2>1. UNCHANGED <<dbVars, goodFile>> /\ kind # "none" /\ Finish
    BY <1>23 DEF ReapplyEnds
  <2>2. QED
    BY <2>1, Leaves DEF PromiseOf!Next
<1>24. CASE PublishCommits
  <2>1. goodFile = Build(target)
    BY <1>24 DEF PublishCommits, Progress, Candidate
  <2>2. PromiseOf!Commit
    BY <1>24, <2>1 DEF PublishCommits, PromiseOf!Commit, PromiseOf!IsGood,
       PromiseOf!Does
  <2>3. QED
    BY <2>2 DEF PromiseOf!Next
<1>25. CASE PublishCommitFails
  <2>1. goodFile = Build(target)
    BY <1>25 DEF PublishCommitFails, Progress, Candidate
  <2>2. PromiseOf!Withdraw
    BY <1>25, <2>1 DEF PublishCommitFails, Begin, PromiseOf!Withdraw,
       PromiseOf!IsGood, PromiseOf!Does
  <2>3. QED
    BY <2>2 DEF PromiseOf!Next
<1>26. CASE Acknowledge
  <2>1. goodFile = Build(target) /\ snap = revision
    BY <1>26 DEF Acknowledge, Progress, Candidate
  <2>2. PromiseOf!SayApplied
    BY <1>26, <2>1 DEF Acknowledge, PromiseOf!SayApplied, PromiseOf!IsGood
  <2>3. PromiseOf!Acknowledge
    BY <1>26, <2>2 DEF Acknowledge, Finish, PromiseOf!Acknowledge,
       PromiseOf!Ends, PromiseOf!Does
  <2>4. QED
    BY <2>3 DEF PromiseOf!Next
<1>27. CASE AcknowledgeFails
  <2>1. UNCHANGED <<dbVars, goodFile>> /\ kind # "none" /\ Finish
    BY <1>27 DEF AcknowledgeFails
  <2>2. QED
    BY <2>1, Leaves DEF PromiseOf!Next
<1>28. CASE ManagerStarts
  BY <1>28, Silent DEF ManagerStarts
<1>29. CASE KernelStarts
  BY <1>29, Silent DEF KernelStarts
<1>30. CASE KernelStops
  BY <1>30, Silent DEF KernelStops
<1>31. CASE BootstrapWritesConfig
  BY <1>31, Silent DEF BootstrapWritesConfig
<1>32. CASE BootstrapKeepsGood
  <2>1. pc = "idle" /\ kind = "none"
    BY <1>32 DEF BootstrapKeepsGood
  <2>2. CASE doc.source = NoSource
    <3>1. PromiseOf!Retire
      BY <1>32, <2>1, <2>2 DEF BootstrapKeepsGood, BootConfig, PromiseOf!Retire,
         PromiseOf!Idle
    <3>2. QED
      BY <3>1 DEF PromiseOf!Next
  <2>3. CASE doc.source # NoSource
    BY <1>32, <2>3, Silent DEF BootstrapKeepsGood, BootConfig
  <2>4. QED
    BY <2>2, <2>3
<1>33. CASE ManagerStops
  <2>1. UNCHANGED <<dbVars, goodFile>> /\ Finish
    BY <1>33 DEF ManagerStops
  <2>2. CASE kind = "none"
    <3>1. UNCHANGED <<kind, target>> /\ pc # "ack" /\ pc' # "ack"
      BY <2>1, <2>2 DEF Finish, NothingWanted
    <3>2. QED
      BY <2>1, <3>1, Silent
  <2>3. CASE kind # "none"
    BY <2>1, <2>3, Leaves DEF PromiseOf!Next
  <2>4. QED
    BY <2>2, <2>3
<1>34. CASE ContainerStops
  <2>1. UNCHANGED <<dbVars, goodFile>> /\ Finish
    BY <1>34 DEF ContainerStops
  <2>2. CASE kind = "none"
    <3>1. UNCHANGED <<kind, target>> /\ pc # "ack" /\ pc' # "ack"
      BY <2>1, <2>2 DEF Finish, NothingWanted
    <3>2. QED
      BY <2>1, <3>1, Silent
  <2>3. CASE kind # "none"
    BY <2>1, <2>3, Leaves DEF PromiseOf!Next
  <2>4. QED
    BY <2>2, <2>3
<1>35. CASE UNCHANGED vars
  BY <1>35, Silent DEF vars
<1>36. QED
  BY <1>1, <1>2, <1>3, <1>4, <1>5, <1>6, <1>7, <1>8, <1>9, <1>10, <1>11,
     <1>12, <1>13, <1>14, <1>15, <1>16, <1>17, <1>18, <1>19, <1>20, <1>21,
     <1>22, <1>23, <1>24, <1>25, <1>26, <1>27, <1>28, <1>29, <1>30, <1>31,
     <1>32, <1>33, <1>34, <1>35
     DEF Next, Request, ApplyStep, EndStep, Supervise, Stop

\* Whatever fails, is rolled back or restarted on the way, what a user sees of the
\* document, the label and last-good.yaml is what Publication promises.
THEOREM ImplementsPublication == Spec => Promise
<1>1. Init => NothingWanted
  BY DEF Init, NothingWanted
<1>2. Consistent => Locals
  BY DEF Consistent
<1>3. QED
  BY <1>1, <1>2, InitImplements, AlwaysConsistent, NothingWantedStep,
     StepImplements, PTL DEF Spec, Promise, PromiseOf!Spec
=============================================================================
