---------------------------- MODULE Publication -----------------------------
(***************************************************************************)
(* What configuration changes and publications promise, without files,     *)
(* kernel, rollbacks and processes: an operation works towards a document, *)
(* may keep its configuration as the one that is good, and ends.  A change *)
(* is stored when it is asked for, a published document only once it is    *)
(* good; "applied" is said only of a document that is good.  An operation  *)
(* can be forgotten at any point, and then says nothing.                   *)
(*                                                                         *)
(* ConfigApply implements this: see Promise there for the mapping.         *)
(***************************************************************************)
EXTENDS Integers

CONSTANTS
    Sources, NoSource, Bodies,
    Blank,        \* the document of an operation that is none
    Built(_),     \* the configuration of a document
    Retired(_)    \* a configuration without the rule engine

VARIABLES
    doc, revision,    \* what is stored
    applied, failed,  \* what is said: the revision applied, or an error
    good,             \* the configuration the next start takes
    op                \* [kind, want]: what is under way

vars == <<doc, revision, applied, failed, good, op>>

Docs == [source : Sources \cup {NoSource}, body : Bodies]

Idle == op.kind = "none"

Does(kind, want) == op' = [kind |-> kind, want |-> want]

Ends == Does("none", Blank)

IsGood == good = Built(op.want)

Init ==
    /\ doc \in Docs
    /\ revision = 0
    /\ applied \in {-1, 0}
    /\ failed = FALSE
    /\ op = [kind |-> "none", want |-> Blank]

\* A change of the stored document, which keeps its source.
Change ==
    /\ Idle
    /\ \E d \in Docs :
          /\ d.source = doc.source
          /\ doc' = d
          /\ Does("change", d)
    /\ revision' = revision + 1
    /\ UNCHANGED <<applied, failed, good>>

\* The stored document is applied again.
Apply ==
    /\ Idle
    /\ Does("change", doc)
    /\ UNCHANGED <<doc, revision, applied, failed, good>>

\* Another source is to be active, or new content of the active one to be used,
\* the latter only on top of what is applied.
Publish ==
    /\ Idle
    /\ \E d \in Docs :
          /\ Does("publish", d)
          /\ \/ d.source # doc.source /\ d.body = doc.body
             \/ d.source = doc.source /\ doc.source # NoSource
                /\ applied = revision /\ ~failed
    /\ UNCHANGED <<doc, revision, applied, failed, good>>

\* The configuration works and is kept.
Keep ==
    /\ op.kind \in {"change", "publish", "reapply"}
    /\ good' = Built(op.want)
    /\ UNCHANGED <<doc, revision, applied, failed, op>>

SayApplied ==
    /\ IsGood
    /\ applied' = revision
    /\ failed' = FALSE

\* A change ends, as applied or with an error.
Settle ==
    /\ op.kind = "change"
    /\ SayApplied \/ (failed' = TRUE /\ UNCHANGED applied)
    /\ Ends
    /\ UNCHANGED <<doc, revision, good>>

Commit ==
    /\ op.kind = "publish"
    /\ IsGood
    /\ doc' = op.want
    /\ revision' = revision + 1
    /\ Does("ack", op.want)
    /\ UNCHANGED <<applied, failed, good>>

\* The commit fails: back to what is stored.
Withdraw ==
    /\ op.kind = "publish"
    /\ IsGood
    /\ Does("reapply", doc)
    /\ UNCHANGED <<doc, revision, applied, failed, good>>

Acknowledge ==
    /\ op.kind = "ack"
    /\ SayApplied
    /\ Ends
    /\ UNCHANGED <<doc, revision, good>>

\* Given up, ended without success, or forgotten.
Leave ==
    /\ ~Idle
    /\ Ends
    /\ UNCHANGED <<doc, revision, applied, failed, good>>

\* With no source active, a start keeps a good configuration without its rules.
Retire ==
    /\ Idle
    /\ doc.source = NoSource
    /\ good' = Retired(good)
    /\ UNCHANGED <<doc, revision, applied, failed, op>>

Next ==
    \/ Change \/ Apply \/ Publish
    \/ Keep \/ Settle \/ Commit \/ Withdraw \/ Acknowledge \/ Leave
    \/ Retire

Spec == Init /\ [][Next]_vars
=============================================================================
