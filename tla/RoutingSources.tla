--------------------------- MODULE RoutingSources ---------------------------
(***************************************************************************)
(* The life of routing sources: manager/routing_source_service.go, the     *)
(* statements of routing_source_store.go it uses and the delete handler of *)
(* routing_source_http.go.                                                 *)
(*                                                                         *)
(* A source is previewed, saved under the token of its preview, refreshed  *)
(* by a user or by the scheduler, activated and deleted.  A preview and a  *)
(* refresh download and compile for up to 45 seconds without Manager.mu,   *)
(* against a state they read before and an override scope they read after; *)
(* what they made is stored later, under the mutex, if it still fits.      *)
(* Everything done under the mutex is one step here.  How a publication    *)
(* reaches the kernel is ConfigApply; a publication that fails stores      *)
(* nothing, and one that succeeds is seen here at its commit.              *)
(***************************************************************************)
EXTENDS Integers, FiniteSets

CONSTANTS
    Ids,          \* identifiers newID can yield
    NoSource,     \* "": no source is active
    Contents,     \* what the digest covers: document, node sources, DNS import
    Forms,        \* what it does not cover: name, address, interval
    Bases,        \* the rest of the database: nodes, listeners, settings
    Overrides,    \* what a scope holds: edits, rules, blocks, selections
    NoOverride,   \* an empty scope
    Tokens,       \* preview tokens; their number bounds the drafts kept
    Calls,        \* requests and the scheduler
    MaxRevision,  \* bound on the revisions of the configuration
    MaxVersion    \* bound on the versions of a source

ASSUME RoutingSourcesAssumption ==
    /\ NoSource \notin Ids
    /\ NoOverride \in Overrides
    /\ Contents # {} /\ Forms # {}
    /\ MaxRevision \in Nat /\ MaxVersion \in Nat

VARIABLES
    base,        \* database: everything but the sources and their scopes
    revision,    \* database: state.revision
    pending,     \* database: the revision is not applied, or its error is stored
    source,      \* database: routing_sources, [Ids -> Stored]
    active,      \* database: routing_active.source_id
    scope,       \* database: [Ids -> Overrides]
    draft,       \* RoutingSourceService.drafts: [Tokens -> Drafts]
    refreshing,  \* RoutingSourceService.refreshing
    call,        \* [Calls -> a request and what it works on]
    deleted      \* history: sources that were deleted

dbVars == <<base, revision, pending, source, active, scope>>
vars == <<dbVars, draft, refreshing, call, deleted>>

Stored == [version : 0..MaxVersion, content : Contents, form : Forms,
           failed : BOOLEAN]

\* No row: the version of a row is at least 1.  failed: LastError is not empty.
Missing == [version |-> 0, content |-> CHOOSE c \in Contents : TRUE,
            form |-> CHOOSE f \in Forms : TRUE, failed |-> FALSE]

Exists(i) == source[i].version > 0

\* A row without the outcome of its checks.
Row(i) == [source[i] EXCEPT !.failed = FALSE]

\* What a preview or a refresh works on.  seen is the row as the caller knows it:
\* the page that was edited, or the row the refresh looked up.  base, scope and
\* revision are what it was compiled against.
Drafts == [id : Ids \cup {NoSource}, version : 0..MaxVersion, content : Contents,
           form : Forms, revision : 0..MaxRevision, seen : Stored, base : Bases,
           scope : Overrides]

NoDraft == [id |-> NoSource, version |-> 0, content |-> Missing.content,
            form |-> Missing.form, revision |-> 0, seen |-> Missing,
            base |-> CHOOSE b \in Bases : TRUE, scope |-> NoOverride]

NoCall == [op |-> "none", pc |-> "idle", draft |-> NoDraft]

\* The database of any earlier run: revisions and versions count from what it holds,
\* a saved source being at version 1.
Init ==
    /\ base \in Bases
    /\ revision = 0
    /\ pending = FALSE
    /\ source \in [Ids -> {Missing} \cup {r \in Stored : r.version = 1 /\ ~r.failed}]
    /\ active \in {i \in Ids : Exists(i)} \cup {NoSource}
    /\ scope \in [Ids -> Overrides]
    /\ \A i \in Ids : scope[i] # NoOverride => Exists(i)
    /\ draft = [t \in Tokens |-> NoDraft]
    /\ refreshing = {}
    /\ call = [c \in Calls |-> NoCall]
    /\ deleted = {}

-----------------------------------------------------------------------------
\* Changes of the rest of the configuration, each applied at once: the applied
\* revision and the error are recorded, or the record fails.

Bump == revision < MaxRevision /\ revision' = revision + 1 /\ pending' \in BOOLEAN

Change ==
    /\ Bump
    /\ base' \in Bases
    /\ UNCHANGED <<source, active, scope, draft, refreshing, call, deleted>>

\* Mutant: the overrides of a source are written without a new revision.
EditScopeUncounted ==
    /\ active # NoSource
    /\ \E o \in Overrides : scope' = [scope EXCEPT ![active] = o]
    /\ UNCHANGED <<base, revision, pending, source, active, draft, refreshing,
                   call, deleted>>

\* Categories, rules, blocks and selections are written for the active source only.
EditScope ==
    /\ active # NoSource
    /\ Bump
    /\ \E o \in Overrides : scope' = [scope EXCEPT ![active] = o]
    /\ UNCHANGED <<base, source, active, draft, refreshing, call, deleted>>

Apply ==
    /\ pending' \in BOOLEAN
    /\ UNCHANGED <<base, revision, source, active, scope, draft, refreshing, call,
                   deleted>>

Activate ==
    /\ \E i \in (Ids \cup {NoSource}) \ {active} :
          /\ i # NoSource => Exists(i)
          /\ active' = i
    /\ Bump
    /\ UNCHANGED <<base, source, scope, draft, refreshing, call, deleted>>

\* Mutant: a source that is in use can be deleted.
DeleteAny(i) ==
    /\ Exists(i)
    /\ source' = [source EXCEPT ![i] = Missing]
    /\ scope' = [scope EXCEPT ![i] = NoOverride]
    /\ deleted' = deleted \cup {i}
    /\ UNCHANGED <<base, revision, pending, active, draft, refreshing, call>>

\* The revision stays: nothing of an inactive source is in the configuration.
Delete(i) ==
    /\ Exists(i)
    /\ active # i
    /\ source' = [source EXCEPT ![i] = Missing]
    /\ scope' = [scope EXCEPT ![i] = NoOverride]
    /\ deleted' = deleted \cup {i}
    /\ UNCHANGED <<base, revision, pending, active, draft, refreshing, call>>

-----------------------------------------------------------------------------
\* Calls.

Set(c, op, pc, d) == call' = [call EXCEPT ![c] = [op |-> op, pc |-> pc, draft |-> d]]
Goto(c, pc) == call' = [call EXCEPT ![c].pc = pc]
End(c) == call' = [call EXCEPT ![c] = NoCall]

Release(c) == refreshing' = refreshing \ {call[c].draft.id}

CallFrame == UNCHANGED <<dbVars, deleted>>

\* newID: an identifier never used.
Fresh(i) ==
    /\ ~Exists(i)
    /\ i \notin deleted
    /\ \A t \in Tokens : draft[t].id # i
    /\ \A c \in Calls : call[c].draft.id # i

\* The form of a new source, or of one the page shows.
Preview(c) ==
    /\ call[c].pc = "idle"
    /\ \E i \in Ids, f \in Forms :
          /\ Exists(i) \/ Fresh(i)
          /\ Set(c, "preview", "prepare",
                 [NoDraft EXCEPT !.id = i, !.version = source[i].version,
                                 !.form = f, !.seen = Row(i)])
    /\ UNCHANGED <<draft, refreshing>>
    /\ CallFrame

\* Refresh: one at a time for a source.
Refresh(c) ==
    /\ call[c].pc = "idle"
    /\ \E i \in Ids \ refreshing :
          /\ Exists(i)
          /\ refreshing' = refreshing \cup {i}
          /\ Set(c, "refresh", "lookup", [NoDraft EXCEPT !.id = i])
    /\ UNCHANGED draft
    /\ CallFrame

\* Refresh reads the state for the row to update.
Lookup(c) ==
    /\ call[c].pc = "lookup"
    /\ LET i == call[c].draft.id
       IN /\ Exists(i)
          /\ Set(c, "refresh", "prepare",
                 [NoDraft EXCEPT !.id = i, !.version = source[i].version,
                                 !.form = source[i].form, !.seen = Row(i)])
    /\ UNCHANGED <<draft, refreshing>>
    /\ CallFrame

\* Mutant: the mark is left on the early returns.
LookupFailsMarked(c) ==
    /\ call[c].pc = "lookup"
    /\ End(c)
    /\ UNCHANGED <<draft, refreshing>>
    /\ CallFrame

\* The source is gone, or the read fails; this is not recorded.
LookupFails(c) ==
    /\ call[c].pc = "lookup"
    /\ End(c)
    /\ Release(c)
    /\ UNCHANGED draft
    /\ CallFrame

\* A read, the scheduler's context or the network fails; a preview shows the
\* error, a refresh stores it.
Fail(c) == IF call[c].op = "refresh" THEN Goto(c, "failed") ELSE End(c)

PrepareFails(c) ==
    /\ call[c].pc \in {"prepare", "scope", "fetch"}
    /\ Fail(c)
    /\ UNCHANGED <<draft, refreshing>>
    /\ CallFrame

\* prepare reads the state; the version must be the one the caller knows, and a
\* source the caller calls existing must still be there.
Prepare(c) ==
    /\ call[c].pc = "prepare"
    /\ call[c].draft.version = source[call[c].draft.id].version
    /\ call' = [call EXCEPT ![c].pc = "scope", ![c].draft.revision = revision,
                            ![c].draft.base = base]
    /\ UNCHANGED <<draft, refreshing>>
    /\ CallFrame

\* loadRoutingScope, without the mutex.
LoadScope(c) ==
    /\ call[c].pc = "scope"
    /\ call' = [call EXCEPT ![c].pc = "fetch",
                            ![c].draft.scope = scope[call[c].draft.id]]
    /\ UNCHANGED <<draft, refreshing>>
    /\ CallFrame

\* The document is downloaded, parsed, compiled and validated.
Fetched(c, v) == [call[c].draft EXCEPT !.content = v]

FetchForPreview(c) ==
    /\ call[c].pc = "fetch"
    /\ call[c].op = "preview"
    /\ \E t \in Tokens, v \in Contents :
          /\ draft[t] = NoDraft
          /\ draft' = [draft EXCEPT ![t] = Fetched(c, v)]
    /\ End(c)
    /\ UNCHANGED refreshing
    /\ CallFrame

FetchForRefresh(c) ==
    /\ call[c].pc = "fetch"
    /\ call[c].op = "refresh"
    /\ \E v \in Contents : Set(c, "refresh", "accept", Fetched(c, v))
    /\ UNCHANGED <<draft, refreshing>>
    /\ CallFrame

\* SavePreview takes the draft out: a token serves once.
SavePreview(c) ==
    /\ call[c].pc = "idle"
    /\ \E t \in Tokens :
          /\ draft[t] # NoDraft
          /\ draft' = [draft EXCEPT ![t] = NoDraft]
          /\ Set(c, "save", "accept", draft[t])
    /\ UNCHANGED refreshing
    /\ CallFrame

\* A draft is refused after ten minutes, and removed by the next preview.
Expire(t) ==
    /\ draft[t] # NoDraft
    /\ draft' = [draft EXCEPT ![t] = NoDraft]
    /\ UNCHANGED <<refreshing, call>>
    /\ CallFrame

-----------------------------------------------------------------------------
\* accept, under Manager.mu.

\* Mutant: a source that is gone is stored again.
FitsGone(d) ==
    /\ revision = d.revision
    /\ Exists(d.id) => source[d.id].version = d.version

\* Mutant: the version of the source is not compared.
FitsRevision(d) == revision = d.revision /\ (Exists(d.id) \/ d.version = 0)

Fits(d) ==
    /\ revision = d.revision
    /\ IF Exists(d.id) THEN source[d.id].version = d.version ELSE d.version = 0

ContentChanges(d) == Exists(d.id) => source[d.id].content # d.content

Publishes(d) == active = d.id /\ ContentChanges(d)

\* Mutant: the version is counted by prepare and by accept.
SavedTwice(d) == [version |-> d.version + 2, content |-> d.content, form |-> d.form,
                  failed |-> FALSE]

\* The row that a draft becomes.
Saved(d) == [version |-> d.version + 1, content |-> d.content, form |-> d.form,
             failed |-> FALSE]

\* The draft is stored: as it is when its source is not active or its content
\* is the same, and else published when the configuration is the applied one.  The
\* record of a publication can fail: it is then stored and reported as failed.
Accept(c) ==
    /\ call[c].pc = "accept"
    /\ LET d == call[c].draft
       IN /\ Fits(d)
          /\ d.version < MaxVersion
          /\ source' = [source EXCEPT ![d.id] = Saved(d)]
          /\ IF Publishes(d) THEN ~pending /\ Bump ELSE UNCHANGED <<revision, pending>>
          /\ \/ /\ IF call[c].op = "refresh" THEN Release(c) ELSE UNCHANGED refreshing
                /\ End(c)
             \/ Publishes(d) /\ Fail(c) /\ UNCHANGED refreshing
    /\ UNCHANGED <<base, active, scope, draft, deleted>>

\* The draft no longer fits, a publication is not possible or fails, or the
\* database does: nothing is stored.
AcceptFails(c) ==
    /\ call[c].pc = "accept"
    /\ Fail(c)
    /\ UNCHANGED <<draft, refreshing>>
    /\ CallFrame

\* Mutant: the error goes to whatever version is stored by now.
ConcernsAny(d) == Exists(d.id)

\* sourceStatus stores the error of a refresh with the version it looked up.
Concerns(d) == Exists(d.id) /\ source[d.id].version = d.version

RecordFailure(c) ==
    /\ call[c].pc = "failed"
    /\ LET d == call[c].draft
       IN source' = IF Concerns(d) THEN [source EXCEPT ![d.id].failed = TRUE]
                                   ELSE source
    /\ Release(c)
    /\ End(c)
    /\ UNCHANGED <<base, revision, pending, active, scope, draft, deleted>>

-----------------------------------------------------------------------------
\* The process stops and starts: drafts and calls live in memory only.
Restart ==
    /\ draft' = [t \in Tokens |-> NoDraft]
    /\ refreshing' = {}
    /\ call' = [c \in Calls |-> NoCall]
    /\ UNCHANGED <<dbVars, deleted>>

\* The steps a call takes by itself.
Proceed(c) ==
    \/ Lookup(c) \/ LookupFails(c) \/ Prepare(c) \/ PrepareFails(c) \/ LoadScope(c)
    \/ FetchForPreview(c) \/ FetchForRefresh(c)
    \/ Accept(c) \/ AcceptFails(c) \/ RecordFailure(c)

Next ==
    \/ Change \/ EditScope \/ Apply \/ Activate
    \/ \E i \in Ids : Delete(i)
    \/ \E c \in Calls : Preview(c) \/ Refresh(c) \/ SavePreview(c) \/ Proceed(c)
    \/ \E t \in Tokens : Expire(t)
    \/ Restart

Spec == Init /\ [][Next]_vars

\* A call in progress goes on: its download has a deadline of 45 seconds, its
\* publication one of 60, and the mutex of the manager is released by everybody.
Fairness == \A c \in Calls : WF_vars(Proceed(c))

FairSpec == Spec /\ Fairness

-----------------------------------------------------------------------------
(***************************************************************************)
(* Properties                                                              *)
(***************************************************************************)
\* Every variable stays in its type.
TypeOK ==
    /\ base \in Bases
    /\ revision \in 0..MaxRevision
    /\ pending \in BOOLEAN
    /\ source \in [Ids -> Stored]
    /\ active \in Ids \cup {NoSource}
    /\ scope \in [Ids -> Overrides]
    /\ draft \in [Tokens -> Drafts]
    /\ refreshing \in SUBSET Ids
    /\ call \in [Calls -> [op : {"none", "preview", "refresh", "save"},
                          pc : {"idle", "lookup", "prepare", "scope", "fetch",
                                "accept", "failed"},
                          draft : Drafts]]
    /\ deleted \in SUBSET Ids

\* The active source is stored, whatever is deleted, and overrides exist only for
\* stored sources (README.md:271), so no configuration is built on a source that is
\* gone: activeRoutingSource() is dereferenced unchecked in routing_plan.go.
NothingDangles ==
    /\ active # NoSource => Exists(active)
    /\ \A i \in Ids : scope[i] # NoOverride => Exists(i)

\* A deleted source does not come back through a preview saved late, or through a
\* refresh that was under way: the row is written by an upsert.
DeletedStaysDeleted == \A i \in deleted : ~Exists(i)

\* Stale previews are refused (API.md:175): what is stored was compiled against
\* the nodes, settings and overrides of the moment it is stored, although they were
\* read at two moments, with no lock held since.
CompiledAsStored ==
    [][\A c \in Calls : Accept(c) =>
          LET d == call[c].draft IN d.base = base /\ d.scope = scope[d.id]]_vars

\* No update is lost: the row a draft replaces is the one its author saw, the
\* outcome of checks aside - also between two previews of a source that is not
\* active, which leave the revision as it is.
NoLostUpdate ==
    [][\A c \in Calls : Accept(c) =>
          call[c].draft.seen = Row(call[c].draft.id)]_vars

\* The error of a refresh is shown with what it tried to update: when it is stored,
\* nothing was saved to the source since the refresh looked it up.
FailureIsCurrent ==
    [][\A c \in Calls, i \in Ids :
          RecordFailure(c) /\ source'[i] # source[i] =>
             call[c].draft.seen = Row(i)]_vars

\* Every refresh ends and lets the next one in: no outcome leaves the mark of
\* a source behind.
RefreshEnds == \A i \in Ids : i \in refreshing ~> i \notin refreshing
=============================================================================
