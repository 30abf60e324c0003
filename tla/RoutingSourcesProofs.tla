------------------------ MODULE RoutingSourcesProofs -------------------------
(***************************************************************************)
(* Proofs about RoutingSources, for every set of sources, contents,        *)
(* overrides, calls and preview tokens and every bound.                    *)
(*                                                                         *)
(* A draft is made in steps that hold no mutex, so what accept relies on   *)
(* has to survive whatever happens between them.  The invariants say, for  *)
(* whoever holds a draft - a call or a token -, what it still knows of the *)
(* database: while the revision is the one it read, its base is the base   *)
(* and its scope the scope; while the version is the one it read, the row  *)
(* is the one its author saw; and a draft of a source that is not stored   *)
(* yet is the only one with that identifier.                               *)
(***************************************************************************)
EXTENDS RoutingSources, TLAPS

USE DEF dbVars

Ops == {"none", "preview", "refresh", "save"}
Pcs == {"idle", "lookup", "prepare", "scope", "fetch", "accept", "failed"}
CallRecords == [op : Ops, pc : Pcs, draft : Drafts]

\* A call that is at work, and a draft that is kept, have an identifier.
NamesSources ==
    /\ \A c \in Calls : call[c].pc # "idle" => call[c].draft.id \in Ids
    /\ \A t \in Tokens : draft[t] # NoDraft => draft[t].id \in Ids

Typing == TypeOK /\ NamesSources

\* What the holder of a draft knows: the row it saw is the row while the version is
\* the same, what it compiled against is what there is while the revision is.
Current(d) ==
    d.id \notin deleted =>
       /\ d.version <= source[d.id].version
       /\ d.version = source[d.id].version => d.seen = Row(d.id)

Compiled(d) == d.revision <= revision /\ (d.revision = revision => d.base = base)

Scoped(d) == d.revision = revision /\ d.id \notin deleted => d.scope = scope[d.id]

Knows(pc, d) ==
    /\ pc \in {"prepare", "scope", "fetch", "accept", "failed"} => Current(d)
    /\ pc \in {"scope", "fetch", "accept"} => Compiled(d)
    /\ pc \in {"fetch", "accept"} => Scoped(d)

NoRowIsMissing == \A i \in Ids : ~Exists(i) => source[i] = Missing

WorkIsCurrent ==
    /\ \A c \in Calls : Knows(call[c].pc, call[c].draft)
    /\ \A t \in Tokens : draft[t] # NoDraft => Knows("accept", draft[t])

-----------------------------------------------------------------------------
\* The values that stand for nothing have the types of the others.
LEMMA Defaults ==
  ASSUME base \in Bases
  PROVE  /\ Missing \in Stored
         /\ NoDraft \in Drafts
         /\ NoCall \in CallRecords
<1>1. Missing \in Stored
  BY RoutingSourcesAssumption DEF Missing, Stored
<1>2. NoDraft \in Drafts
  BY <1>1, RoutingSourcesAssumption DEF NoDraft, Drafts, Missing, Stored
<1>3. QED
  BY <1>1, <1>2 DEF NoCall, CallRecords, Ops, Pcs

\* How a call goes on, and that it leaves the other calls alone.
LEMMA EndStep ==
  ASSUME call \in [Calls -> CallRecords], base \in Bases, NEW c \in Calls, End(c)
  PROVE  /\ call' \in [Calls -> CallRecords]
         /\ call'[c] = NoCall
         /\ \A b \in Calls \ {c} : call'[b] = call[b]
  BY Defaults DEF End

LEMMA GotoStep ==
  ASSUME call \in [Calls -> CallRecords], NEW c \in Calls, NEW pc \in Pcs, Goto(c, pc)
  PROVE  /\ call' \in [Calls -> CallRecords]
         /\ call'[c] = [op |-> call[c].op, pc |-> pc, draft |-> call[c].draft]
         /\ \A b \in Calls \ {c} : call'[b] = call[b]
  BY DEF Goto, CallRecords

LEMMA SetStep ==
  ASSUME call \in [Calls -> CallRecords], NEW c \in Calls,
         NEW op \in Ops, NEW pc \in Pcs, NEW d \in Drafts, Set(c, op, pc, d)
  PROVE  /\ call' \in [Calls -> CallRecords]
         /\ call'[c] = [op |-> op, pc |-> pc, draft |-> d]
         /\ call'[c].op = op /\ call'[c].pc = pc /\ call'[c].draft = d
         /\ \A b \in Calls \ {c} : call'[b] = call[b]
  BY DEF Set, CallRecords

\* A step that fails ends the call, or leaves it to record its failure.
LEMMA FailStep ==
  ASSUME call \in [Calls -> CallRecords], base \in Bases, NEW c \in Calls, Fail(c)
  PROVE  /\ call' \in [Calls -> CallRecords]
         /\ \/ call'[c] = NoCall /\ call[c].op # "refresh"
            \/ /\ call[c].op = "refresh" /\ call'[c].op = "refresh"
               /\ call'[c].pc = "failed" /\ call'[c].draft = call[c].draft
         /\ \A b \in Calls \ {c} : call'[b] = call[b]
<1>1. "failed" \in Pcs
  BY DEF Pcs
<1>2. CASE call[c].op = "refresh"
  BY <1>1, <1>2 DEF Fail, Goto, CallRecords
<1>3. CASE call[c].op # "refresh"
  BY <1>3, EndStep DEF Fail
<1>4. QED
  BY <1>2, <1>3

\* What the steps of prepare make of the draft of a call.
LEMMA PrepareStep ==
  ASSUME Typing, NEW c \in Calls, Prepare(c)
  PROVE  /\ call' \in [Calls -> CallRecords]
         /\ call'[c] = [op |-> call[c].op, pc |-> "scope",
                        draft |-> [call[c].draft EXCEPT !.revision = revision,
                                                        !.base = base]]
         /\ call'[c].pc = "scope"
         /\ call'[c].draft.id = call[c].draft.id
         /\ call'[c].draft.version = call[c].draft.version
         /\ call'[c].draft.seen = call[c].draft.seen
         /\ call'[c].draft.revision = revision
         /\ call'[c].draft.base = base
         /\ \A b \in Calls \ {c} : call'[b] = call[b]
<1>1. call \in [Calls -> CallRecords] /\ call[c] \in CallRecords
  BY DEF Typing, TypeOK, CallRecords, Ops, Pcs
<1>2. base \in Bases /\ revision \in 0..MaxRevision
  BY DEF Typing, TypeOK
<1>3. [call[c].draft EXCEPT !.revision = revision, !.base = base] \in Drafts
  BY <1>1, <1>2 DEF CallRecords, Drafts
<1>4. call'[c] = [op |-> call[c].op, pc |-> "scope",
                  draft |-> [call[c].draft EXCEPT !.revision = revision,
                                                  !.base = base]]
  BY <1>1 DEF Prepare, CallRecords, Drafts
<1>5. call'[c] \in CallRecords
  BY <1>1, <1>3, <1>4 DEF CallRecords, Pcs
<1>6. /\ call'[c].draft = [call[c].draft EXCEPT !.revision = revision, !.base = base]
      /\ call[c].draft \in Drafts
  BY <1>1, <1>4 DEF CallRecords
<1>7. /\ call'[c].draft.id = call[c].draft.id
      /\ call'[c].draft.version = call[c].draft.version
      /\ call'[c].draft.seen = call[c].draft.seen
      /\ call'[c].draft.revision = revision /\ call'[c].draft.base = base
  BY <1>6 DEF Drafts
<1>8. QED
  BY <1>1, <1>4, <1>5, <1>7 DEF Prepare

LEMMA LoadScopeStep ==
  ASSUME Typing, NEW c \in Calls, LoadScope(c)
  PROVE  /\ call' \in [Calls -> CallRecords]
         /\ call'[c] = [op |-> call[c].op, pc |-> "fetch",
                        draft |-> [call[c].draft EXCEPT !.scope = scope[call[c].draft.id]]]
         /\ call'[c].pc = "fetch"
         /\ call'[c].draft.id = call[c].draft.id
         /\ call'[c].draft.version = call[c].draft.version
         /\ call'[c].draft.seen = call[c].draft.seen
         /\ call'[c].draft.revision = call[c].draft.revision
         /\ call'[c].draft.base = call[c].draft.base
         /\ call'[c].draft.scope = scope[call[c].draft.id]
         /\ \A b \in Calls \ {c} : call'[b] = call[b]
<1>1. call \in [Calls -> CallRecords] /\ call[c] \in CallRecords
  BY DEF Typing, TypeOK, CallRecords, Ops, Pcs
<1>2. scope[call[c].draft.id] \in Overrides
  BY DEF LoadScope, Typing, TypeOK, NamesSources
<1>3. [call[c].draft EXCEPT !.scope = scope[call[c].draft.id]] \in Drafts
  BY <1>1, <1>2 DEF CallRecords, Drafts
<1>4. call'[c] = [op |-> call[c].op, pc |-> "fetch",
                  draft |-> [call[c].draft EXCEPT !.scope = scope[call[c].draft.id]]]
  BY <1>1 DEF LoadScope, CallRecords, Drafts
<1>5. call'[c] \in CallRecords
  BY <1>1, <1>3, <1>4 DEF CallRecords, Pcs
<1>6. /\ call'[c].draft = [call[c].draft EXCEPT !.scope = scope[call[c].draft.id]]
      /\ call[c].draft \in Drafts
  BY <1>1, <1>4 DEF CallRecords
<1>7. /\ call'[c].draft.id = call[c].draft.id
      /\ call'[c].draft.version = call[c].draft.version
      /\ call'[c].draft.seen = call[c].draft.seen
      /\ call'[c].draft.revision = call[c].draft.revision
      /\ call'[c].draft.base = call[c].draft.base
      /\ call'[c].draft.scope = scope[call[c].draft.id]
  BY <1>6 DEF Drafts
<1>8. QED
  BY <1>1, <1>4, <1>5, <1>7 DEF LoadScope

\* What a download adds.
LEMMA FetchedDraft ==
  ASSUME call \in [Calls -> CallRecords], NEW c \in Calls, NEW v \in Contents
  PROVE  /\ Fetched(c, v) \in Drafts
         /\ Fetched(c, v).id = call[c].draft.id
         /\ Fetched(c, v).version = call[c].draft.version
         /\ Fetched(c, v).revision = call[c].draft.revision
         /\ Fetched(c, v).seen = call[c].draft.seen
         /\ Fetched(c, v).base = call[c].draft.base
         /\ Fetched(c, v).scope = call[c].draft.scope
<1>1. call[c].draft \in Drafts
  BY DEF CallRecords
<1>2. QED
  BY <1>1 DEF Fetched, Drafts

\* The draft of somebody who has seen the row of a source, and what refresh begins with.
LEMMA SeenDraft ==
  ASSUME Typing, NEW i \in Ids, NEW f \in Forms,
         NEW d, d = [NoDraft EXCEPT !.id = i, !.version = source[i].version,
                                    !.form = f, !.seen = Row(i)]
  PROVE  d \in Drafts /\ d.id = i /\ d.version = source[i].version /\ d.seen = Row(i)
<1>1. source[i] \in Stored /\ NoDraft \in Drafts
  BY Defaults DEF Typing, TypeOK
<1>2. Row(i) \in Stored /\ source[i].version \in 0..MaxVersion
  BY <1>1 DEF Row, Stored
<1>3. QED
  BY <1>1, <1>2 DEF Drafts

LEMMA MarkedDraft ==
  ASSUME base \in Bases, NEW i \in Ids
  PROVE  [NoDraft EXCEPT !.id = i] \in Drafts /\ [NoDraft EXCEPT !.id = i].id = i
  BY Defaults DEF Drafts

LEMMA TypingInit == Init => Typing
<1> SUFFICES ASSUME Init PROVE Typing
  OBVIOUS
<1>1. /\ Missing \in Stored /\ NoDraft \in Drafts /\ NoCall \in CallRecords
  BY Defaults DEF Init
<1>2. source \in [Ids -> Stored] /\ draft \in [Tokens -> Drafts]
      /\ call \in [Calls -> CallRecords]
  BY <1>1 DEF Init
<1>3. pending \in BOOLEAN
  BY Zenon DEF Init
<1>4. /\ base \in Bases /\ active \in Ids \cup {NoSource} /\ scope \in [Ids -> Overrides]
      /\ revision \in 0..MaxRevision /\ refreshing \in SUBSET Ids /\ deleted \in SUBSET Ids
  BY RoutingSourcesAssumption DEF Init
<1>5. TypeOK
  BY <1>2, <1>3, <1>4 DEF TypeOK, CallRecords, Ops, Pcs
<1>6. NamesSources
  BY DEF Init, NamesSources, NoCall
<1>7. QED
  BY <1>5, <1>6 DEF Typing

\* What a step has to show of a call that leaves the database alone.
LEMMA CallFrameTyping ==
  ASSUME Typing, CallFrame, call' \in [Calls -> CallRecords],
         draft' \in [Tokens -> Drafts], refreshing' \subseteq Ids, NamesSources'
  PROVE  Typing'
<1>1. pending' \in BOOLEAN
  BY Zenon DEF CallFrame, Typing, TypeOK
<1>2. /\ base' \in Bases /\ revision' \in 0..MaxRevision /\ source' \in [Ids -> Stored]
      /\ active' \in Ids \cup {NoSource} /\ scope' \in [Ids -> Overrides]
      /\ deleted' \in SUBSET Ids
  BY DEF CallFrame, Typing, TypeOK
<1>3. QED
  BY <1>1, <1>2 DEF Typing, TypeOK, CallRecords, Ops, Pcs

LEMMA TypingStep == Typing /\ [Next]_vars => Typing'
<1> SUFFICES ASSUME Typing, [Next]_vars PROVE Typing'
  OBVIOUS
<1>1. /\ call \in [Calls -> CallRecords] /\ base \in Bases /\ NamesSources
      /\ draft \in [Tokens -> Drafts] /\ refreshing \subseteq Ids
      /\ source \in [Ids -> Stored] /\ scope \in [Ids -> Overrides]
      /\ active \in Ids \cup {NoSource} /\ revision \in 0..MaxRevision
      /\ deleted \in SUBSET Ids
  BY DEF Typing, TypeOK, CallRecords, Ops, Pcs
<1>2. NoDraft \in Drafts /\ Missing \in Stored /\ NoCall \in CallRecords
  BY <1>1, Defaults
<1>3. CASE Change \/ Apply \/ EditScope \/ Activate
  <2>1. pending' \in BOOLEAN
    BY <1>3, Zenon DEF Change, Apply, EditScope, Activate, Bump
  <2>2. /\ base' \in Bases /\ revision' \in 0..MaxRevision
        /\ active' \in Ids \cup {NoSource} /\ scope' \in [Ids -> Overrides]
        /\ UNCHANGED <<source, draft, refreshing, call, deleted>>
    BY <1>1, <1>3, RoutingSourcesAssumption DEF Change, Apply, EditScope, Activate, Bump
  <2>3. QED
    BY <1>1, <2>1, <2>2 DEF Typing, TypeOK, NamesSources, CallRecords, Ops, Pcs
<1>4. ASSUME NEW i \in Ids, Delete(i) PROVE Typing'
  <2>1. pending' \in BOOLEAN
    BY <1>4, Zenon DEF Delete, Typing, TypeOK
  <2>2. /\ source' \in [Ids -> Stored] /\ scope' \in [Ids -> Overrides]
        /\ deleted' \in SUBSET Ids
        /\ UNCHANGED <<base, revision, active, draft, refreshing, call>>
    BY <1>1, <1>2, <1>4, RoutingSourcesAssumption DEF Delete
  <2>3. QED
    BY <1>1, <2>1, <2>2 DEF Typing, TypeOK, NamesSources, CallRecords, Ops, Pcs
<1>5. ASSUME NEW c \in Calls, Preview(c) PROVE Typing'
  <2>1. PICK i \in Ids, f \in Forms :
           Set(c, "preview", "prepare",
               [NoDraft EXCEPT !.id = i, !.version = source[i].version,
                               !.form = f, !.seen = Row(i)])
    BY <1>5 DEF Preview
  <2> DEFINE d == [NoDraft EXCEPT !.id = i, !.version = source[i].version,
                                  !.form = f, !.seen = Row(i)]
  <2>2. d \in Drafts /\ d.id = i /\ "preview" \in Ops /\ "prepare" \in Pcs
    BY SeenDraft DEF Ops, Pcs
  <2>5. Set(c, "preview", "prepare", d)
    BY <2>1
  <2> HIDE DEF d
  <2>3. /\ call' \in [Calls -> CallRecords] /\ call'[c].draft.id = i
        /\ \A b \in Calls \ {c} : call'[b] = call[b]
    BY <1>1, <2>2, <2>5, SetStep DEF Set
  <2>4. QED
    BY <1>1, <1>5, <2>3, CallFrameTyping DEF Preview, NamesSources
<1>6. ASSUME NEW c \in Calls, Refresh(c) PROVE Typing'
  <2>1. PICK i \in Ids : /\ Set(c, "refresh", "lookup", [NoDraft EXCEPT !.id = i])
                         /\ refreshing' = refreshing \cup {i}
    BY <1>6 DEF Refresh
  <2> DEFINE d == [NoDraft EXCEPT !.id = i]
  <2>2. d \in Drafts /\ d.id = i /\ "refresh" \in Ops /\ "lookup" \in Pcs
    BY <1>1, MarkedDraft DEF Ops, Pcs
  <2>3. Set(c, "refresh", "lookup", d)
    BY <2>1
  <2> HIDE DEF d
  <2>4. /\ call' \in [Calls -> CallRecords] /\ call'[c].draft.id = i
        /\ \A b \in Calls \ {c} : call'[b] = call[b]
    BY <1>1, <2>2, <2>3, SetStep DEF Set
  <2>5. QED
    BY <1>1, <1>6, <2>1, <2>4, CallFrameTyping DEF Refresh, NamesSources
<1>7. ASSUME NEW c \in Calls, SavePreview(c) PROVE Typing'
  <2>1. PICK t \in Tokens : /\ draft[t] # NoDraft
                            /\ draft' = [draft EXCEPT ![t] = NoDraft]
                            /\ Set(c, "save", "accept", draft[t])
    BY <1>7 DEF SavePreview
  <2>2. draft[t] \in Drafts /\ "save" \in Ops /\ "accept" \in Pcs
    BY <1>1 DEF Ops, Pcs
  <2>3. /\ call' \in [Calls -> CallRecords] /\ call'[c].draft.id = draft[t].id
        /\ \A b \in Calls \ {c} : call'[b] = call[b]
    BY <1>1, <2>1, <2>2, SetStep DEF Set
  <2>4. QED
    BY <1>1, <1>2, <1>7, <2>1, <2>3, CallFrameTyping DEF SavePreview, NamesSources
<1>8. ASSUME NEW c \in Calls, Lookup(c) PROVE Typing'
  <2> DEFINE i == call[c].draft.id
             d == [NoDraft EXCEPT !.id = i, !.version = source[i].version,
                                  !.form = source[i].form, !.seen = Row(i)]
  <2>1. i \in Ids /\ Set(c, "refresh", "prepare", d) /\ source[i].form \in Forms
    BY <1>1, <1>8 DEF Lookup, NamesSources, Stored
  <2>2. d \in Drafts /\ d.id = i
    BY <2>1, SeenDraft
  <2>3. "refresh" \in Ops /\ "prepare" \in Pcs
    BY DEF Ops, Pcs
  <2> HIDE DEF d
  <2>4. /\ call' \in [Calls -> CallRecords] /\ call'[c].draft.id = i
        /\ \A b \in Calls \ {c} : call'[b] = call[b]
    BY <1>1, <2>1, <2>2, <2>3, SetStep DEF Set
  <2>5. QED
    BY <1>1, <1>8, <2>1, <2>4, CallFrameTyping DEF Lookup, NamesSources
<1>9. ASSUME NEW c \in Calls, LookupFails(c) PROVE Typing'
  BY <1>1, <1>9, EndStep, CallFrameTyping DEF LookupFails, Release, NamesSources, NoCall
<1>10. ASSUME NEW c \in Calls, Prepare(c) PROVE Typing'
  <2>1. call[c].draft \in Drafts /\ call[c].draft.id \in Ids
    BY <1>1, <1>10 DEF Prepare, NamesSources, CallRecords
  <2>2. call'[c].draft.id = call[c].draft.id
    BY <1>10, PrepareStep
  <2>3. QED
    BY <1>1, <1>10, <2>1, <2>2, PrepareStep, CallFrameTyping DEF Prepare, NamesSources
<1>11. ASSUME NEW c \in Calls, PrepareFails(c) \/ AcceptFails(c) PROVE Typing'
  <2>1. Fail(c) /\ CallFrame /\ UNCHANGED <<draft, refreshing>>
    BY <1>11 DEF PrepareFails, AcceptFails
  <2>2. call[c].draft.id \in Ids
    BY <1>1, <1>11 DEF PrepareFails, AcceptFails, NamesSources
  <2>3. call' \in [Calls -> CallRecords] /\ NamesSources'
    BY <1>1, <2>1, <2>2, FailStep DEF NamesSources, NoCall
  <2>4. QED
    BY <1>1, <2>1, <2>3, CallFrameTyping
<1>12. ASSUME NEW c \in Calls, LoadScope(c) PROVE Typing'
  <2>1. call[c].draft \in Drafts /\ call[c].draft.id \in Ids
    BY <1>1, <1>12 DEF LoadScope, NamesSources, CallRecords
  <2>2. call'[c].draft.id = call[c].draft.id
    BY <1>12, LoadScopeStep
  <2>3. QED
    BY <1>1, <1>12, <2>1, <2>2, LoadScopeStep, CallFrameTyping DEF LoadScope, NamesSources
<1>13. ASSUME NEW c \in Calls, FetchForPreview(c) PROVE Typing'
  <2>1. PICK t \in Tokens, v \in Contents : draft' = [draft EXCEPT ![t] = Fetched(c, v)]
    BY <1>13 DEF FetchForPreview
  <2>2. Fetched(c, v) \in Drafts /\ Fetched(c, v).id = call[c].draft.id
    BY <1>1, FetchedDraft
  <2>3. call[c].draft.id \in Ids
    BY <1>1, <1>13 DEF FetchForPreview, NamesSources
  <2>4. draft' \in [Tokens -> Drafts] /\ \A u \in Tokens : draft'[u] # NoDraft => draft'[u].id \in Ids
    BY <1>1, <2>1, <2>2, <2>3 DEF NamesSources
  <2>5. QED
    BY <1>1, <1>13, <2>4, EndStep, CallFrameTyping DEF FetchForPreview, NamesSources, NoCall
<1>14. ASSUME NEW c \in Calls, FetchForRefresh(c) PROVE Typing'
  <2>1. PICK v \in Contents : Set(c, "refresh", "accept", Fetched(c, v))
    BY <1>14 DEF FetchForRefresh
  <2>2. Fetched(c, v) \in Drafts /\ Fetched(c, v).id = call[c].draft.id
    BY <1>1, FetchedDraft
  <2>5. "refresh" \in Ops /\ "accept" \in Pcs
    BY DEF Ops, Pcs
  <2>3. /\ call' \in [Calls -> CallRecords] /\ call'[c].draft.id = call[c].draft.id
        /\ \A b \in Calls \ {c} : call'[b] = call[b]
    BY <1>1, <2>1, <2>2, <2>5, SetStep DEF Set
  <2>4. QED
    BY <1>1, <1>14, <2>3, CallFrameTyping DEF FetchForRefresh, NamesSources
<1>15. ASSUME NEW c \in Calls, Accept(c) PROVE Typing'
  <2> DEFINE d == call[c].draft
  <2>1. d \in Drafts /\ d.version < MaxVersion
    BY <1>1, <1>15 DEF Accept, CallRecords
  <2>2. Saved(d) \in Stored
    BY <2>1, RoutingSourcesAssumption DEF Saved, Stored, Drafts
  <2>3. source' \in [Ids -> Stored]
    BY <1>1, <1>15, <2>2 DEF Accept
  <2>4. pending' \in BOOLEAN
    BY <1>15, Zenon DEF Accept, Bump, Typing, TypeOK
  <2>5. revision' \in 0..MaxRevision /\ refreshing' \subseteq Ids
    BY <1>1, <1>15, RoutingSourcesAssumption DEF Accept, Bump, Release
  <2>6. UNCHANGED <<base, active, scope, draft, deleted>>
    BY <1>15 DEF Accept
  <2>7. call' \in [Calls -> CallRecords] /\ NamesSources'
    <3>1. CASE End(c)
      BY <1>1, <2>6, <3>1, EndStep DEF NamesSources, NoCall
    <3>2. CASE Fail(c)
      <4>1. call[c].draft.id \in Ids
        BY <1>1, <1>15 DEF Accept, NamesSources
      <4>2. QED
        BY <1>1, <2>6, <3>2, <4>1, FailStep DEF NamesSources, NoCall
    <3>3. QED
      BY <1>15, <3>1, <3>2 DEF Accept
  <2>8. QED
    BY <1>1, <2>3, <2>4, <2>5, <2>6, <2>7 DEF Typing, TypeOK, CallRecords, Ops, Pcs
<1>16. ASSUME NEW c \in Calls, RecordFailure(c) PROVE Typing'
  <2>1. source' \in [Ids -> Stored]
    BY <1>1, <1>16 DEF RecordFailure, Stored
  <2>2. pending' \in BOOLEAN
    BY <1>16, Zenon DEF RecordFailure, Typing, TypeOK
  <2>3. /\ call' \in [Calls -> CallRecords] /\ NamesSources' /\ refreshing' \subseteq Ids
        /\ UNCHANGED <<base, revision, active, scope, draft, deleted>>
    BY <1>1, <1>16, EndStep DEF RecordFailure, Release, NamesSources, NoCall
  <2>4. QED
    BY <1>1, <2>1, <2>2, <2>3 DEF Typing, TypeOK, CallRecords, Ops, Pcs
<1>17. ASSUME NEW t \in Tokens, Expire(t) PROVE Typing'
  BY <1>1, <1>2, <1>17, CallFrameTyping DEF Expire, NamesSources
<1>18. CASE Restart
  <2>1. /\ call' \in [Calls -> CallRecords] /\ draft' \in [Tokens -> Drafts]
        /\ refreshing' \subseteq Ids /\ NamesSources' /\ CallFrame
    BY <1>2, <1>18 DEF Restart, NamesSources, NoCall, CallFrame
  <2>2. QED
    BY <2>1, CallFrameTyping
<1>19. CASE UNCHANGED vars
  BY <1>1, <1>19, CallFrameTyping DEF vars, NamesSources, CallFrame
<1>20. QED
  BY <1>3, <1>4, <1>5, <1>6, <1>7, <1>8, <1>9, <1>10, <1>11, <1>12, <1>13, <1>14,
     <1>15, <1>16, <1>17, <1>18, <1>19 DEF Next, Proceed

-----------------------------------------------------------------------------
\* Rows leave the database only as a whole.
LEMMA MissingStep ==
  ASSUME Typing, NoRowIsMissing, [Next]_vars
  PROVE  NoRowIsMissing'
<1>1. source \in [Ids -> Stored]
  BY DEF Typing, TypeOK
<1>2. ASSUME NEW i \in Ids, Delete(i) PROVE NoRowIsMissing'
  BY <1>1, <1>2 DEF Delete, NoRowIsMissing, Exists
<1>3. ASSUME NEW c \in Calls, Accept(c) PROVE NoRowIsMissing'
  <2>1. call[c].draft.version \in Nat
    BY DEF Typing, TypeOK, Drafts
  <2>2. Saved(call[c].draft).version > 0
    BY <2>1 DEF Saved
  <2>3. source' = [source EXCEPT ![call[c].draft.id] = Saved(call[c].draft)]
    BY <1>3 DEF Accept
  <2>4. QED
    BY <1>1, <2>2, <2>3 DEF NoRowIsMissing, Exists
<1>4. ASSUME NEW c \in Calls, RecordFailure(c) PROVE NoRowIsMissing'
  BY <1>1, <1>4 DEF RecordFailure, Concerns, NoRowIsMissing, Exists, Stored
<1>5. CASE UNCHANGED source
  BY <1>5 DEF NoRowIsMissing, Exists
<1>6. QED
  BY <1>2, <1>3, <1>4, <1>5 DEF Next, Proceed, vars, Change, Apply, EditScope, Activate,
     Preview, Refresh, SavePreview, Lookup, LookupFails, Prepare, PrepareFails, LoadScope,
     FetchForPreview, FetchForRefresh, AcceptFails, Expire, Restart, CallFrame

\* Whatever happens, what is known of the database stays known.
LEMMA KnowledgeIsKept ==
  ASSUME Typing, [Next]_vars, NEW d \in Drafts, d.id \in Ids
  PROVE  /\ Current(d) => Current(d)'
         /\ Compiled(d) => Compiled(d)'
         /\ Compiled(d) /\ Scoped(d) => Scoped(d)'
<1> USE DEF Current, Compiled, Scoped, Row
<1>1. /\ source \in [Ids -> Stored] /\ scope \in [Ids -> Overrides]
      /\ revision \in Nat /\ d.revision \in Nat /\ d.version \in Nat
      /\ source[d.id] \in Stored /\ source[d.id].version \in Nat
  BY RoutingSourcesAssumption DEF Typing, TypeOK, Drafts, Stored
<1>2. CASE UNCHANGED <<base, revision, source, scope, deleted>>
  BY <1>2
<1>3. CASE Change \/ EditScope \/ Activate
  <2>1. revision' = revision + 1 /\ UNCHANGED <<source, deleted>>
    BY <1>3 DEF Change, EditScope, Activate, Bump
  <2>2. QED
    BY <1>1, <2>1
<1>4. ASSUME NEW i \in Ids, Delete(i)
      PROVE  /\ Current(d) => Current(d)'
             /\ Compiled(d) => Compiled(d)'
             /\ Compiled(d) /\ Scoped(d) => Scoped(d)'
  BY <1>1, <1>4 DEF Delete
<1>5. ASSUME NEW c \in Calls, Accept(c)
      PROVE  /\ Current(d) => Current(d)'
             /\ Compiled(d) => Compiled(d)'
             /\ Compiled(d) /\ Scoped(d) => Scoped(d)'
  <2> DEFINE a == call[c].draft
  <2>1. a \in Drafts /\ a.id \in Ids
    BY <1>5 DEF Accept, Typing, TypeOK, NamesSources
  <2>2. a.version = source[a.id].version
    BY <1>1, <1>5, <2>1 DEF Accept, Fits, Exists, Stored
  <2>3. /\ source' = [source EXCEPT ![a.id] = Saved(a)]
        /\ Saved(a).version = a.version + 1
        /\ UNCHANGED <<base, scope, deleted>>
    BY <1>5 DEF Accept, Saved
  <2>4. revision' = revision \/ revision' = revision + 1
    BY <1>5 DEF Accept, Bump
  <2>5. Current(d) => Current(d)'
    <3>1. CASE a.id = d.id
      BY <1>1, <2>2, <2>3, <3>1
    <3>2. CASE a.id # d.id
      BY <1>1, <2>3, <3>2
    <3>3. QED
      BY <3>1, <3>2
  <2>6. QED
    BY <1>1, <2>3, <2>4, <2>5
<1>6. ASSUME NEW c \in Calls, RecordFailure(c)
      PROVE  /\ Current(d) => Current(d)'
             /\ Compiled(d) => Compiled(d)'
             /\ Compiled(d) /\ Scoped(d) => Scoped(d)'
  <2>1. UNCHANGED <<base, revision, scope, deleted>>
    BY <1>6 DEF RecordFailure
  <2>2. [source'[d.id] EXCEPT !.failed = FALSE] = [source[d.id] EXCEPT !.failed = FALSE]
        /\ source'[d.id].version = source[d.id].version
    BY <1>1, <1>6 DEF RecordFailure, Stored
  <2>3. QED
    BY <2>1, <2>2
<1>7. QED
  BY <1>2, <1>3, <1>4, <1>5, <1>6 DEF Next, Proceed, vars, Apply,
     Preview, Refresh, SavePreview, Lookup, LookupFails, Prepare, PrepareFails, LoadScope,
     FetchForPreview, FetchForRefresh, AcceptFails, Expire, Restart, CallFrame

\* A call that is left alone keeps what it knows, and so does a token.
LEMMA HoldersKeepKnowledge ==
  ASSUME Typing, WorkIsCurrent, [Next]_vars
  PROVE  /\ \A c \in Calls : call'[c] = call[c] => Knows(call[c].pc, call[c].draft)'
         /\ \A t \in Tokens : draft'[t] = draft[t] /\ draft[t] # NoDraft =>
               Knows("accept", draft[t])'
<1>1. ASSUME NEW c \in Calls, call'[c] = call[c]
      PROVE  Knows(call[c].pc, call[c].draft)'
  <2>1. call[c].pc = "idle" \/ (call[c].draft \in Drafts /\ call[c].draft.id \in Ids)
    BY DEF Typing, TypeOK, NamesSources
  <2>2. Knows(call[c].pc, call[c].draft)
    BY DEF WorkIsCurrent
  <2>3. QED
    BY <1>1, <2>1, <2>2, KnowledgeIsKept DEF Knows, Current, Compiled, Scoped, Row
<1>2. ASSUME NEW t \in Tokens, draft'[t] = draft[t], draft[t] # NoDraft
      PROVE  Knows("accept", draft[t])'
  <2>1. draft[t] \in Drafts /\ draft[t].id \in Ids /\ Knows("accept", draft[t])
    BY <1>2 DEF Typing, TypeOK, NamesSources, WorkIsCurrent
  <2>2. QED
    BY <1>2, <2>1, KnowledgeIsKept DEF Knows, Current, Compiled, Scoped, Row
<1>3. QED
  BY <1>1, <1>2

\* A call may also pass its draft on, or drop it.
LEMMA HandedOn ==
  ASSUME Typing, WorkIsCurrent, [Next]_vars, NEW d \in Drafts, d.id \in Ids,
         NEW pc, Knows(pc, d)
  PROVE  Knows(pc, d)'
  BY KnowledgeIsKept DEF Knows

\* What has to be shown of a step of one call.
LEMMA CallKnows ==
  ASSUME Typing, WorkIsCurrent, [Next]_vars, NEW c \in Calls,
         \A b \in Calls \ {c} : call'[b] = call[b],
         Knows(call[c].pc, call[c].draft)',
         \A t \in Tokens : draft'[t] = draft[t] \/ draft'[t] = NoDraft
  PROVE  WorkIsCurrent'
<1>1. ASSUME NEW b \in Calls PROVE Knows(call[b].pc, call[b].draft)'
  BY HoldersKeepKnowledge
<1>2. ASSUME NEW t \in Tokens, draft'[t] # NoDraft PROVE Knows("accept", draft[t])'
  BY <1>2, HoldersKeepKnowledge
<1>3. QED
  BY <1>1, <1>2 DEF WorkIsCurrent

LEMMA WorkStep ==
  ASSUME Typing, WorkIsCurrent, [Next]_vars
  PROVE  WorkIsCurrent'
<1>1. /\ call \in [Calls -> CallRecords] /\ base \in Bases /\ NamesSources
      /\ source \in [Ids -> Stored] /\ draft \in [Tokens -> Drafts]
      /\ scope \in [Ids -> Overrides] /\ revision \in Nat
  BY RoutingSourcesAssumption DEF Typing, TypeOK, CallRecords, Ops, Pcs
<1>2. CASE UNCHANGED <<call, draft>>
  BY <1>2, HoldersKeepKnowledge DEF WorkIsCurrent
<1>3. ASSUME NEW c \in Calls, call'[c] = NoCall, UNCHANGED draft,
             \A b \in Calls \ {c} : call'[b] = call[b]
      PROVE  WorkIsCurrent'
  BY <1>3, CallKnows DEF Knows, NoCall
<1>4. ASSUME NEW c \in Calls, Fail(c), UNCHANGED draft, Knows("failed", call[c].draft),
             call[c].draft.id \in Ids
      PROVE  WorkIsCurrent'
  <2>1. CASE call'[c] = NoCall
    BY <1>1, <1>3, <1>4, <2>1, FailStep
  <2>2. CASE call'[c].pc = "failed" /\ call'[c].draft = call[c].draft
    <3>1. Knows("failed", call[c].draft)'
      BY <1>1, <1>4, <2>2, KnowledgeIsKept DEF Knows, Current, Row, CallRecords
    <3>2. QED
      BY <1>1, <1>4, <2>2, <3>1, FailStep, CallKnows
  <2>3. QED
    BY <1>1, <1>4, <2>1, <2>2, FailStep
<1>5. ASSUME NEW c \in Calls, Preview(c) PROVE WorkIsCurrent'
  <2>1. PICK i \in Ids, f \in Forms :
           Set(c, "preview", "prepare",
               [NoDraft EXCEPT !.id = i, !.version = source[i].version,
                               !.form = f, !.seen = Row(i)])
    BY <1>5 DEF Preview
  <2> DEFINE d == [NoDraft EXCEPT !.id = i, !.version = source[i].version,
                                  !.form = f, !.seen = Row(i)]
  <2>2. /\ d \in Drafts /\ d.id = i /\ d.version = source[i].version /\ d.seen = Row(i)
        /\ "preview" \in Ops /\ "prepare" \in Pcs
    BY SeenDraft DEF Ops, Pcs
  <2>3. Set(c, "preview", "prepare", d)
    BY <2>1
  <2> HIDE DEF d
  <2>4. /\ call'[c].pc = "prepare" /\ call'[c].draft = d
        /\ \A b \in Calls \ {c} : call'[b] = call[b]
    BY <1>1, <2>2, <2>3, SetStep DEF Set
  <2>5. source[i].version \in Nat
    BY <1>1 DEF Stored
  <2>6. Knows("prepare", d)
    BY <2>2, <2>5 DEF Knows, Current
  <2>7. Knows(call[c].pc, call[c].draft)'
    BY <1>5, <2>4, <2>6 DEF Preview, CallFrame, Knows, Current, Row
  <2>8. QED
    BY <1>5, <2>4, <2>7, CallKnows DEF Preview
<1>6. ASSUME NEW c \in Calls, Refresh(c) PROVE WorkIsCurrent'
  <2>1. call'[c].pc = "lookup" /\ \A b \in Calls \ {c} : call'[b] = call[b]
    BY <1>1, <1>6 DEF Refresh, Set
  <2>2. QED
    BY <1>6, <2>1, CallKnows DEF Refresh, Knows
<1>7. ASSUME NEW c \in Calls, SavePreview(c) PROVE WorkIsCurrent'
  <2>1. PICK t \in Tokens : /\ draft[t] # NoDraft
                            /\ draft' = [draft EXCEPT ![t] = NoDraft]
                            /\ Set(c, "save", "accept", draft[t])
    BY <1>7 DEF SavePreview
  <2>2. /\ call'[c].pc = "accept" /\ call'[c].draft = draft[t]
        /\ \A b \in Calls \ {c} : call'[b] = call[b]
    BY <1>1, <2>1 DEF Set
  <2>3. draft[t] \in Drafts /\ draft[t].id \in Ids /\ Knows("accept", draft[t])
    BY <1>1, <2>1 DEF NamesSources, WorkIsCurrent
  <2>4. Knows(call[c].pc, call[c].draft)'
    BY <1>7, <2>2, <2>3 DEF SavePreview, CallFrame, Knows, Current, Compiled, Scoped, Row
  <2>5. QED
    BY <1>1, <2>1, <2>2, <2>4, CallKnows
<1>8. ASSUME NEW c \in Calls, Lookup(c) PROVE WorkIsCurrent'
  <2>1. PICK i \in Ids : i = call[c].draft.id
    BY <1>1, <1>8 DEF Lookup, NamesSources
  <2> DEFINE d == [NoDraft EXCEPT !.id = i, !.version = source[i].version,
                                  !.form = source[i].form, !.seen = Row(i)]
  <2>2. Set(c, "refresh", "prepare", d)
    BY <1>8, <2>1 DEF Lookup
  <2>3. source[i].form \in Forms /\ source[i].version \in Nat
    BY <1>1 DEF Stored
  <2>4. d \in Drafts /\ d.id = i /\ d.version = source[i].version /\ d.seen = Row(i)
    BY <2>3, SeenDraft
  <2> HIDE DEF d
  <2>5. /\ call'[c].pc = "prepare" /\ call'[c].draft = d
        /\ \A b \in Calls \ {c} : call'[b] = call[b]
    BY <1>1, <2>2, <2>4 DEF Set
  <2>6. Knows("prepare", d)
    BY <2>3, <2>4 DEF Knows, Current
  <2>7. Knows(call[c].pc, call[c].draft)'
    BY <1>8, <2>5, <2>6 DEF Lookup, CallFrame, Knows, Current, Row
  <2>8. QED
    BY <1>8, <2>5, <2>7, CallKnows DEF Lookup
<1>9. ASSUME NEW c \in Calls, LookupFails(c) PROVE WorkIsCurrent'
  BY <1>1, <1>3, <1>9, EndStep DEF LookupFails
<1>10. ASSUME NEW c \in Calls, Prepare(c) PROVE WorkIsCurrent'
  <2>1. Current(call[c].draft)
    BY <1>10 DEF Prepare, WorkIsCurrent, Knows
  <2>2. Current(call[c].draft)' /\ Compiled(call[c].draft)'
    <3>1. /\ call'[c].draft.id = call[c].draft.id
          /\ call'[c].draft.version = call[c].draft.version
          /\ call'[c].draft.seen = call[c].draft.seen
          /\ call'[c].draft.revision = revision
          /\ call'[c].draft.base = base
      BY <1>10, PrepareStep
    <3>2. UNCHANGED <<base, revision, source, scope, deleted>>
      BY <1>10 DEF Prepare, CallFrame
    <3>3. QED
      BY <1>1, <2>1, <3>1, <3>2 DEF Current, Compiled, Row
  <2>3. Knows(call[c].pc, call[c].draft)'
    BY <1>10, <2>2, PrepareStep DEF Knows
  <2>4. QED
    BY <1>10, <2>3, PrepareStep, CallKnows DEF Prepare
<1>11. ASSUME NEW c \in Calls, PrepareFails(c) \/ AcceptFails(c) PROVE WorkIsCurrent'
  <2>1. call[c].pc \in {"prepare", "scope", "fetch", "accept"} /\ UNCHANGED draft
    BY <1>11 DEF PrepareFails, AcceptFails
  <2>2. Knows("failed", call[c].draft) /\ call[c].draft.id \in Ids
    BY <1>1, <2>1 DEF WorkIsCurrent, Knows, NamesSources
  <2>3. QED
    BY <1>4, <1>11, <2>1, <2>2 DEF PrepareFails, AcceptFails
<1>12. ASSUME NEW c \in Calls, LoadScope(c) PROVE WorkIsCurrent'
  <2>1. Current(call[c].draft) /\ Compiled(call[c].draft)
    BY <1>12 DEF LoadScope, WorkIsCurrent, Knows
  <2>2. /\ Current(call[c].draft)' /\ Compiled(call[c].draft)'
        /\ Scoped(call[c].draft)'
    <3>1. /\ call'[c].draft.id = call[c].draft.id
          /\ call'[c].draft.version = call[c].draft.version
          /\ call'[c].draft.seen = call[c].draft.seen
          /\ call'[c].draft.revision = call[c].draft.revision
          /\ call'[c].draft.base = call[c].draft.base
          /\ call'[c].draft.scope = scope[call[c].draft.id]
      BY <1>12, LoadScopeStep
    <3>2. UNCHANGED <<base, revision, source, scope, deleted>>
      BY <1>12 DEF LoadScope, CallFrame
    <3>3. QED
      BY <1>1, <2>1, <3>1, <3>2 DEF Current, Compiled, Scoped, Row
  <2>3. Knows(call[c].pc, call[c].draft)'
    BY <1>12, <2>2, LoadScopeStep DEF Knows
  <2>4. QED
    BY <1>12, <2>3, LoadScopeStep, CallKnows DEF LoadScope
<1>13. ASSUME NEW c \in Calls, FetchForPreview(c) PROVE WorkIsCurrent'
  <2>1. PICK t \in Tokens, v \in Contents : draft' = [draft EXCEPT ![t] = Fetched(c, v)]
    BY <1>13 DEF FetchForPreview
  <2>2. Knows("accept", Fetched(c, v))
    BY <1>1, <1>13, FetchedDraft
       DEF FetchForPreview, WorkIsCurrent, Knows, Current, Compiled, Scoped
  <2>3. draft'[t] = Fetched(c, v) /\ \A u \in Tokens \ {t} : draft'[u] = draft[u]
    BY <1>1, <2>1
  <2>4. Knows("accept", draft[t])'
    BY <1>13, <2>2, <2>3 DEF FetchForPreview, CallFrame, Knows, Current, Compiled, Scoped, Row
  <2>5. \A u \in Tokens : draft'[u] # NoDraft => Knows("accept", draft[u])'
    BY <2>3, <2>4, HoldersKeepKnowledge
  <2>6. \A b \in Calls : Knows(call[b].pc, call[b].draft)'
    <3>1. call'[c].pc = "idle" /\ \A b \in Calls \ {c} : call'[b] = call[b]
      BY <1>1, <1>13, EndStep DEF FetchForPreview, NoCall
    <3>2. QED
      BY <3>1, HoldersKeepKnowledge DEF Knows
  <2>7. QED
    BY <2>5, <2>6 DEF WorkIsCurrent
<1>14. ASSUME NEW c \in Calls, FetchForRefresh(c) PROVE WorkIsCurrent'
  <2>1. PICK v \in Contents : Set(c, "refresh", "accept", Fetched(c, v))
    BY <1>14 DEF FetchForRefresh
  <2>2. Knows("accept", Fetched(c, v))
    BY <1>1, <1>14, FetchedDraft
       DEF FetchForRefresh, WorkIsCurrent, Knows, Current, Compiled, Scoped
  <2>3. /\ call'[c].pc = "accept" /\ call'[c].draft = Fetched(c, v)
        /\ \A b \in Calls \ {c} : call'[b] = call[b]
    BY <1>1, <2>1 DEF Set
  <2>4. Knows(call[c].pc, call[c].draft)'
    BY <1>14, <2>2, <2>3
       DEF FetchForRefresh, CallFrame, Knows, Current, Compiled, Scoped, Row
  <2>5. QED
    BY <1>14, <2>3, <2>4, CallKnows DEF FetchForRefresh
<1>15. ASSUME NEW c \in Calls, Accept(c) PROVE WorkIsCurrent'
  <2>1. End(c) \/ Fail(c)
    BY <1>15 DEF Accept
  <2>2. call[c].pc = "accept" /\ UNCHANGED draft
    BY <1>15 DEF Accept
  <2>3. Knows("failed", call[c].draft) /\ call[c].draft.id \in Ids
    BY <1>1, <2>2 DEF WorkIsCurrent, Knows, NamesSources
  <2>4. QED
    BY <1>1, <1>3, <1>4, <2>1, <2>2, <2>3, EndStep
<1>16. ASSUME NEW c \in Calls, RecordFailure(c) PROVE WorkIsCurrent'
  BY <1>1, <1>3, <1>16, EndStep DEF RecordFailure
<1>17. ASSUME NEW t \in Tokens, Expire(t) PROVE WorkIsCurrent'
  <2>1. draft' = [draft EXCEPT ![t] = NoDraft] /\ UNCHANGED call
    BY <1>17 DEF Expire
  <2>2. QED
    BY <1>1, <2>1, HoldersKeepKnowledge DEF WorkIsCurrent
<1>18. CASE Restart
  BY <1>18 DEF Restart, WorkIsCurrent, Knows, NoCall
<1>19. QED
  BY <1>2, <1>5, <1>6, <1>7, <1>8, <1>9, <1>10, <1>11, <1>12, <1>13, <1>14, <1>15,
     <1>16, <1>17, <1>18
     DEF Next, Proceed, vars, Change, EditScope, Apply, Activate, Delete

-----------------------------------------------------------------------------
\* A source that is not stored yet is the business of one draft: nobody else names
\* its identifier, which no source had before.
Unsaved(i) == ~Exists(i) /\ i \notin deleted

CallsWithNew ==
    \A c \in Calls :
       /\ call[c].pc \in {"prepare", "scope", "fetch", "accept"}
       /\ call[c].draft.version = 0
       => /\ Unsaved(call[c].draft.id)
          /\ \A b \in Calls \ {c} : call[b].draft.id # call[c].draft.id
          /\ \A t \in Tokens : draft[t].id # call[c].draft.id

TokensWithNew ==
    \A t \in Tokens :
       draft[t] # NoDraft /\ draft[t].version = 0
       => /\ Unsaved(draft[t].id)
          /\ \A c \in Calls : call[c].draft.id # draft[t].id
          /\ \A u \in Tokens \ {t} : draft[u].id # draft[t].id

DeletedIsGone == \A i \in deleted : ~Exists(i)

OneDraftOfNew == CallsWithNew /\ TokensWithNew /\ DeletedIsGone

\* What a step does to identifiers: of the calls and tokens, none but a preview that
\* takes a fresh one names what it has not named before.
LEMMA UnsavedStays ==
  ASSUME Typing, [Next]_vars, NEW i \in Ids, Unsaved(i),
         \A c \in Calls : Accept(c) => call[c].draft.id # i
  PROVE  Unsaved(i)'
<1>1. source \in [Ids -> Stored]
  BY DEF Typing, TypeOK
<1>2. ASSUME NEW j \in Ids, Delete(j) PROVE Unsaved(i)'
  BY <1>1, <1>2 DEF Delete, Unsaved, Exists
<1>3. ASSUME NEW c \in Calls, Accept(c) PROVE Unsaved(i)'
  BY <1>1, <1>3 DEF Accept, Unsaved, Exists
<1>4. ASSUME NEW c \in Calls, RecordFailure(c) PROVE Unsaved(i)'
  BY <1>1, <1>4 DEF RecordFailure, Concerns, Unsaved, Exists
<1>5. CASE UNCHANGED <<source, deleted>>
  BY <1>5 DEF Unsaved, Exists
<1>6. QED
  BY <1>2, <1>3, <1>4, <1>5 DEF Next, Proceed, vars, Change, Apply, EditScope, Activate,
     Preview, Refresh, SavePreview, Lookup, LookupFails, Prepare, PrepareFails, LoadScope,
     FetchForPreview, FetchForRefresh, AcceptFails, Expire, Restart, CallFrame

LEMMA DeletedStep ==
  ASSUME Typing, NoRowIsMissing, OneDraftOfNew, [Next]_vars
  PROVE  DeletedIsGone'
<1>1. source \in [Ids -> Stored] /\ deleted \subseteq Ids
  BY DEF Typing, TypeOK
<1>2. ASSUME NEW j \in Ids, Delete(j) PROVE DeletedIsGone'
  <2>1. source' = [source EXCEPT ![j] = Missing] /\ deleted' = deleted \cup {j}
    BY <1>2 DEF Delete
  <2>2. Missing.version = 0
    BY DEF Missing
  <2>3. QED
    BY <1>1, <2>1, <2>2 DEF OneDraftOfNew, DeletedIsGone, Exists
<1>3. ASSUME NEW c \in Calls, Accept(c) PROVE DeletedIsGone'
  <2> DEFINE i == call[c].draft.id
  <2>1. /\ source' = [source EXCEPT ![i] = Saved(call[c].draft)]
        /\ deleted' = deleted /\ call[c].pc = "accept" /\ Fits(call[c].draft)
    BY <1>3 DEF Accept
  <2>2. i \notin deleted
    <3>1. CASE Exists(i)
      BY <3>1 DEF OneDraftOfNew, DeletedIsGone
    <3>2. CASE ~Exists(i)
      BY <2>1, <3>2 DEF Fits, OneDraftOfNew, CallsWithNew, Unsaved
    <3>3. QED
      BY <3>1, <3>2
  <2>3. QED
    BY <1>1, <2>1, <2>2 DEF OneDraftOfNew, DeletedIsGone, Exists
<1>4. ASSUME NEW c \in Calls, RecordFailure(c) PROVE DeletedIsGone'
  BY <1>1, <1>4 DEF RecordFailure, Concerns, OneDraftOfNew, DeletedIsGone, Exists
<1>5. CASE UNCHANGED <<source, deleted>>
  BY <1>5 DEF OneDraftOfNew, DeletedIsGone, Exists
<1>6. QED
  BY <1>2, <1>3, <1>4, <1>5 DEF Next, Proceed, vars, Change, Apply, EditScope, Activate,
     Preview, Refresh, SavePreview, Lookup, LookupFails, Prepare, PrepareFails, LoadScope,
     FetchForPreview, FetchForRefresh, AcceptFails, Expire, Restart, CallFrame

\* Steps in which nobody comes to a new source: calls and tokens go on with their
\* identifiers or give them up.
LEMMA NobodyNew ==
  ASSUME Typing, OneDraftOfNew, [Next]_vars, DeletedIsGone',
         \A b \in Calls : call'[b].draft.id \in {call[b].draft.id, NoSource},
         \A t \in Tokens : draft'[t] = draft[t] \/ draft'[t] = NoDraft,
         \A b \in Calls :
            call'[b].pc \in {"prepare", "scope", "fetch", "accept"}
            /\ call'[b].draft.version = 0
            => /\ call[b].pc \in {"prepare", "scope", "fetch", "accept"}
               /\ call[b].draft.version = 0
               /\ call'[b].draft.id = call[b].draft.id
               /\ ~Accept(b)
  PROVE  OneDraftOfNew'
<1>1. NamesSources /\ NoSource \notin Ids /\ NoDraft.id = NoSource
  BY RoutingSourcesAssumption DEF Typing, NoDraft
<1>2. ASSUME NEW c \in Calls,
             call'[c].pc \in {"prepare", "scope", "fetch", "accept"},
             call'[c].draft.version = 0
      PROVE  /\ Unsaved(call[c].draft.id)'
             /\ \A b \in Calls \ {c} : call'[b].draft.id # call'[c].draft.id
             /\ \A t \in Tokens : draft'[t].id # call'[c].draft.id
  <2>1. PICK i \in Ids : i = call[c].draft.id
    BY <1>1, <1>2 DEF NamesSources
  <2>2. /\ call'[c].draft.id = i /\ Unsaved(i) /\ ~Accept(c)
        /\ \A b \in Calls \ {c} : call[b].draft.id # i
        /\ \A t \in Tokens : draft[t].id # i
    BY <1>2, <2>1 DEF OneDraftOfNew, CallsWithNew
  <2>3. Unsaved(i)'
    BY <2>1, <2>2, UnsavedStays
  <2>4. QED
    BY <1>1, <2>1, <2>2, <2>3 DEF Unsaved, Exists
<1>3. ASSUME NEW t \in Tokens, draft'[t] # NoDraft, draft'[t].version = 0
      PROVE  /\ Unsaved(draft[t].id)'
             /\ \A c \in Calls : call'[c].draft.id # draft'[t].id
             /\ \A u \in Tokens \ {t} : draft'[u].id # draft'[t].id
  <2>1. PICK i \in Ids : i = draft[t].id
    BY <1>1, <1>3 DEF NamesSources
  <2>2. /\ draft'[t].id = i /\ Unsaved(i)
        /\ \A c \in Calls : call[c].draft.id # i
        /\ \A u \in Tokens \ {t} : draft[u].id # i
    BY <1>3, <2>1 DEF OneDraftOfNew, TokensWithNew
  <2>3. Unsaved(i)'
    BY <2>2, UnsavedStays
  <2>4. QED
    BY <1>1, <2>1, <2>2, <2>3 DEF Unsaved, Exists
<1>4. QED
  BY <1>2, <1>3 DEF OneDraftOfNew, CallsWithNew, TokensWithNew

LEMMA OneDraftStep ==
  ASSUME Typing, NoRowIsMissing, OneDraftOfNew, [Next]_vars
  PROVE  OneDraftOfNew'
<1>1. /\ call \in [Calls -> CallRecords] /\ base \in Bases /\ NamesSources
      /\ source \in [Ids -> Stored] /\ draft \in [Tokens -> Drafts]
      /\ NoSource \notin Ids /\ NoDraft.id = NoSource
      /\ NoCall.draft.id = NoSource /\ NoCall.pc = "idle"
  BY RoutingSourcesAssumption
     DEF Typing, TypeOK, CallRecords, Ops, Pcs, NoDraft, NoCall
<1>2. DeletedIsGone'
  BY DeletedStep
<1>3. ASSUME NEW c \in Calls, \A b \in Calls \ {c} : call'[b] = call[b],
             \A t \in Tokens : draft'[t] = draft[t] \/ draft'[t] = NoDraft,
             call'[c].draft.id \in {call[c].draft.id, NoSource},
             \/ call'[c].pc \notin {"prepare", "scope", "fetch", "accept"}
             \/ call'[c].draft.version # 0
             \/ /\ call[c].pc \in {"prepare", "scope", "fetch", "accept"}
                /\ call'[c].draft.version = call[c].draft.version
                /\ call'[c].draft.id = call[c].draft.id
                /\ ~Accept(c),
             \A b \in Calls \ {c} : ~Accept(b)
      PROVE  OneDraftOfNew'
  BY <1>2, <1>3, NobodyNew
<1>4. ASSUME UNCHANGED call, \A t \in Tokens : draft'[t] = draft[t] \/ draft'[t] = NoDraft
      PROVE  OneDraftOfNew'
  <2>1. ASSUME NEW b \in Calls, Accept(b) PROVE FALSE
    BY <1>1, <1>4, <2>1, EndStep, FailStep DEF Accept
  <2>2. QED
    BY <1>2, <1>4, <2>1, NobodyNew
<1>5. ASSUME NEW c \in Calls, NEW b \in Calls, b # c, call'[b] = call[b] PROVE ~Accept(b)
  BY <1>1, <1>5, EndStep, FailStep DEF Accept
<1>6. ASSUME NEW c \in Calls, End(c),
             \A t \in Tokens : draft'[t] = draft[t] \/ draft'[t] = NoDraft
      PROVE  OneDraftOfNew'
  BY <1>1, <1>3, <1>5, <1>6, EndStep
<1>7. ASSUME NEW c \in Calls, Fail(c), UNCHANGED draft
      PROVE  OneDraftOfNew'
  BY <1>1, <1>3, <1>5, <1>7, FailStep
<1>8. ASSUME NEW c \in Calls, Preview(c) PROVE OneDraftOfNew'
  <2>1. PICK i \in Ids, f \in Forms :
           /\ Exists(i) \/ Fresh(i)
           /\ Set(c, "preview", "prepare",
                  [NoDraft EXCEPT !.id = i, !.version = source[i].version,
                                  !.form = f, !.seen = Row(i)])
    BY <1>8 DEF Preview
  <2> DEFINE d == [NoDraft EXCEPT !.id = i, !.version = source[i].version,
                                  !.form = f, !.seen = Row(i)]
  <2>2. Set(c, "preview", "prepare", d)
    BY <2>1
  <2>3. d \in Drafts /\ d.id = i /\ d.version = source[i].version
    BY SeenDraft
  <2> HIDE DEF d
  <2>4. /\ call'[c].draft = d
        /\ \A b \in Calls \ {c} : call'[b] = call[b]
    BY <1>1, <2>2, <2>3 DEF Set
  <2>5. UNCHANGED <<draft, source, deleted>>
    BY <1>8 DEF Preview, CallFrame
  <2>6. d.version = 0 => Fresh(i)
    BY <2>1, <2>3 DEF Exists
  <2>7. CallsWithNew'
    BY <2>1, <2>3, <2>4, <2>5, <2>6
       DEF OneDraftOfNew, CallsWithNew, Unsaved, Exists, Fresh
  <2>8. TokensWithNew'
    BY <2>1, <2>3, <2>4, <2>5 DEF OneDraftOfNew, TokensWithNew, Unsaved, Exists, Fresh
  <2>9. QED
    BY <1>2, <2>7, <2>8 DEF OneDraftOfNew
<1>9. ASSUME NEW c \in Calls, Refresh(c) PROVE OneDraftOfNew'
  <2>1. PICK i \in Ids :
           Exists(i) /\ Set(c, "refresh", "lookup", [NoDraft EXCEPT !.id = i])
    BY <1>9 DEF Refresh
  <2> DEFINE d == [NoDraft EXCEPT !.id = i]
  <2>2. Set(c, "refresh", "lookup", d)
    BY <2>1
  <2>3. d \in Drafts /\ d.id = i
    BY <1>1, MarkedDraft
  <2> HIDE DEF d
  <2>4. /\ call'[c].draft = d /\ call'[c].pc = "lookup"
        /\ \A b \in Calls \ {c} : call'[b] = call[b]
    BY <1>1, <2>2, <2>3 DEF Set
  <2>5. UNCHANGED <<draft, source, deleted>>
    BY <1>9 DEF Refresh, CallFrame
  <2>6. CallsWithNew'
    BY <2>1, <2>3, <2>4, <2>5 DEF OneDraftOfNew, CallsWithNew, Unsaved, Exists
  <2>7. TokensWithNew'
    BY <2>1, <2>3, <2>4, <2>5 DEF OneDraftOfNew, TokensWithNew, Unsaved, Exists
  <2>8. QED
    BY <1>2, <2>6, <2>7 DEF OneDraftOfNew
<1>10. ASSUME NEW c \in Calls, SavePreview(c) PROVE OneDraftOfNew'
  <2>1. PICK t \in Tokens : /\ draft[t] # NoDraft
                            /\ draft' = [draft EXCEPT ![t] = NoDraft]
                            /\ Set(c, "save", "accept", draft[t])
    BY <1>10 DEF SavePreview
  <2>2. /\ call'[c].draft = draft[t]
        /\ \A b \in Calls \ {c} : call'[b] = call[b]
        /\ draft'[t] = NoDraft /\ \A u \in Tokens \ {t} : draft'[u] = draft[u]
    BY <1>1, <2>1 DEF Set
  <2>3. UNCHANGED <<source, deleted>> /\ draft[t].id \in Ids
    BY <1>1, <1>10, <2>1 DEF SavePreview, CallFrame, NamesSources
  <2>4. ASSUME draft[t].version = 0
        PROVE  /\ Unsaved(draft[t].id)
               /\ \A b \in Calls : call[b].draft.id # draft[t].id
               /\ \A u \in Tokens \ {t} : draft[u].id # draft[t].id
    BY <2>1, <2>4 DEF OneDraftOfNew, TokensWithNew
  <2>5. ASSUME NEW b \in Calls \ {c},
               call[b].pc \in {"prepare", "scope", "fetch", "accept"},
               call[b].draft.version = 0
        PROVE  /\ Unsaved(call[b].draft.id) /\ call[b].draft.id \in Ids
               /\ \A a \in Calls \ {b} : call'[a].draft.id # call[b].draft.id
               /\ \A u \in Tokens : draft'[u].id # call[b].draft.id
    <3>1. /\ Unsaved(call[b].draft.id) /\ call[b].draft.id \in Ids
          /\ \A a \in Calls \ {b} : call[a].draft.id # call[b].draft.id
          /\ \A u \in Tokens : draft[u].id # call[b].draft.id
      BY <1>1, <2>5 DEF OneDraftOfNew, CallsWithNew, NamesSources
    <3>2. QED
      BY <1>1, <2>2, <3>1
  <2>6. ASSUME NEW u \in Tokens \ {t}, draft[u] # NoDraft, draft[u].version = 0
        PROVE  /\ Unsaved(draft[u].id)
               /\ \A a \in Calls : call'[a].draft.id # draft[u].id
               /\ \A w \in Tokens \ {u} : draft'[w].id # draft[u].id
    <3>1. /\ Unsaved(draft[u].id) /\ draft[u].id \in Ids
          /\ \A a \in Calls : call[a].draft.id # draft[u].id
          /\ \A w \in Tokens \ {u} : draft[w].id # draft[u].id
      BY <1>1, <2>6 DEF OneDraftOfNew, TokensWithNew, NamesSources
    <3>2. QED
      BY <1>1, <2>2, <3>1
  <2>7. CallsWithNew'
    BY <1>1, <2>2, <2>3, <2>4, <2>5 DEF CallsWithNew, Unsaved, Exists
  <2>8. TokensWithNew'
    BY <2>2, <2>3, <2>6 DEF TokensWithNew, Unsaved, Exists
  <2>9. QED
    BY <1>2, <2>7, <2>8 DEF OneDraftOfNew
<1>11. ASSUME NEW c \in Calls, Lookup(c) PROVE OneDraftOfNew'
  <2>1. PICK i \in Ids : i = call[c].draft.id
    BY <1>1, <1>11 DEF Lookup, NamesSources
  <2> DEFINE d == [NoDraft EXCEPT !.id = i, !.version = source[i].version,
                                  !.form = source[i].form, !.seen = Row(i)]
  <2>2. Set(c, "refresh", "prepare", d) /\ Exists(i)
    BY <1>11, <2>1 DEF Lookup
  <2>3. source[i].version # 0
    BY <1>1, <2>2 DEF Stored, Exists
  <2>4. d \in Drafts /\ d.id = i /\ d.version = source[i].version
    <3>1. source[i].form \in Forms
      BY <1>1 DEF Stored
    <3>2. QED
      BY <3>1, SeenDraft
  <2> HIDE DEF d
  <2>5. /\ call'[c].pc = "prepare" /\ call'[c].draft = d
        /\ \A b \in Calls \ {c} : call'[b] = call[b]
    BY <1>1, <2>2, <2>4 DEF Set
  <2>6. UNCHANGED draft
    BY <1>11 DEF Lookup
  <2>7. QED
    BY <1>3, <1>5, <2>1, <2>3, <2>4, <2>5, <2>6
<1>12. ASSUME NEW c \in Calls, Prepare(c) PROVE OneDraftOfNew'
  <2>1. call[c].pc = "prepare" /\ UNCHANGED draft /\ ~Accept(c)
    BY <1>12 DEF Prepare, Accept
  <2>2. QED
    BY <1>3, <1>5, <1>12, <2>1, PrepareStep
<1>13. ASSUME NEW c \in Calls, LoadScope(c) PROVE OneDraftOfNew'
  <2>1. call[c].pc = "scope" /\ UNCHANGED draft /\ ~Accept(c)
    BY <1>13 DEF LoadScope, Accept
  <2>2. QED
    BY <1>3, <1>5, <1>13, <2>1, LoadScopeStep
<1>14. ASSUME NEW c \in Calls, FetchForPreview(c) PROVE OneDraftOfNew'
  <2>1. PICK t \in Tokens, v \in Contents :
           draft[t] = NoDraft /\ draft' = [draft EXCEPT ![t] = Fetched(c, v)]
    BY <1>14 DEF FetchForPreview
  <2>2. /\ Fetched(c, v).id = call[c].draft.id
        /\ Fetched(c, v).version = call[c].draft.version
    BY <1>1, FetchedDraft
  <2>3. /\ call'[c] = NoCall /\ \A b \in Calls \ {c} : call'[b] = call[b]
        /\ draft'[t] = Fetched(c, v) /\ \A u \in Tokens \ {t} : draft'[u] = draft[u]
    BY <1>1, <1>14, <2>1, EndStep DEF FetchForPreview
  <2>4. UNCHANGED <<source, deleted>> /\ call[c].pc = "fetch" /\ call[c].draft.id \in Ids
    BY <1>1, <1>14 DEF FetchForPreview, CallFrame, NamesSources
  <2>5. CallsWithNew'
    BY <1>1, <2>1, <2>2, <2>3, <2>4
       DEF OneDraftOfNew, CallsWithNew, TokensWithNew, Unsaved, Exists, NamesSources
  <2>6. TokensWithNew'
    BY <1>1, <2>1, <2>2, <2>3, <2>4
       DEF OneDraftOfNew, CallsWithNew, TokensWithNew, Unsaved, Exists, NamesSources
  <2>7. QED
    BY <1>2, <2>5, <2>6 DEF OneDraftOfNew
<1>15. ASSUME NEW c \in Calls, FetchForRefresh(c) PROVE OneDraftOfNew'
  <2>1. PICK v \in Contents : Set(c, "refresh", "accept", Fetched(c, v))
    BY <1>15 DEF FetchForRefresh
  <2>2. /\ call[c].pc = "fetch" /\ UNCHANGED draft /\ ~Accept(c)
        /\ call'[c].draft = Fetched(c, v)
        /\ \A b \in Calls \ {c} : call'[b] = call[b]
    BY <1>1, <1>15, <2>1 DEF FetchForRefresh, Accept, Set
  <2>3. /\ Fetched(c, v).id = call[c].draft.id
        /\ Fetched(c, v).version = call[c].draft.version
    BY <1>1, FetchedDraft
  <2>4. QED
    BY <1>3, <1>5, <2>2, <2>3
<1>16. CASE Restart
  <2>1. /\ \A b \in Calls : call'[b].draft.id = NoSource /\ call'[b].pc = "idle"
        /\ \A t \in Tokens : draft'[t] = NoDraft
    BY <1>1, <1>16 DEF Restart
  <2>2. QED
    BY <1>2, <2>1, NobodyNew
<1>17. QED
  <2>1. ASSUME NEW t \in Tokens, Expire(t) PROVE OneDraftOfNew'
    BY <1>1, <1>4, <2>1 DEF Expire
  <2>2. ASSUME NEW c \in Calls, LookupFails(c) \/ RecordFailure(c) PROVE OneDraftOfNew'
    BY <1>6, <2>2 DEF LookupFails, RecordFailure
  <2>3. ASSUME NEW c \in Calls, PrepareFails(c) \/ AcceptFails(c) PROVE OneDraftOfNew'
    BY <1>7, <2>3 DEF PrepareFails, AcceptFails
  <2>4. ASSUME NEW c \in Calls, Accept(c) PROVE OneDraftOfNew'
    BY <1>6, <1>7, <2>4 DEF Accept
  <2>5. ASSUME UNCHANGED <<call, draft>> PROVE OneDraftOfNew'
    BY <1>4, <2>5
  <2>6. QED
    BY <1>8, <1>9, <1>10, <1>11, <1>12, <1>13, <1>14, <1>15, <1>16, <2>1, <2>2, <2>3,
       <2>4, <2>5 DEF Next, Proceed, vars, Change, EditScope, Apply, Activate, Delete

-----------------------------------------------------------------------------
LEMMA DanglesStep ==
  ASSUME Typing, NothingDangles, [Next]_vars
  PROVE  NothingDangles'
<1>1. /\ source \in [Ids -> Stored] /\ scope \in [Ids -> Overrides]
      /\ NoSource \notin Ids /\ Missing.version = 0
      /\ active \in Ids \cup {NoSource}
  BY RoutingSourcesAssumption DEF Typing, TypeOK, Missing
<1>2. ASSUME NEW i \in Ids, Delete(i) PROVE NothingDangles'
  <2>1. /\ source' = [source EXCEPT ![i] = Missing] /\ active # i
        /\ scope' = [scope EXCEPT ![i] = NoOverride] /\ UNCHANGED active
    BY <1>2 DEF Delete
  <2>2. QED
    BY <1>1, <2>1 DEF NothingDangles, Exists
<1>3. ASSUME NEW c \in Calls, Accept(c) PROVE NothingDangles'
  <2> DEFINE d == call[c].draft
  <2>1. /\ source' = [source EXCEPT ![d.id] = Saved(d)] /\ UNCHANGED <<active, scope>>
    BY <1>3 DEF Accept
  <2>2. d.version \in Nat
    BY DEF Typing, TypeOK, Drafts
  <2>3. Saved(d).version > 0
    BY <2>2 DEF Saved
  <2>4. QED
    BY <1>1, <2>1, <2>3 DEF NothingDangles, Exists
<1>4. ASSUME NEW c \in Calls, RecordFailure(c) PROVE NothingDangles'
  <2>1. UNCHANGED <<active, scope>>
    BY <1>4 DEF RecordFailure
  <2>2. \A i \in Ids : source'[i].version = source[i].version
    BY <1>1, <1>4 DEF RecordFailure, Stored
  <2>3. QED
    BY <1>1, <2>1, <2>2 DEF NothingDangles, Exists
<1>5. CASE EditScope
  BY <1>1, <1>5 DEF EditScope, NothingDangles, Exists
<1>6. CASE Activate
  <2>1. active' = NoSource \/ (active' \in Ids /\ Exists(active'))
    BY <1>6 DEF Activate
  <2>2. UNCHANGED <<source, scope>>
    BY <1>6 DEF Activate
  <2>3. QED
    BY <1>1, <2>1, <2>2 DEF NothingDangles, Exists
<1>7. CASE UNCHANGED <<source, active, scope>>
  BY <1>7 DEF NothingDangles, Exists
<1>8. QED
  BY <1>2, <1>3, <1>4, <1>5, <1>6, <1>7 DEF Next, Proceed, vars, Change, Apply,
     Preview, Refresh, SavePreview, Lookup, LookupFails, Prepare, PrepareFails, LoadScope,
     FetchForPreview, FetchForRefresh, AcceptFails, Expire, Restart, CallFrame

\* The inductive invariant.
Sound == Typing /\ NoRowIsMissing /\ WorkIsCurrent /\ OneDraftOfNew /\ NothingDangles

LEMMA SoundInit == Init => Sound
<1> SUFFICES ASSUME Init PROVE Sound
  OBVIOUS
<1>1. Typing
  BY TypingInit
<1>2. NoRowIsMissing
  BY DEF Init, NoRowIsMissing, Exists
<1>3. WorkIsCurrent
  BY DEF Init, WorkIsCurrent, Knows, NoCall
<1>4. OneDraftOfNew
  BY DEF Init, OneDraftOfNew, CallsWithNew, TokensWithNew, DeletedIsGone, NoCall
<1>5. NothingDangles
  BY DEF Init, NothingDangles, Exists
<1>6. QED
  BY <1>1, <1>2, <1>3, <1>4, <1>5 DEF Sound

LEMMA SoundStep == Sound /\ [Next]_vars => Sound'
  BY TypingStep, MissingStep, WorkStep, OneDraftStep, DanglesStep DEF Sound

LEMMA AlwaysSound == Spec => []Sound
  BY SoundInit, SoundStep, PTL DEF Spec

\* Every variable keeps its type.
THEOREM RowsAndCallsAreTyped == Spec => []TypeOK
<1>1. Sound => TypeOK
  BY DEF Sound, Typing
<1>2. QED
  BY <1>1, AlwaysSound, PTL

\* The active source and every source with overrides are stored, whatever is deleted,
\* saved late or restarted.
THEOREM NothingEverDangles == Spec => []NothingDangles
<1>1. Sound => NothingDangles
  BY DEF Sound
<1>2. QED
  BY <1>1, AlwaysSound, PTL

\* No preview saved late and no refresh under way brings a deleted source back.
THEOREM DeletedNeverReturns == Spec => []DeletedStaysDeleted
<1>1. Sound => DeletedStaysDeleted
  BY DEF Sound, OneDraftOfNew, DeletedIsGone, DeletedStaysDeleted
<1>2. QED
  BY <1>1, AlwaysSound, PTL

\* What accept finds when the draft fits.
LEMMA FittingDraft ==
  ASSUME Sound, NEW c \in Calls, Accept(c)
  PROVE  /\ call[c].draft.base = base
         /\ call[c].draft.scope = scope[call[c].draft.id]
         /\ call[c].draft.seen = Row(call[c].draft.id)
<1> DEFINE d == call[c].draft
<1>1. call[c].pc = "accept" /\ Fits(d) /\ d \in Drafts /\ d.id \in Ids
  BY DEF Accept, Sound, Typing, TypeOK, NamesSources
<1>2. Current(d) /\ Compiled(d) /\ Scoped(d)
  BY <1>1 DEF Sound, WorkIsCurrent, Knows
<1>3. d.version = source[d.id].version /\ d.id \notin deleted
  <2>1. CASE Exists(d.id)
    BY <1>1, <2>1 DEF Fits, Sound, OneDraftOfNew, DeletedIsGone
  <2>2. CASE ~Exists(d.id)
    <3>1. d.version = 0
      BY <1>1, <2>2 DEF Fits
    <3>2. call[c].pc = "accept" /\ CallsWithNew
      BY <1>1 DEF Sound, OneDraftOfNew
    <3>3. Unsaved(d.id)
      BY <2>2, <3>1, <3>2 DEF CallsWithNew
    <3>4. source[d.id] = Missing
      BY <1>1, <2>2 DEF Sound, NoRowIsMissing
    <3>5. source[d.id].version = 0
      BY <3>4 DEF Missing
    <3>6. QED
      BY <3>1, <3>3, <3>5 DEF Unsaved
  <2>3. QED
    BY <2>1, <2>2
<1>4. d.revision = revision
  BY <1>1 DEF Fits
<1>5. QED
  BY <1>2, <1>3, <1>4 DEF Current, Compiled, Scoped

\* What is stored was compiled against the nodes, settings and overrides of the
\* moment it is stored.
THEOREM StoredAsCompiled == Spec => CompiledAsStored
<1>1. Sound /\ [Next]_vars =>
        [\A c \in Calls : Accept(c) =>
            LET d == call[c].draft IN d.base = base /\ d.scope = scope[d.id]]_vars
  BY FittingDraft
<1>2. QED
  BY <1>1, AlwaysSound, PTL DEF Spec, CompiledAsStored

\* The row a draft replaces is the one its author saw.
THEOREM NoUpdateIsLost == Spec => NoLostUpdate
<1>1. Sound /\ [Next]_vars =>
        [\A c \in Calls : Accept(c) => call[c].draft.seen = Row(call[c].draft.id)]_vars
  BY FittingDraft
<1>2. QED
  BY <1>1, AlwaysSound, PTL DEF Spec, NoLostUpdate

\* The error of a refresh is stored with the row it looked up, or not at all.
THEOREM FailuresAreCurrent == Spec => FailureIsCurrent
<1>1. ASSUME Sound, NEW c \in Calls, NEW i \in Ids, RecordFailure(c), source'[i] # source[i]
      PROVE  call[c].draft.seen = Row(i)
  <2> DEFINE d == call[c].draft
  <2>1. source \in [Ids -> Stored] /\ call[c].pc = "failed"
    BY <1>1 DEF Sound, Typing, TypeOK, RecordFailure
  <2>2. Concerns(d) /\ d.id = i
    BY <1>1, <2>1 DEF RecordFailure
  <2>3. Current(d)
    BY <2>1, <1>1 DEF Sound, WorkIsCurrent, Knows
  <2>4. d.id \notin deleted /\ source[d.id].version = d.version
    BY <1>1, <2>2 DEF Concerns, Sound, OneDraftOfNew, DeletedIsGone
  <2>5. QED
    BY <2>2, <2>3, <2>4 DEF Current
<1>2. Sound /\ [Next]_vars =>
        [\A c \in Calls, i \in Ids :
            RecordFailure(c) /\ source'[i] # source[i] => call[c].draft.seen = Row(i)]_vars
  BY <1>1
<1>3. QED
  BY <1>2, AlwaysSound, PTL DEF Spec, FailureIsCurrent
=============================================================================
