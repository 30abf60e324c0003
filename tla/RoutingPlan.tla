---------------------------- MODULE RoutingPlan -----------------------------
(***************************************************************************)
(* The active routing scheme, the local edits of its categories and rules, *)
(* and what compileRouting makes of both for the kernel:                   *)
(* manager/routing_plan.go, groups.go, buildDNSForGroups of routing.go and *)
(* the operations of routing_source_store.go.                              *)
(*                                                                         *)
(* A scheme is a document with groups and rules.  A local edit of a        *)
(* category hides the group, replaces it or only renames it; local rules   *)
(* come before those of the document, and a rule of the document can be    *)
(* blocked by its text.  Documents, nodes and edits change independently   *)
(* of each other; each operation runs under Manager.mu and is one step.    *)
(*                                                                         *)
(* A plan is compiled as if a rule listener were enabled, which is what    *)
(* every check and preview here assumes.  The traffic a rule names is a    *)
(* host, which stands for a domain in a local rule and for a set of        *)
(* domains in one of the document, or everything (MATCH).  RoutingSources  *)
(* has the life of a document until it is stored; here a stored document   *)
(* is compiled with the edits and settings of that moment.                 *)
(***************************************************************************)
EXTENDS Integers, SequencesExt

CONSTANTS
    Categories,   \* names of groups, of the document or local
    Nodes,        \* outbounds of nodes
    Direct, Reject,
    Hosts,        \* what a rule can name
    Geo,          \* of them, what needs the GEO databases (GEOIP, GEOSITE)
    Match,        \* what a rule for everything names
    MaxGroups,    \* groups a plan may have (512)
    Slots,        \* positions of local rules: their number bounds the rules
    Missing,      \* no row, and no value
    Documents,    \* what parseRoutingDocument can return
    Lists,        \* bound: the members an edit can list, with the switch for all nodes
    MaxRows       \* bound: rows stored beside the document

Builtins == {Direct, Reject}
Targets == Categories \cup Nodes \cup Builtins

VARIABLES
    nodes,       \* [Nodes -> "up" (enabled and available), "down", "gone"]
    settings,    \* of Routing: GEO rules are allowed, the manager's DNS is on
    doc,         \* RoutingSource.Document, and whether its DNS is imported
    edits,       \* category_edits: [Categories -> a row or Missing]
    rules,       \* category_rules: [Slots -> a row or Missing]
    blocked,     \* routing_blocked_rules: texts of rules
    selections,  \* routing_source_selections: [Categories -> member or Missing]
    unseen       \* history: categories that went back to the document's definition
                 \* since the scheme was last compiled

vars == <<nodes, settings, doc, edits, rules, blocked, selections, unseen>>

\* With DNSEnabled there are resolvers of both kinds (DefaultRouting).
Settings == [geo : BOOLEAN, dns : BOOLEAN]

Rule == [of : Hosts \cup {Match}, policy : Targets]

\* Not of GEO data (normalizeCategoryRule).
LocalRules == [of : Hosts \ Geo, policy : Targets, enabled : BOOLEAN]

Edit(kind, list, deleted) ==
    [kind |-> kind, members |-> list.members, all |-> list.all, deleted |-> deleted]

\* kind "": a label only, the document's definition is kept.
Label(deleted) == Edit("", [members |-> <<>>, all |-> FALSE], deleted)

Edits == {Label(x) : x \in BOOLEAN}
         \cup {Edit(kind, list, x) : kind \in {"select", "auto"}, list \in Lists, x \in BOOLEAN}

\* What a document says of DNS: nothing (or it is not imported), or something that
\* may need the GEO databases for its policies or for its fallback-filter.
DocumentDNS == {"own", "imported", "geosite", "geoip"}

\* Groups by name, and rules that end with MATCH if they have one; members and
\* policies are groups of the document, nodes and built-in outbounds.
IsDocument(d) ==
    /\ DOMAIN d.groups \subseteq Categories
    /\ d.dns \in DocumentDNS
    /\ LET there == DOMAIN d.groups \cup Nodes \cup Builtins
       IN /\ \A c \in DOMAIN d.groups : d.groups[c].members \in Seq(there)
          /\ d.rules \in Seq(Rule)
          /\ \A i \in DOMAIN d.rules :
                /\ d.rules[i].policy \in there
                /\ d.rules[i].of = Match => i = Len(d.rules)

ASSUME RoutingPlanAssumption ==
    /\ \A d \in Documents : IsDocument(d)
    /\ Missing \notin Targets \cup Edits
    /\ \A l \in Lists : l.members \in Seq(Targets) /\ l.all \in BOOLEAN
    /\ IsFiniteSet(Categories) /\ IsFiniteSet(Nodes)
    /\ Slots \subseteq Nat /\ IsFiniteSet(Slots)
    /\ Match \notin Hosts /\ Geo \subseteq Hosts
    /\ MaxGroups \in Nat

\* A group is not called like a node or a built-in outbound.
ASSUME NamesAreApart ==
    /\ Categories \cap (Nodes \cup Builtins) = {}
    /\ Nodes \cap Builtins = {}

-----------------------------------------------------------------------------
\* compileRouting.  Its operators take the document and the edits they compile,
\* since every check is of a state that is not stored yet.

Up == {n \in Nodes : nodes[n] = "up"}

Deleted(e) == {c \in Categories : e[c] # Missing /\ e[c].deleted}

Overridden(e, c) == e[c] # Missing /\ ~e[c].deleted /\ e[c].kind # ""

\* plan.Groups without the deleted.
Defined(d, e) ==
    (DOMAIN d.groups \cup {c \in Categories : Overridden(e, c)}) \ Deleted(e)

Definition(d, e, c) ==
    LET g == IF Overridden(e, c) THEN e[c] ELSE d.groups[c]
    IN [kind |-> g.kind, members |-> g.members, all |-> g.all]

Known(d, e) == Builtins \cup Defined(d, e)

\* What is not there is left out, and an emptied group rejects.
Members(d, e, c) ==
    LET g == Definition(d, e, c)
        here == (ToSet(g.members) \cap (Known(d, e) \cup Up))
                \cup (IF g.all THEN Up ELSE {})
    IN IF here = {} THEN {Reject} ELSE here

\* A member that is unknown in a group that is not edited is an error.
Resolves(d, e) ==
    \A c \in Defined(d, e) : ~Overridden(e, c) =>
       ToSet(d.groups[c].members) \subseteq Known(d, e) \cup Deleted(e) \cup Nodes

\* What a group has of other groups.
Links(d, e) == [c \in Defined(d, e) |-> Members(d, e, c) \cap Defined(d, e)]

\* visit of validateGroupGraph: the groups at which it fails when path are those on
\* the way (1 in color); 2 only saves a second visit.
Visit(links) ==
    LET fails[path \in SUBSET DOMAIN links] ==
           {c \in DOMAIN links :
               c \in path \/ \E m \in links[c] : m \in fails[path \cup {c}]}
    IN fails

OnCycle(links) == Visit(links)[{}] # {}

\* Rules of the document name groups of the document.
PoliciesKnown(d, e) ==
    \A i \in DOMAIN d.rules :
       d.rules[i].policy \in Known(d, e) \cup Deleted(e) \cup Nodes

NoGeoRules(d) == \A i \in DOMAIN d.rules : d.rules[i].of \notin Geo

\* Looked at before anything is deleted or blocked.
GeoAllowed(d) ==
    \/ settings.geo
    \/ NoGeoRules(d) /\ ~(d.dns = "geosite" /\ settings.dns)

\* What the groups and rules are looked at for.
Sound(d, e) ==
    /\ Resolves(d, e)
    /\ Cardinality(Defined(d, e)) <= MaxGroups
    /\ ~OnCycle(Links(d, e))
    /\ PoliciesKnown(d, e)

Compiles(d, e) == GeoAllowed(d) /\ Sound(d, e)

\* The first member as listed; the active nodes come last, in the order of the
\* database, here any.
Default(d, e, c) ==
    LET list == Definition(d, e, c).members
        here == {i \in DOMAIN list : list[i] \in Known(d, e) \cup Up}
    IN IF here # {} THEN list[Min(here)] ELSE CHOOSE m \in Members(d, e, c) : TRUE

\* orderSelections: a choice that is no longer a member has no effect.
Selected(d, e, c) ==
    IF selections[c] \in Members(d, e, c) THEN selections[c] ELSE Default(d, e, c)

\* Of the members a group is compiled to, first is the first of a manual one.
PlanGroups(d, e) ==
    [c \in Defined(d, e) |->
        [kind |-> Definition(d, e, c).kind, members |-> Members(d, e, c),
         first |-> Selected(d, e, c)]]

\* Mutant: a rule whose node is not active is dropped.
KeptUnlessGone(d, e, without) ==
    {i \in DOMAIN d.rules : /\ d.rules[i].policy \notin Deleted(e) \cup (Nodes \ Up)
                            /\ d.rules[i] \notin without}

\* The rules of the document that are in force.
Kept(d, e, without) ==
    {i \in DOMAIN d.rules : /\ d.rules[i].policy \notin Deleted(e)
                            /\ d.rules[i] \notin without}

\* A rule whose node is not active rejects in its place.
NodeGone(r) ==
    IF r.policy \in Nodes \ Up THEN [r EXCEPT !.policy = Reject] ELSE r

Upstream(d, e, without) == [i \in Kept(d, e, without) |-> NodeGone(d.rules[i])]

Enabled(e, s) == rules[s] # Missing /\ rules[s].enabled
                 /\ rules[s].policy \notin Deleted(e)

Local(d, e) ==
    [s \in {s \in Slots : Enabled(e, s)} |->
        [of |-> rules[s].of,
         policy |-> IF rules[s].policy \in Known(d, e) \cup Up
                    THEN rules[s].policy ELSE Reject]]

\* The rules of a plan by their places: the local ones in the order of their
\* positions, those of the document in its order, and a last one.
Listed(local, upstream) ==
    [p \in ({1} \X DOMAIN local) \cup ({2} \X DOMAIN upstream) |->
        IF p[1] = 1 THEN local[p[2]] ELSE upstream[p[2]]]

End == <<3, 0>>

Before(p, q) == p[1] < q[1] \/ (p[1] = q[1] /\ p[2] < q[2])

EndsWithMatch(list) ==
    \E p \in DOMAIN list :
       list[p].of = Match /\ \A q \in DOMAIN list \ {p} : Before(q, p)

Final(list) ==
    IF EndsWithMatch(list) THEN list
    ELSE [p \in DOMAIN list \cup {End} |->
             IF p = End THEN [of |-> Match, policy |-> Reject] ELSE list[p]]

PlanRules(d, e) == Final(Listed(Local(d, e), Upstream(d, e, blocked)))

-----------------------------------------------------------------------------
\* Name resolution.

\* foreignPolicy: of a pair, the first are the policies still to be looked at, and
\* the second, which all branches share, the groups that were (visited).
Foreign(groups) ==
    LET foreign[x \in (SUBSET Targets) \X (SUBSET Targets)] ==
           LET p == CHOOSE p \in x[1] : TRUE
               rest == x[1] \ {p}
               visited == x[2]
           IN /\ x[1] # {}
              /\ \/ p \in Nodes
                 \/ /\ p \in visited \/ p \notin DOMAIN groups
                    /\ foreign[<<rest, visited>>]
                 \/ /\ p \in DOMAIN groups \ visited
                    /\ LET next == IF groups[p].kind = "select" THEN {groups[p].first}
                                   ELSE groups[p].members
                       IN foreign[<<next \cup rest, visited \cup {p}>>]
    IN foreign

IsForeign(groups, policy) == Foreign(groups)[<<{policy}, {}>>]

\* Rule sets of the plan that are resolved abroad, unless the DNS is imported.
ForeignSets(d, e) ==
    LET groups == PlanGroups(d, e)
    IN {r.of : r \in {x \in Range(Upstream(d, e, blocked)) :
                        x.of \notin Geo \cup {Match} /\ IsForeign(groups, x.policy)}}

\* Mutant: the resolver of a domain is chosen before the choices are applied.
DomainForeignUnselected(d, e, h) ==
    LET last == CHOOSE s \in Slots :
                   /\ Enabled(e, s) /\ rules[s].of = h
                   /\ \A t \in Slots : Enabled(e, t) /\ rules[t].of = h => t <= s
    IN IsForeign([c \in Defined(d, e) |-> [kind |-> Definition(d, e, c).kind,
                                          members |-> Members(d, e, c),
                                          first |-> Default(d, e, c)]],
                 rules[last].policy)

\* The resolver of a domain with local rules: of several, the last one writes it.
DomainForeign(d, e, h) ==
    LET last == CHOOSE s \in Slots :
                   /\ Enabled(e, s) /\ rules[s].of = h
                   /\ \A t \in Slots : Enabled(e, t) /\ rules[t].of = h => t <= s
    IN IsForeign(PlanGroups(d, e), rules[last].policy)

-----------------------------------------------------------------------------
\* The scheme was activated when it compiled; it has no edits yet.
Init ==
    /\ nodes \in [Nodes -> {"up", "down"}]
    /\ settings \in Settings
    /\ doc \in Documents
    /\ edits = [c \in Categories |-> Missing]
    /\ rules = [s \in Slots |-> Missing]
    /\ blocked = {}
    /\ selections = [c \in Categories |-> Missing]
    /\ Compiles(doc, edits)
    /\ unseen = {}

CompilesNow == Compiles(doc, edits)

\* Bound: how much is stored beside the document.
Rows == Cardinality({c \in Categories : edits[c] # Missing})
        + Cardinality({s \in Slots : rules[s] # Missing})
        + Cardinality(blocked)
        + Cardinality({c \in Categories : selections[c] # Missing})

Room(row) == row # Missing \/ Rows < MaxRows

\* policyOptions: none but the built-in ones if the preview fails.
PolicyOptions == Builtins \cup (IF CompilesNow THEN Defined(doc, edits) ELSE {})

\* allowedCategoryMember.
AllowedMembers == PolicyOptions \cup {n \in Nodes : nodes[n] # "gone"}

\* A new category, one that no document has, may come with a rule that leads to it.
WithRule(c) ==
    \/ UNCHANGED rules
    \/ /\ edits[c] = Missing
       /\ \A d \in Documents : c \notin DOMAIN d.groups
       /\ \E s \in Slots, h \in Hosts \ Geo :
             /\ rules[s] = Missing
             /\ rules' = [rules EXCEPT ![s] = [of |-> h, policy |-> c, enabled |-> TRUE]]

\* And a manual one with a choice.
WithSelection(c, after) ==
    \/ UNCHANGED selections
    \/ /\ Definition(doc, after, c).kind = "select"
       /\ \E m \in Members(doc, after, c) :
             selections' = [selections EXCEPT ![c] = m]

\* SaveCategoryConfig with an edit that does not delete.
SaveCategory(c) ==
    LET allowed == AllowedMembers
    IN Room(edits[c]) /\ \E e \in Edits :
          LET after == [edits EXCEPT ![c] = e]
          IN /\ ~e.deleted
             /\ e.kind = "" => c \in DOMAIN doc.groups
             /\ ToSet(e.members) \subseteq allowed
             /\ Compiles(doc, after)
             /\ edits' = after
             /\ unseen' = {}
             /\ WithSelection(c, after) /\ WithRule(c)
             /\ UNCHANGED <<nodes, settings, doc, blocked>>
             /\ Rows' <= MaxRows

\* The definition that an edit had is kept for a restoration.
DeleteCategory(c) ==
    /\ Room(edits[c])
    /\ LET row == IF edits[c] # Missing THEN [edits[c] EXCEPT !.deleted = TRUE]
                  ELSE Label(TRUE)
           after == [edits EXCEPT ![c] = row]
       IN Compiles(doc, after) /\ edits' = after
    /\ unseen' = {}
    /\ UNCHANGED <<nodes, settings, doc, rules, blocked, selections>>

\* Mutant: what is restored is not compiled.
RestoreDeletedUnchecked(c) ==
    /\ edits[c] # Missing /\ edits[c].deleted
    /\ edits' = [edits EXCEPT ![c].deleted = FALSE]
    /\ unseen' = {}
    /\ UNCHANGED <<nodes, settings, doc, rules, blocked, selections>>

\* RestoreCategory of a deleted category.
RestoreDeleted(c) ==
    /\ edits[c] # Missing /\ edits[c].deleted
    /\ LET after == [edits EXCEPT ![c].deleted = FALSE]
       IN Compiles(doc, after) /\ edits' = after
    /\ unseen' = {}
    /\ UNCHANGED <<nodes, settings, doc, rules, blocked, selections>>

\* RestoreCategory of an edited one: back to the document, with no check.
RestoreDefinition(c) ==
    /\ edits[c] # Missing /\ ~edits[c].deleted
    /\ c \in DOMAIN doc.groups
    /\ edits' = [edits EXCEPT ![c] = Missing]
    /\ unseen' = unseen \cup {c}
    /\ UNCHANGED <<nodes, settings, doc, rules, blocked, selections>>

\* routingEntries that are not local: what the plan shows if nothing is blocked,
\* and what is blocked.
Entries ==
    IF ~CompilesNow THEN {}
    ELSE Range(Final(Listed(<<>>, Upstream(doc, edits, {}))))
         \cup {r \in blocked : r.of # Match /\ r.policy \notin Deleted(edits)}

\* A local rule is made (from = Missing), and may take the place of an entry, or
\* it is changed and perhaps given another position.
SaveCategoryRule(from, s) ==
    /\ from # Missing => rules[from] # Missing
    /\ s # from => rules[s] = Missing
    /\ Room(from)
    /\ \E policy \in PolicyOptions, h \in Hosts \ Geo, on \in BOOLEAN :
          rules' = [t \in Slots |->
                      IF t = s THEN [of |-> h, policy |-> policy, enabled |-> on]
                      ELSE IF t = from THEN Missing
                      ELSE rules[t]]
    /\ \/ UNCHANGED blocked
       \/ from = Missing /\ \E r \in Entries : blocked' = blocked \cup {r}
    /\ UNCHANGED <<nodes, settings, doc, edits, selections, unseen>>
    /\ Rows' <= MaxRows

DeleteCategoryRule(s) ==
    /\ rules[s] # Missing
    /\ rules' = [rules EXCEPT ![s] = Missing]
    /\ UNCHANGED <<nodes, settings, doc, edits, blocked, selections, unseen>>

BlockRoutingRule ==
    /\ Room(Missing)
    /\ \E r \in Entries : blocked' = blocked \cup {r}
    /\ UNCHANGED <<nodes, settings, doc, edits, rules, selections, unseen>>

Unblock ==
    /\ \E r \in blocked : blocked' = blocked \ {r}
    /\ UNCHANGED <<nodes, settings, doc, edits, rules, selections, unseen>>

SaveSelection(c) ==
    /\ Room(selections[c])
    /\ c \in Defined(doc, edits)
    /\ Definition(doc, edits, c).kind = "select"
    /\ CompilesNow
    /\ \E m \in Members(doc, edits, c) :
          selections' = [selections EXCEPT ![c] = m]
    /\ UNCHANGED <<nodes, settings, doc, edits, rules, blocked, unseen>>

-----------------------------------------------------------------------------
\* The nodes a document names are found among those stored.
Named(d) ==
    Nodes \cap (UNION {ToSet(d.groups[c].members) : c \in DOMAIN d.groups}
                \cup {d.rules[i].policy : i \in DOMAIN d.rules})

\* Without GEO rules the parser takes none, not even for a DNS that is not in use.
Parses(d) ==
    /\ \A n \in Named(d) : nodes[n] # "gone"
    /\ settings.geo \/ (NoGeoRules(d) /\ d.dns \notin {"geosite", "geoip"})

\* Mutant: groups that the new document no longer has are kept.
RefreshMerged(d) ==
    /\ Parses(d)
    /\ Compiles(d, edits)
    /\ doc' = [d EXCEPT !.groups =
          [c \in DOMAIN d.groups \cup DOMAIN doc.groups |->
             IF c \in DOMAIN d.groups THEN d.groups[c] ELSE doc.groups[c]]]
    /\ unseen' = {}
    /\ UNCHANGED <<nodes, settings, edits, rules, blocked, selections>>

\* A refresh stores a document that compiles with the edits.
Refresh(d) ==
    /\ Parses(d)
    /\ Compiles(d, edits)
    /\ doc' = d
    /\ unseen' = {}
    /\ UNCHANGED <<nodes, settings, edits, rules, blocked, selections>>

\* A node is switched, lost by its subscription or found again, or deleted.
NodeChanges(n, status) ==
    /\ nodes[n] # "gone"
    /\ status # nodes[n]
    /\ nodes' = [nodes EXCEPT ![n] = status]
    /\ UNCHANGED <<settings, doc, edits, rules, blocked, selections, unseen>>

\* The settings are stored without a look at the scheme.
SaveRouting ==
    /\ settings' \in Settings
    /\ UNCHANGED <<nodes, doc, edits, rules, blocked, selections, unseen>>

EditCategories ==
    \E c \in Categories :
       \/ SaveCategory(c)
       \/ DeleteCategory(c)
       \/ RestoreDeleted(c) \/ RestoreDefinition(c)
       \/ SaveSelection(c)

EditRules ==
    \/ \E s \in Slots :
          \/ \E from \in Slots \cup {Missing} : SaveCategoryRule(from, s)
          \/ DeleteCategoryRule(s)
    \/ BlockRoutingRule \/ Unblock

Next ==
    \/ EditCategories \/ EditRules \/ SaveRouting
    \/ \E d \in Documents : Refresh(d)
    \/ \E n \in Nodes, status \in {"up", "down", "gone"} : NodeChanges(n, status)

Spec == Init /\ [][Next]_vars

-----------------------------------------------------------------------------
(***************************************************************************)
(* Properties                                                              *)
(***************************************************************************)

\* The rows.
TypeOK ==
    /\ nodes \in [Nodes -> {"up", "down", "gone"}]
    /\ settings \in Settings
    /\ doc \in Documents
    /\ edits \in [Categories -> Edits \cup {Missing}]
    /\ rules \in [Slots -> LocalRules \cup {Missing}]
    /\ blocked \subseteq Rule
    /\ selections \in [Categories -> Targets \cup {Missing}]
    /\ unseen \subseteq Categories

\* The groups that p leads to, by a function from groups to sets of targets: those in
\* every set of groups that has p and leads to no other group.
Within(leads, p) ==
    LET Closed == {S \in SUBSET Categories :
                      \A c \in S \cap DOMAIN leads : leads[c] \cap Categories \subseteq S}
    IN {c \in Categories : \A S \in Closed : {p} \cap Categories \subseteq S => c \in S}

ExitsOf(leads, p) ==
    ({p} \cup UNION {leads[c] : c \in Within(leads, p) \cap DOMAIN leads}) \ Categories

\* In the plan a manual group leads to its first member, another to any.
Leads(groups) ==
    [c \in DOMAIN groups |->
        IF groups[c].kind = "select" THEN {groups[c].first} ELSE groups[c].members]

\* As declared a group leads to all it lists, there or not.
Declares(d, e) ==
    [c \in Defined(d, e) |->
        LET g == Definition(d, e, c)
        IN ToSet(g.members) \cup (IF g.all THEN Nodes ELSE {})]

\* The policy of the first rule for h.
First(list, h) ==
    LET at == {p \in DOMAIN list : list[p].of \in {h, Match}}
    IN IF at = {} THEN Reject
       ELSE list[CHOOSE p \in at : \A q \in at \ {p} : Before(p, q)].policy

\* The rules that are in force, as they were written.
Written ==
    Listed([s \in {s \in Slots : Enabled(edits, s)} |->
               [of |-> rules[s].of, policy |-> rules[s].policy]],
           [i \in {i \in DOMAIN doc.rules : /\ doc.rules[i] \notin blocked
                                            /\ doc.rules[i].policy \notin Deleted(edits)} |->
               doc.rules[i]])

\* No traffic leaves where it was not meant to (README.md:172-174, 286): whatever
\* is edited, deleted, lost or replaced by a refresh, a plan that compiles has only
\* targets that exist and no cycle, and what a rule takes leaves by an outbound that
\* its policy declares or is rejected; it does not fall through to a later rule
\* because its own target is gone.
NothingLeaks ==
    CompilesNow =>
       LET groups == PlanGroups(doc, edits)
           plan == PlanRules(doc, edits)
           there == Builtins \cup Up \cup DOMAIN groups
           linked == [c \in DOMAIN groups |-> groups[c].members]
           declares == Declares(doc, edits)
       IN /\ \A r \in Range(plan) : r.policy \in there
          /\ \A c \in DOMAIN groups : /\ groups[c].first \in linked[c]
                                     /\ linked[c] \subseteq there
          /\ \A c \in DOMAIN groups : \A m \in linked[c] : c \notin Within(linked, m)
          /\ EndsWithMatch(plan)
          /\ \A h \in Hosts \cup {Match} :
                ExitsOf(Leads(groups), First(plan, h))
                   \subseteq ExitsOf(declares, First(Written, h)) \cup {Reject}

\* The edits without the categories whose definition came back unseen.
Hidden == [c \in Categories |-> IF c \in unseen THEN Label(TRUE) ELSE edits[c]]

\* A scheme that compiles goes on compiling: a document, edits, rules and nodes that
\* are legal one by one never make a cycle, an unknown target or too many groups
\* together, in whatever order they come and go (README.md:280).  Two operations store
\* what they did not compile.  The settings can take GEO data away that the document
\* needs, and nothing else (GeoAllowed); and an edit that is given up for the
\* document's own definition can close a cycle, but only one through such a category:
\* without these the scheme is as sound as before.
EditsCompile == Sound(doc, Hidden)

\* The places of the rules in force for h.
LocalOf(h) == {s \in Slots : Enabled(edits, s) /\ rules[s].of = h}

UpstreamOf(h) ==
    {i \in Kept(doc, edits, blocked) : doc.rules[i].of = h}

\* Names are resolved abroad exactly if their traffic goes abroad (routing.go:167,
\* README.md:180): after every choice, edit and loss of a node.  The rule that takes
\* the traffic is the first; of several local rules for a domain the last decides the
\* resolver, and of several rules of the document for a set any that leads abroad: a
\* domain with several is left out, and such a set may be resolved abroad although its
\* traffic stays.
DnsFollowsTraffic ==
    CompilesNow /\ settings.dns =>
       LET leads == Leads(PlanGroups(doc, edits))
           plan == PlanRules(doc, edits)
           Abroad(h) == ExitsOf(leads, First(plan, h)) \cap Nodes # {}
       IN /\ \A h \in Hosts :
                Cardinality(LocalOf(h)) = 1 => (DomainForeign(doc, edits, h) <=> Abroad(h))
          /\ doc.dns = "own" =>
                \A h \in Hosts \ Geo : LocalOf(h) = {} /\ UpstreamOf(h) # {} =>
                   /\ Abroad(h) => h \in ForeignSets(doc, edits)
                   /\ h \in ForeignSets(doc, edits) /\ Cardinality(UpstreamOf(h)) = 1
                         => Abroad(h)
=============================================================================
