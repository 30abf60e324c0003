----------------------------- MODULE NodeStore ------------------------------
(***************************************************************************)
(* The nodes, subscriptions and listeners of the database, and the calls   *)
(* that bring a subscription into it: manager/store.go, the switch of      *)
(* store_routing.go, RecordSubscriptionUsage, and refreshSubscription of   *)
(* http.go.                                                                *)
(*                                                                         *)
(* Everything that writes runs in one transaction under Manager.mu and is  *)
(* one step here.  A call that synchronises a subscription reads its       *)
(* address under the mutex, downloads for up to 30 seconds without it, and *)
(* comes back to store the traffic used and then the nodes; the mark       *)
(* Server.syncing lets one call at a time work on a subscription.  The     *)
(* document a call downloaded is chosen where it is imported.              *)
(*                                                                         *)
(* A node has an identifier that listeners refer to and that outlives      *)
(* imports: an import finds the node of an item by its name, or else by    *)
(* its content when that is unambiguous.  A listener is named by its port, *)
(* which no two share.  The bodies of nodes are their identity (a digest); *)
(* a profile is stored by the import and goes with its subscription.       *)
(***************************************************************************)
EXTENDS Integers, FiniteSets, Functions

CONSTANTS
    NodeIds,      \* identifiers of nodes; their number bounds the nodes stored
    Names,        \* names of nodes
    Rank,         \* [Names -> Nat]: the order of their lower-case forms
    Identities,   \* digests of contents
    Subs,         \* identifiers of subscriptions
    Manual,       \* "": the source of nodes imported by hand
    Urls,         \* addresses
    Ports,        \* ports of listeners
    Missing,      \* no row, and no value in a row
    Calls         \* requests that refresh a subscription

ASSUME NodeStoreAssumption ==
    /\ IsFiniteSet(NodeIds)
    /\ Rank \in [Names -> Nat]
    /\ \A m, n \in Names : Rank[m] = Rank[n] => m = n
    /\ Manual \notin Subs
    /\ Missing \notin NodeIds \cup Urls \cup Subs \cup Names

VARIABLES
    nodes,      \* database: [NodeIds -> a row or Missing]
    subs,       \* database: [Subs -> the address or Missing]
    usage,      \* database: subscription_usage, [Subs -> a row or Missing]
    listeners,  \* database: [Ports -> a row or Missing]
    routing,    \* database: routing.enabled
    syncing,    \* Server.syncing
    call,       \* [Calls -> a request and what it works on]
    held        \* history: [Subs -> what the last import listed and is not deleted]

dbVars == <<nodes, subs, usage, listeners, routing>>
vars == <<dbVars, syncing, call, held>>

Sources == Subs \cup {Manual}

NodeRows == [name : Names, source : Sources, identity : Identities,
             enabled : BOOLEAN, available : BOOLEAN]

ListenerRows == [mode : {"node", "rule"}, node : NodeIds \cup {Missing},
                 enabled : BOOLEAN]

\* of: the address whose answer, or failure to answer, was recorded last.
\* values: the one whose values are shown, kept by answers without values.
UsageRows == [of : Urls, values : Urls \cup {Missing}]

\* url is what the call found at the beginning.  older are the calls that hold an
\* answer for the subscription, downloaded before this one's; late: the answer
\* of a later download has been imported.
CallRows == [pc : {"idle", "lookup", "fetch", "failed", "usage", "import"},
             sub : Subs \cup {Missing}, url : Urls \cup {Missing},
             imports : BOOLEAN, older : SUBSET Calls, late : BOOLEAN]

NoCall == [pc |-> "idle", sub |-> Missing, url |-> Missing, imports |-> FALSE,
           older |-> {}, late |-> FALSE]

ASSUME RowAssumption == Missing \notin NodeRows

Stored(i) == nodes[i] # Missing
Of(source) == {i \in NodeIds : Stored(i) /\ nodes[i].source = source}

\* What BuildConfig puts into the configuration.
Usable(i) == Stored(i) /\ nodes[i].enabled /\ nodes[i].available

Bound(i) == \E p \in Ports : listeners[p] # Missing /\ listeners[p].node = i

\* A new database.
Init ==
    /\ nodes = [i \in NodeIds |-> Missing]
    /\ subs = [s \in Subs |-> Missing]
    /\ usage = [s \in Subs |-> Missing]
    /\ listeners = [p \in Ports |-> Missing]
    /\ routing = TRUE
    /\ syncing = {}
    /\ call = [c \in Calls |-> NoCall]
    /\ held = [s \in Subs |-> {}]

-----------------------------------------------------------------------------
\* Listeners and the routing switch.

\* A listener is made (from = Missing) or changed and perhaps moved to another port.
SaveListener(from, port, row) ==
    /\ from # Missing => listeners[from] # Missing
    /\ port # from => listeners[port] = Missing
    /\ row.mode = "rule" =>
          /\ row.node = Missing
          /\ row.enabled => routing
    /\ row.mode = "node" =>
          /\ row.node # Missing
          /\ Stored(row.node)
          /\ row.enabled => Usable(row.node)
    /\ listeners' = [p \in Ports |-> IF p = port THEN row
                                     ELSE IF p = from THEN Missing
                                     ELSE listeners[p]]
    /\ UNCHANGED <<nodes, subs, usage, routing, syncing, call, held>>

DeleteListener(p) ==
    /\ listeners[p] # Missing
    /\ listeners' = [listeners EXCEPT ![p] = Missing]
    /\ UNCHANGED <<nodes, subs, usage, routing, syncing, call, held>>

RuleListens ==
    \E p \in Ports : listeners[p] # Missing /\ listeners[p].mode = "rule"
                     /\ listeners[p].enabled

SaveRouting ==
    /\ routing => ~RuleListens
    /\ routing' = ~routing
    /\ UNCHANGED <<nodes, subs, usage, listeners, syncing, call, held>>

-----------------------------------------------------------------------------
\* Nodes.

SetNodeEnabled(i) ==
    /\ Stored(i)
    /\ nodes' = [nodes EXCEPT ![i].enabled = ~@]
    /\ UNCHANGED <<subs, usage, listeners, routing, syncing, call, held>>

\* History: a deleted node is no longer expected of its subscription.
Forget(i) ==
    held' = [s \in Subs |-> IF nodes[i].source = s /\ nodes[i].available
                            THEN held[s] \ {<<nodes[i].name, nodes[i].identity>>}
                            ELSE held[s]]

DeleteNode(i) ==
    /\ Stored(i)
    /\ ~Bound(i)
    /\ nodes' = [nodes EXCEPT ![i] = Missing]
    /\ Forget(i)
    /\ UNCHANGED <<subs, usage, listeners, routing, syncing, call>>

-----------------------------------------------------------------------------
\* Imports.  A document lists contents by name; the importer refuses a name
\* that comes twice and an empty document.

Documents == UNION {[S -> Identities] : S \in (SUBSET Names) \ {{}}}

\* Mutant: a node that is switched off is not found.
NamedEnabled(source, n) ==
    {i \in Of(source) : nodes[i].name = n /\ nodes[i].enabled}

\* byName: nodes that are unavailable included.
Named(source, n) == {i \in Of(source) : nodes[i].name = n}

New(source, doc) == {n \in DOMAIN doc : Named(source, n) = {}}

\* Mutant: the content is not compared.
OrphansAny(source, doc, content) == {i \in Of(source) : nodes[i].name \notin DOMAIN doc}

\* renameCandidates: nodes of this content that the document no longer names.
Orphans(source, doc, content) ==
    {i \in Of(source) : nodes[i].name \notin DOMAIN doc
                        /\ nodes[i].identity = content}

\* Mutant: it is not noted which candidates are used.
EachOfContent(source, doc, n) == n \in New(source, doc)

\* The items are in the order of their names; a candidate is used once.
FirstOfContent(source, doc, n) ==
    \A m \in New(source, doc) : doc[m] = doc[n] => Rank[n] <= Rank[m]

Renames(source, doc, n) ==
    /\ n \in New(source, doc)
    /\ \E i \in NodeIds : Orphans(source, doc, doc[n]) = {i}
    /\ FirstOfContent(source, doc, n)

\* The node an item stands for: at most one.
Claimed(source, doc, n) ==
    IF Renames(source, doc, n) THEN Orphans(source, doc, doc[n])
                               ELSE Named(source, n)

\* A subscription's nodes that are not listed stay, unavailable; a node that is
\* found again keeps its switch.
Import(source, doc) ==
    LET unknown == {n \in DOMAIN doc : Claimed(source, doc, n) = {}}
    IN \E fresh \in Injection(unknown, {i \in NodeIds : ~Stored(i)}) :
          LET owner == [n \in DOMAIN doc |->
                          IF n \in unknown THEN fresh[n]
                          ELSE CHOOSE i \in Claimed(source, doc, n) : TRUE]
              Item(i) == CHOOSE n \in DOMAIN doc : owner[n] = i
          IN nodes' = [i \in NodeIds |->
                IF \E n \in DOMAIN doc : owner[n] = i
                THEN [name |-> Item(i), source |-> source,
                      identity |-> doc[Item(i)],
                      enabled |-> Stored(i) => nodes[i].enabled,
                      available |-> TRUE]
                ELSE IF i \in Of(source) /\ source # Manual
                     THEN [nodes[i] EXCEPT !.available = FALSE]
                     ELSE nodes[i]]

\* A request with the nodes in its body.
ImportNodes ==
    /\ \E doc \in Documents : Import(Manual, doc)
    /\ UNCHANGED <<subs, usage, listeners, routing, syncing, call, held>>

-----------------------------------------------------------------------------
\* Subscriptions.

FreeUrl(s, u) == \A t \in Subs \ {s} : subs[t] # u

\* newID: no call knows the identifier.
AddSubscription(s, u) ==
    /\ subs[s] = Missing
    /\ \A c \in Calls : call[c].sub # s
    /\ FreeUrl(s, u)
    /\ subs' = [subs EXCEPT ![s] = u]
    /\ UNCHANGED <<nodes, usage, listeners, routing, syncing, call, held>>

\* Another address: the traffic used belongs to the old one, the nodes stay.
EditSubscription(s, u) ==
    /\ subs[s] # Missing
    /\ FreeUrl(s, u)
    /\ subs' = [subs EXCEPT ![s] = u]
    /\ usage' = [usage EXCEPT ![s] = IF u # subs[s] THEN Missing ELSE @]
    /\ UNCHANGED <<nodes, listeners, routing, syncing, call, held>>

DeleteSubscription(s) ==
    /\ subs[s] # Missing
    /\ \A i \in Of(s) : ~Bound(i)
    /\ nodes' = [i \in NodeIds |-> IF i \in Of(s) THEN Missing ELSE nodes[i]]
    /\ subs' = [subs EXCEPT ![s] = Missing]
    /\ usage' = [usage EXCEPT ![s] = Missing]
    /\ held' = [held EXCEPT ![s] = {}]
    /\ UNCHANGED <<listeners, routing, syncing, call>>

-----------------------------------------------------------------------------
\* refreshSubscription.

Goto(c, pc) == call' = [call EXCEPT ![c].pc = pc]

\* The deferred function removes the mark however the handler returns.
End(c) ==
    /\ call' = [d \in Calls |-> IF d = c THEN NoCall
                                ELSE [call[d] EXCEPT !.older = @ \ {c}]]
    /\ syncing' = syncing \ {call[c].sub}

\* A synchronisation (imports) or a look at the traffic used.  A subscription
\* that is marked is refused.
BeginRefresh(c, s) ==
    /\ call[c].pc = "idle"
    /\ s \notin syncing
    /\ syncing' = syncing \cup {s}
    /\ \E i \in BOOLEAN :
          call' = [call EXCEPT ![c] = [NoCall EXCEPT !.pc = "lookup", !.sub = s,
                                                     !.imports = i]]
    /\ UNCHANGED <<dbVars, held>>

Lookup(c) ==
    /\ call[c].pc = "lookup"
    /\ subs[call[c].sub] # Missing
    /\ call' = [call EXCEPT ![c].pc = "fetch", ![c].url = subs[call[c].sub]]
    /\ UNCHANGED <<dbVars, syncing, held>>

HasAnswer(c) == call[c].pc \in {"usage", "import"}

\* An answer with status 200; its body is read after the usage is recorded.
Download(c) ==
    /\ call[c].pc = "fetch"
    /\ call' = [call EXCEPT ![c].pc = "usage",
                            ![c].older = {d \in Calls \ {c} :
                                            HasAnswer(d) /\ call[d].sub = call[c].sub}]
    /\ UNCHANGED <<dbVars, syncing, held>>

DownloadFails(c) ==
    /\ call[c].pc = "fetch"
    /\ Goto(c, "failed")
    /\ UNCHANGED <<dbVars, syncing, held>>

\* Mutant: the row is written if the subscription still exists.
ExpectedAny(c) == subs[call[c].sub] # Missing

\* The condition of RecordSubscriptionUsage.
Expected(c) == subs[call[c].sub] = call[c].url

\* An answer without the header, or with an invalid one, keeps the old values.
Record(c, current) ==
    /\ Expected(c)
    /\ usage' = [usage EXCEPT ![call[c].sub] =
          [of |-> call[c].url,
           values |-> IF current THEN call[c].url
                      ELSE IF @ = Missing THEN Missing
                      ELSE @.values]]

RecordFailure(c) ==
    /\ call[c].pc = "failed"
    /\ Record(c, FALSE)
    /\ End(c)
    /\ UNCHANGED <<nodes, subs, listeners, routing, held>>

RecordUsage(c) ==
    /\ call[c].pc = "usage"
    /\ \E current \in BOOLEAN : Record(c, current)
    /\ IF call[c].imports THEN Goto(c, "import") /\ UNCHANGED syncing ELSE End(c)
    /\ UNCHANGED <<nodes, subs, listeners, routing, held>>

\* Mutant: only the identifier is looked at again.
UnmovedAny(c) == subs[call[c].sub] # Missing

\* The function given to Change: identifier and address are looked at again.
Unmoved(c) == subs[call[c].sub] = call[c].url

\* The answers downloaded before this one are now late.
ImportSubscription(c) ==
    /\ call[c].pc = "import"
    /\ Unmoved(c)
    /\ \E doc \in Documents :
          /\ Import(call[c].sub, doc)
          /\ held' = [held EXCEPT ![call[c].sub] =
                         {<<n, doc[n]>> : n \in DOMAIN doc}]
    /\ syncing' = syncing \ {call[c].sub}
    /\ call' = [d \in Calls |->
          IF d = c THEN NoCall
          ELSE [call[d] EXCEPT !.older = @ \ {c},
                               !.late = @ \/ d \in call[c].older]]
    /\ UNCHANGED <<subs, usage, listeners, routing>>

\* Every other return: the snapshot fails or does not have the subscription, the
\* usage is refused, the body is cut off or does not parse, the transaction fails.
GiveUp(c) ==
    /\ call[c].pc \in {"lookup", "failed", "usage", "import"}
    /\ End(c)
    /\ UNCHANGED <<dbVars, held>>

\* The manager is started again: the requests and the marks are lost.
Restart ==
    /\ call' = [c \in Calls |-> NoCall]
    /\ syncing' = {}
    /\ UNCHANGED <<dbVars, held>>

-----------------------------------------------------------------------------
EditListeners ==
    \/ \E from \in Ports \cup {Missing}, port \in Ports, row \in ListenerRows :
          SaveListener(from, port, row)
    \/ \E p \in Ports : DeleteListener(p)
    \/ SaveRouting

EditNodes ==
    \/ \E i \in NodeIds : SetNodeEnabled(i) \/ DeleteNode(i)
    \/ ImportNodes

EditSubscriptions ==
    \E s \in Subs :
       \/ \E u \in Urls : AddSubscription(s, u) \/ EditSubscription(s, u)
       \/ DeleteSubscription(s)

CallStep(c) ==
    \/ Lookup(c)
    \/ Download(c) \/ DownloadFails(c)
    \/ RecordFailure(c) \/ RecordUsage(c)
    \/ ImportSubscription(c)
    \/ GiveUp(c)

Next ==
    \/ EditListeners \/ EditNodes \/ EditSubscriptions
    \/ \E c \in Calls : CallStep(c) \/ \E s \in Subs : BeginRefresh(c, s)
    \/ Restart

Spec == Init /\ [][Next]_vars

-----------------------------------------------------------------------------
(***************************************************************************)
(* Properties                                                              *)
(***************************************************************************)

\* The rows, and the keys the schema declares unique.
TypeOK ==
    /\ nodes \in [NodeIds -> NodeRows \cup {Missing}]
    /\ subs \in [Subs -> Urls \cup {Missing}]
    /\ usage \in [Subs -> UsageRows \cup {Missing}]
    /\ listeners \in [Ports -> ListenerRows \cup {Missing}]
    /\ routing \in BOOLEAN
    /\ syncing \subseteq Subs
    /\ call \in [Calls -> CallRows]
    /\ held \in [Subs -> SUBSET (Names \X Identities)]
    /\ \A i, j \in NodeIds :
          Stored(i) /\ Stored(j) /\ nodes[i].name = nodes[j].name
             /\ nodes[i].source = nodes[j].source => i = j

\* Nothing refers to what is gone, in whatever order nodes and subscriptions are
\* deleted, re-addressed and answered for: a listener's node exists, a node's
\* subscription exists, and the traffic shown for a subscription was told by its
\* present address (subscription_usage.go: "The URL condition prevents an old
\* response from updating a new source").  An enabled rule listener finds routing
\* switched on.
NothingDangles ==
    /\ \A p \in Ports : listeners[p] # Missing =>
          IF listeners[p].mode = "node" THEN Stored(listeners[p].node)
          ELSE listeners[p].enabled => routing
    /\ \A i \in NodeIds : Stored(i) /\ nodes[i].source # Manual =>
          subs[nodes[i].source] # Missing
    /\ \A s \in Subs : usage[s] # Missing =>
          usage[s].of = subs[s] /\ usage[s].values \in {subs[s], Missing}

\* The available nodes of a subscription are what its last import listed, each
\* name with its content and each once, less what was deleted since: renames,
\* swaps of names, returning nodes and two items of one content lose nothing and
\* leave nothing behind.
SourceIsDocument ==
    \A s \in Subs :
       LET there == {i \in Of(s) : nodes[i].available}
       IN /\ {<<nodes[i].name, nodes[i].identity>> : i \in there} = held[s]
          /\ Cardinality(there) = Cardinality(held[s])

\* A node with a name that no node of its source had.
Arrives(i, source) ==
    /\ nodes'[i] # Missing
    /\ nodes'[i].source = source
    /\ \A j \in Of(source) : nodes[j].name # nodes'[i].name

\* A listener that is not edited keeps its node, of the same source.  A new name
\* comes only with the same content, and only if no other node that lost its name
\* could be meant; of several new names with that content the node takes the first.
\* The switch of a node changes with nothing else.
Kept(bound, was, is) ==
    /\ is # Missing
    /\ is.source = was.source
    /\ is.enabled # was.enabled => is = [was EXCEPT !.enabled = ~@]
    /\ is.name # was.name =>
          /\ is.identity = was.identity
          /\ \A i \in Of(was.source) \ {bound} :
                nodes[i].identity = was.identity =>
                   /\ nodes'[i] # Missing
                   /\ nodes'[i].name = nodes[i].name
                   /\ nodes'[i].available
          /\ \A i \in NodeIds :
                Arrives(i, was.source) /\ nodes'[i].identity = was.identity =>
                   Rank[is.name] <= Rank[nodes'[i].name]

\* What a listener is bound to keeps its meaning (README.md:114 and 116): while the
\* listener is not edited, no import, deletion or switch gives its node to another
\* source or changes its name and content at once, and no new name is guessed where
\* two stored nodes could be meant.  README.md:115 rules out every guess; the code
\* makes one: where one stored node has lost its name and several new names have its
\* content, the first in the order of the document gets it (store.go:466-472).  That
\* much is left to the code, and which of the names it is, is not.
BindingKeepsMeaning ==
    [][\A p \in Ports :
         listeners[p] # Missing /\ listeners[p].mode = "node"
         /\ listeners'[p] = listeners[p] =>
            LET node == listeners[p].node
            IN Kept(node, nodes[node], nodes'[node])]_vars

\* A synchronisation changes the nodes of a subscription only with an answer of
\* its present address, and never with one that is older than what is stored: a
\* slow answer does not undo a later one.
SyncIsCurrent ==
    [][\A c \in Calls :
         call[c].pc = "import" /\ call'[c].pc = "idle" /\ nodes' # nodes =>
            subs[call[c].sub] = call[c].url /\ ~call[c].late]_vars
=============================================================================
