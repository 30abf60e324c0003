# Verification of Mihomo Manager

Mihomo Manager keeps proxy nodes, listeners and routing schemes in SQLite, turns
them into a configuration of the mihomo kernel and applies it. It is one Go
process (`cmd/mihomo-manager`, `internal/manager`), a page (`web/static`) and a
kernel, both processes kept alive by supervisord in one container.

This directory holds TLA+ models of the parts of it that run concurrently or
survive failures, the TLC configurations that check them, and TLAPS proofs. Paths
below are relative to `src/`; manager files are in `src/internal/manager/`.

    tlc -config ConfigApply.cfg MCConfigApply      # a run: see the table below
    tlapm ConfigApplyProofs.tla                    # the proofs; also of the other
                                                   # modules named ...Proofs

## 1. The system

### Components, state, operations

| component | state | operations | model |
|---|---|---|---|
| Configuration application (`config.go`, `runtime.go`, `store.go`) | document and revision, applied revision and last error in SQLite; `config.yaml`, `last-good.yaml`; the kernel's configuration and ports; `Manager.mu` | `Change`, `Apply`, `applyConfig` and its rollback, `recordApply`, `Bootstrap`, startup apply | `ConfigApply`, which implements `Publication` |
| Routing sources (`routing_source_*.go`) | `routing_sources`, `routing_active`, the override tables by scope; drafts and refresh marks in memory | preview, save, refresh (user and scheduler), activate, delete, category and rule edits | `RoutingSources`; the publication itself in `ConfigApply` |
| Node checks (`checks.go`) | task per node, one batch with a queue, a semaphore of 4 | start single, start batch, stop batch, poll, close | `NodeChecks` |
| Exit probes (`exitip.go`) | results by node and listener, one batch, `running`; the probe group's selection in the kernel | start nodes, start listener, stop, poll, close | `ExitProbes` |
| Log window (`observe.go`, `app.js`) | 2000 numbered entries, level, restart token, stream; the page's entries and position | stream loop, `SetLevel`, `Logs`, `Clear`, close; poll and clear of the page | `LogWindow` |
| Node, listener, subscription store (`store.go`, `store_routing.go`) | tables of nodes, listeners, subscriptions; the routing switch | import (keeps identifiers), save, delete, enable | `NodeStore` |
| Subscription synchronisation (`http.go`, `subscription_usage.go`) | usage rows, the marks `Server.syncing` | refresh in two forms: look up, download, record the usage, import | `NodeStore` |
| Routing plan (`routing_plan.go`, `routing.go`) and its edits (`routing_source_store.go`) | rows of edited categories, local rules, blocked rules, choices, by scope; the settings for GEO rules and DNS | compile groups, rules and name resolution; save, delete, restore a category; save, delete, block, unblock a rule; refresh; save the settings | `RoutingPlan` |
| Policy groups (`groups.go`, `groups_http.go`) | stored selections | select, order the members, restore after a reload | selection in `RoutingPlan`, the reload in `ConfigApply` |
| Importer (`internal/importer`), source parser (`routing_source_parse.go`) | none | parse a subscription text, a scheme | what they return: a constant set in `NodeStore`, `RoutingPlan` |
| HTTP server, sessions (`http.go`) | session map | login, logout, routing of requests | not modelled |
| Connections view, pages, packaging | none / browser | | not modelled, except the log page, Bootstrap and supervision |

### How they interact

* `Manager.mu` serialises everything that reads or changes the configuration. A
  change holds it from its commit to the end of its application; a reader
  (`Manager.Snapshot`) therefore waits for an application to end.
* The long calls do not hold it: the download and compilation of a source, the
  probes of checks and exits, the log stream. They work on a state that can be
  old when its result is used.
* Each service has a mutex of its own for its maps, taken after `Manager.mu`
  has been released. A handler reads the state under the one and uses it under
  the other.
* The kernel is reached over HTTP. A call can fail with its effect done.
* A change commits and is then applied; the publication of a routing source is
  applied and then committed.

### What is hard, and what makes each part correct

* **Application**: four copies of the configuration (database, two files,
  kernel), each step of which can fail or be the last one before a stop. Correct:
  the label "applied" is true, a rollback that reports success has brought back
  the previous configuration, `last-good.yaml` always works, the retired local
  scheme does not return, the mutex is always given back, a committed change ends
  applied or with an error.
* **Routing sources**: what is stored was compiled up to 45 seconds earlier from
  two reads. Correct: it still fits when it is stored, no update is lost, a
  deleted source stays deleted, nothing refers to a missing source, the error of
  a refresh goes to the version it concerns, the mark of a refresh is removed.
* **Node checks**: tasks shared between batch, single checks and polls that work
  on an old state. Correct: one live task per node, every target counted once,
  stopping a batch cancels no check it only shares, everything ends.
* **Exit probes**: a group of the kernel selected in one call and used in another.
  Correct: no address of another node or of the host, one run at a time, every
  target gets a result.
* **Log window**: restart tokens, a watcher per stream, an overflowing window and
  a page that polls and clears. Correct: the window is the latest entries, the
  page in order and complete, a new level takes effect, close returns.
* **Node store**: identifiers outlive imports that rename, swap, drop and bring
  back nodes; a download runs without the mutex while its subscription is edited,
  deleted or synchronised again. Correct: a listener's node exists and keeps its
  meaning, a subscription's available nodes are what it listed last, usage and
  nodes come from the present address and never from an answer older than the
  stored one.
* **Routing plan**: documents, nodes, edits, choices and settings change
  independently and are legal one by one. Correct: together they still compile but
  for GEO data that is no longer allowed, no rule names what
  is not there, traffic leaves by what its rule declares or is rejected, names are
  resolved where their traffic goes.

`PROJECT.json` lists the hazards with their lines and the properties for them.

## 2. Modules

Each component is a module with its constants and their assumptions, one action
per step or operation, its fairness and its properties; the `MC` module beside it
gives an instance for TLC. Operators named `...` in a comment beginning with
"Mutant" are wrong variants of the definition that follows them; they are used by
no specification and serve to show that the properties notice such a mistake.

### ConfigApply

One operation at a time holds the mutex; `pc` is where it is, `kind` whether it
is a change (`Change`, `Apply`, `StartupApply`), a publication (`Activate`,
`AcceptActive`) or the re-application after a failed commit.

| code | actions |
|---|---|
| `Manager.Change`, `Apply`, main's startup goroutine | `Change`, `Apply`, `StartupApply` |
| `RoutingSourceService.Activate`, `accept` for a changed active source | `Activate`, `AcceptActive`, `PublishCommits`, `PublishCommitFails`, `ReapplyEnds`, `PublishAborts`, `Acknowledge(Fails)` |
| `applyConfig`: checks, write, reload, verify, keep | `CheckFails`, `Install`, `Reload(Fails)`, `Verify(Fails)`, `KeepGood(Fails)` |
| `applyConfig`: recovery | `UndoWrite(Fails)`, `UndoReload(Fails)`, `UndoVerify(Fails)` |
| `applyLocked`, `recordApply` | `Record(Fails)` |
| `Bootstrap`, run by `entrypoint.sh` | `BootstrapKeepsGood`, `BootstrapWritesConfig` |
| supervisord, crashes | `ManagerStops/Starts`, `KernelStops/Starts`, `ContainerStops` |

A document is a pair of active source and body. Of a body the model knows the
ports it opens for fixed and for rule listeners: what the checks, the
verification and the retirement of the old scheme look at. Loading a file can
leave a port unbound or a closed port open, and says nothing of it; that is what
`Verify` is for. `unrecorded` and `proven` are history variables.

`unrecorded` marks the two ends of an operation that leave the state row as it
was although something happened: the row could not be written, or the code
does not write it (`PublishAborts` after a failed rollback, the dropped result of
`ReapplyEnds`). `AckedIsServing` is conditional on it; `AppliedMeansServing` shows
that the condition is needed.

### Publication, and how ConfigApply implements it

`Publication` is what a user is promised of a change or publication, without
files, kernel, processes and rollbacks: an operation works towards a document
(`op.want`), may make its configuration the good one (`Keep`), and ends by saying
"applied" or "failed", by storing the document (`Commit`), or saying nothing
(`Leave`). A change is stored when it is asked for, a published document only when
it is good; "applied" is said only of what is good.

`ConfigApply` ends with the mapping (`PromiseOf`): `good` is `last-good.yaml`,
`failed` the last error, `op` the kind and target of the operation that holds the
mutex, `"ack"` between the commit of a publication and its record. The checks, the
write of `config.yaml`, the reload, the verification, every step of a rollback and
every restart are stutters; a crash in mid-operation is `Leave`; `KeepGood` is
`Keep`; Bootstrap's removal of the old rule listeners is `Retire`. The mapping is
checked (`Promise` in run `config_apply`) and proved (`ImplementsPublication`).

### RoutingSources

A call (a request or the scheduler) is at one of the unlocked steps of `Preview`
or `Refresh`: looking up the source, `prepare`'s read of the state, its read of
the scope, the download, then `accept`. What runs under `Manager.mu` is one
action. A draft carries what it was made from (`seen`, `base`, `scope`,
`revision`), so that a property can compare it with the database at the moment it
is stored. `Restart` loses the drafts, the marks and the calls. A publication
appears at its commit, `pending` being what its record leaves; its way to the
kernel is `ConfigApply`.

### NodeChecks

`req` holds a handler between its read of the state and its use: `PrepareSingle`,
`PrepareBatch`, `PreparePoll` read, `StartSingle`, `StartBatch`, `Snapshot` use.
`Execute(t)` is `execute`, with the slot and the first read as one step (the slot
is taken with nothing in between that another process could see), the probe, and
the second read. `Work(w)` is a worker of the batch: an owned item is executed by
the worker that took it, a shared one is awaited. Contexts are `cancelled` of a
task, `stopped` of the batch and `closed`.

### ExitProbes

`Probe(k)` is the goroutine of run `k`: `NextTarget`, `Paced`, `Select` or
`SelectFails`, `Lookup`, `Finish`. `Edit`, `Apply` and `ReloadSame` reload the
kernel, which selects `DIRECT` again. `shown[x].via` is the outbound an address
was seen through.

### LogWindow

`Top` to `Backoff` are `Observer.run`, `WatchRestart` and `WatchEnds` its watcher,
`SetLevel` and `SendRestart` the two halves of `SetLevel` (the token is sent after
the unlock). Entries are their numbers; they go up, so the entries after a number
are what follows the last one that is not above it (`Logs`). `SendPoll` to `LosePoll` and `Clear` to
`LoseClear` are the page: a poll takes `nextSeq` of the answer as its position.

### NodeStore

| code | actions |
|---|---|
| `Store.SaveListener`, `DeleteListener`, `SaveRouting` | `SaveListener`, `DeleteListener`, `SaveRouting` |
| `SetNodeEnabled`, `DeleteNode` | `SetNodeEnabled`, `DeleteNode` |
| `ImportNodes`: match by name, else by unique content; mark what is gone | `Import`, by `Named`, `Orphans`, `FirstOfContent`, `Renames`, `Claimed` |
| `AddSubscription`, `SaveSubscription`, `DeleteSubscription` | `AddSubscription`, `EditSubscription`, `DeleteSubscription` |
| `refreshSubscription` | `BeginRefresh`, `Lookup`, `Download(Fails)`, `RecordUsage`, `RecordFailure`, `ImportSubscription`, `GiveUp` |

`Claimed` says in one expression what the loop of the import computes: an item
stands for the node of its name; failing that, for the only node of its content
whose name the document no longer has, unless an earlier item of the same content
took it. Items come in the order of their lower-cased names (`Rank`, assumed
different for different names: with equal ones `sort.Slice` promises no order). A
call keeps the address it looked up; `Server.syncing` is the mark that refuses a
second call for the subscription. The marks and calls are lost by `Restart`.
`held`, `older` and `late` are history: what the last import listed, and which
answers were downloaded before which.

### RoutingPlan

`compileRouting` and the operators it is made of take the document and the edits
they are asked about, because every handler compiles a state it has not stored yet
(`Compiles(doc, after)`). `Members`, `NodeGone`, `Upstream`, `Local`, `Final` build
the plan. The members of a group are a set with a `first` one (the choice, or the
first that is there as listed): nothing else of their order has an effect here. The
rules keep the places they are written at (`<<1, position>>` for a local rule,
`<<2, index>>` for one of the document, `End`), in the order of `Before`.

Two searches of the code are recursive functions. `Visit` is the search of
`validateGroupGraph`: for each set of groups on the way, the groups at which it
fails. `Foreign` is `foreignPolicy`: what is still to be looked at, and what was
visited, which all branches share. The properties compare the results with
definitions of their own that do not search (`Within`, the smallest set of groups
that is closed under "leads to"; `ExitsOf`, `Declares`, `Written`) and follow the
documents and not the code.

`Compiles` has two parts. `GeoAllowed` compares the document with the permission for
GEO data: rules for it, and the policies of an imported DNS in use. `Sound` is about
groups and rules. The permission and the switch of the manager's DNS are `settings`,
which `SaveRouting` stores without a look at the scheme; the parser of a refresh
(`Parses`) asks more of a document than the compilation does: no GEO data in a DNS
that is switched off or in its fallback-filter. `unseen` is history: the categories
whose definition came back without being compiled. A scheme is compiled as if a rule
listener were enabled, as each check and preview does; an enabled DNS has resolvers of
both kinds, as it has by default.

### How the modules compose

`ConfigApply` supports the atomicity that the others assume: its operations hold
the mutex to their end (`LockIsReleased`), and `NodeChecks`, `ExitProbes` and
`RoutingSources` see a change or publication as one step because every reader of
the configuration waits for it. Every operation of `NodeStore` and `RoutingPlan` is
a `Change` of `ConfigApply`: one transaction, and its body is the new `Bodies`
value. A document of `RoutingPlan` is one that `RoutingSources` has accepted. `NodeChecks` and `ExitProbes` need of it whether
the stored revision is applied; `RoutingSources` needs `revision` and `pending`.
`ExitProbes` additionally sees each reload of the kernel, which does not wait for
a probe.

## 3. What is checked

| run | properties | result |
|---|---|---|
| `config_apply` | `TypeOK`, `AckedIsServing`, `RestoredIsPrevious`, `LastGoodIsProven`, `LegacyStaysRetired`, `AckIsTruthful`, `Promise`, `ChangeIsReconciled`, `LockIsReleased` | hold |
| `applied_means_serving` | `AppliedMeansServing` | violated by the code |
| `node_checks` | `TypeOK`, `OneLiveTask`, `BatchAccounts`, `StopSparesSingles` | hold |
| `node_checks_live` | `ChecksEnd` | hold |
| `recheck_is_served` | `RecheckIsServed` | violated by the code |
| `exit_probes` | `TypeOK`, `NodesNotMixedUp`, `RunningIsHeld`, `NothingIsLost` | hold |
| `host_never_shown` | `HostNeverShown` | violated by the code |
| `log_window` | `TypeOK`, `WindowIsRecent`, `PageIsInOrder`, `StaleStreamEnds`, `LevelTakesEffect`, `CloseReturns` | hold |
| `nothing_skipped` | `NothingSkipped` | violated by the code |
| `routing_sources` | `TypeOK`, `NothingDangles`, `DeletedStaysDeleted`, `CompiledAsStored`, `NoLostUpdate`, `FailureIsCurrent`, `RefreshEnds` | hold |
| `node_store` | `TypeOK`, `NothingDangles`, `SourceIsDocument`, `BindingKeepsMeaning`, `SyncIsCurrent` | hold |
| `routing_plan` | `TypeOK`, `EditsCompile`, `NothingLeaks`, `DnsFollowsTraffic` | hold |

### The four disagreements that a run shows

* **A failed publication can leave "applied" up.** `Activate` and `accept` return
  the error of `applyConfig` without `recordApply`. When the rollback fails too,
  the kernel may run the rejected configuration while the row still says that
  the stored one is applied (README.md:106). A change in the same situation
  stores the error.
* **A repeated check can be swallowed.** `claim` (checks.go:99) hands out the
  unfinished task of the node even when it belongs to an older content and has
  just been cancelled; the request is answered with 202 and no new task exists
  (README.md:154).
* **The host's address can be shown for a node.** A reload between `SelectProxy`
  and `lookup` (exitip.go:307-313) resets the probe group to `DIRECT`
  (README.md:200, docs/API.md:141).
* **The first log entry after each answer is skipped.** `NextSeq` is the number of
  the next entry, `Logs` returns those after the number given, and the page gives
  back `nextSeq` (docs/API.md:108, app.js:405).

### Disagreements met while modelling, without a run of their own

The models have these cases; the properties say what they except.

* **Giving up an edit can store a cycle.** `RestoreCategory` of an edited category
  deletes the edit without compiling (routing_source_store.go:315-320). With A
  edited away from B and B edited to contain A, restoring A leaves the cycle A, B,
  A, which README.md:280 says is refused (docs/VALIDATION.md:136). The kernel keeps
  the old configuration, as the candidate does not build, but no later change
  applies until the edit is repaired. `EditsCompile` therefore looks at the scheme
  without the categories that came back this way (`Hidden`): any other cycle
  violates it.
* **The permission for GEO data can be withdrawn while it is in use.** `SaveRouting`
  stores the setting without compiling (store_routing.go:51-76); the change is
  committed, its candidate does not build (routing_plan.go:75-90), and nothing applies
  until the setting or the scheme is changed. README.md:274 speaks of the preview only,
  so this is no disagreement; `EditsCompile` leaves `GeoAllowed` out and says that the
  rest of the compilation stays sound.
* **Blocking an entry of an inactive node has no effect.** The identifier shown is
  that of the text after the node was replaced by REJECT (routing_plan.go:394-396),
  the compilation looks up the original text (routing_plan.go:191); docs/API.md:196
  derives it from the original. `BlockRoutingRule` blocks what the entry shows.
* **Several local rules for one domain.** The first takes the traffic, the last
  decides the resolver (routing_plan.go:270-285). In the same way a rule set with
  several rules is resolved abroad if any of them leads abroad (routing.go:167-201),
  although the first takes its traffic. `DnsFollowsTraffic` speaks of domains with one
  enabled rule; of a rule set whose traffic goes abroad it says that it is resolved
  there, and the converse of sets with one rule.
* **A rename that could be meant twice.** README.md:115 says that an ambiguous
  rename is not guessed. Ambiguity is looked for among the stored nodes only
  (store.go:466-472): if a node of content c has lost its name and the document brings
  two new names of content c, the first of them in the order of the import takes its
  identifier. `BindingKeepsMeaning` cites the lines before and after and has that case
  as what the code does: no other stored node could be meant, and of several new names
  it is the first.

### Bounds, and why they are enough

* `config_apply`: one source, an empty and a ported body, one revision, one stop;
  safety, refinement and liveness on one instance. One source gives all of
  activation, switching off and updating; the ported body pins one port and gives
  another to the rule engine, so that activation only opens a port, removal closes
  both, and all configurations differ in ports. A run begins with the container
  stopped, on a new data directory, one of an older version, or one with a source
  active: the stop before the run and the one in it interrupt an operation and what
  repairs it. An operation that runs into what an earlier one left is there with
  one revision (`Apply` and failed publications use none up); all bounds at once are
  the business of the proofs. The violation run has two revisions and no stop.
* `node_store`: three names and three identifiers, so that a name is new while two
  nodes of one content have lost theirs; two contents; one subscription with two
  addresses and two calls, so an answer can be older than the stored one; one
  listener and imports by hand beside it. Two constraints keep it finite in time
  (`Few`): at most two nodes while a call is under way, since what a download meets
  is the subscription; at most one node while a rule listener exists or routing is
  off, since rules refer to no node. The actions themselves are not bounded.
* `routing_plan`: a category of all documents, one of two of them, and two local ones,
  interchangeable, so that a plan of at most three groups (`MaxGroups`, 512 in the
  code) can be full; a node, a host and one of GEO data, since members are known,
  unknown or inactive one by one. The three documents have a chain of groups, the
  opposite chain with a GEO rule, and a document without one of the groups whose DNS
  names GEO data; two rows of edits, rules, blocks and choices at a time (`MaxRows`):
  two opposite edits make a cycle, an edit and a deletion empty a group, a rule and a
  choice make a resolver stale. The settings are free at every step.
* `routing_sources`: one source, two calls of any kind, one kept draft, one
  revision step and versions up to two. The initial state is any stored
  database (source present or not, active or not, with overrides or not), so one
  step of the revision makes a draft stale or publishes, and two versions let a
  save overtake another. With one source every conflict is between two calls on
  it; sources meet only through `revision` and `active`, which the other actions
  change as well. Two sources with one call and two revisions were explored too
  and show nothing else.
* `node_checks`: two nodes, one slot (so two workers' worth of waiting arises
  with single checks), two contents, two edits, two task identifiers (finished
  tasks that nothing refers to are reused), one batch, one handler between its
  two steps. Nodes and contents are interchangeable, hence the symmetry set; the
  liveness run has none.
* `exit_probes`: two nodes and one listener, two runs so that one is asked for
  while another is stopped, one edit with any number of reloads.
* `log_window`: a window of two entries and three to write, so it overflows; one
  entry per answer and two on the page, so both cut. The violation run has a
  window larger than what is written: nothing is ever dropped.

The bounds `MaxRevision`, `MaxCrashes`, `MaxVersion`, `MaxTasks`, `MaxBatches`,
`MaxEdits`, `MaxRuns` and `MaxEntries` only stop counters of the environment (users
stop editing, nothing fails any more); no step of a component is cut off in the
middle by one, except that `Accept` stores no version beyond `MaxVersion`, where
`AcceptFails` remains possible.

Deadlock is checked in every run. `NodeChecks` ends in `Terminated`, which asks
that nothing is in flight, so a process that could not shut down would show as a
deadlock; the other systems can always take a step (a stopped process can be
started again, a page can poll).

### Fairness

* `ConfigApply`: the steps of an operation and its end happen because each has a
  context with a deadline (45, 60, 15 seconds) or is local; supervisord restarts
  what stopped. The startup goroutine gets strong fairness: it competes with
  requests for a Go mutex, which hands itself to a waiter starved for 1 ms. No
  fairness for requests or stops, and none that prefers success to failure.
* `NodeChecks`: goroutines run; a probe ends by its 7 seconds. `TakeSlot` is
  strongly fair because senders on a Go channel wait in a queue.
* `LogWindow`: goroutines run and timers fire; a stream ends only when its context
  does, so `StreamEnds` is fair only then.
* `RoutingSources`: a call proceeds (45-second download, 60-second publication, a
  mutex that everybody releases).
* `NodeStore` and `RoutingPlan` state safety only. Nothing retries a
  synchronisation: the user asks again, so there is nothing to promise beyond the
  end of the request, which every step of a call may reach.

## 4. What is proved

34 theorems in eight modules: every invariant and every action property that a run
checks, and the refinement, for all values of the constants; what TLC checked on a
small instance holds for every one. The assumptions are named in the modules they
are about, and TLC evaluates them in every run. Where a set is assumed finite it is
one of rows or of running goroutines, and the theorem counts its elements or needs a
search of it to end; no theorem assumes a bound on how many there are.

### ConfigApply

Seven theorems for all sets of sources, bodies and ports and all bounds, for the
safety properties of `config_apply`. `ConfigApplyProofs`: `TypeCorrect`,
`LabelIsTrue`, `AcknowledgementIsTruthful`, `LastGoodAlwaysProven`,
`RestoredIsAlwaysPrevious`, `LegacyNeverReturns`. `PublicationProofs`:
`ImplementsPublication`, that `ConfigApply` implements `Publication`.

Assumptions (named in `ConfigApply`): the retired scheme, the absence of a source
and the sources are different; every body has a set of ports and the empty body
has none; the bounds are natural numbers. Nothing is assumed finite.

The argument. None of the properties is inductive: "the label is true when
idle" says nothing of an operation that is about to set it. `Consistent` adds what
an operation has established at each step:

* `Typing`: the types, and that a publication keeps the revision below its bound
  until it commits;
* `Locals`: who holds the mutex, that the document being applied is the stored
  one for a change, and that the revision to be recorded is the current one;
* `Progress`: which files and the kernel hold the candidate, or after a rollback
  the previous configuration;
* `LabelHolds`: while the label is true and a publication is under way, the file
  a rollback would restore is the stored configuration - what makes a publication
  that fails and is rolled back leave a true label behind.

`Consistent` is proved inductive action by action. `LegacyStaysRetired` rests on a
second invariant, `RetiredScheme`: where the old scheme can still be before the
first Bootstrap has run. `LastGoodIsProven` and `RestoredIsPrevious` are inductive
relative to `Consistent`.

`ImplementsPublication` takes each action to its abstract one. Most are stutters by
one lemma (`Silent`): they leave the database, `last-good.yaml` and the operation
alone. The ends that say "applied" need `Progress`, that `last-good.yaml` holds the
candidate when the outcome is "applied", and `Locals`, that the revision to be
recorded is the current one; the forgetting of an operation needs one more
invariant, `NothingWanted`, that an idle manager works towards nothing.

### NodeStore

Five theorems for any identifiers, names, contents, subscriptions, addresses, ports
and calls: `RowsAreTyped`, `NothingEverDangles`, `BindingsAlwaysKeepTheirMeaning`,
`SyncIsAlwaysCurrent`, `SubscriptionsShowTheirDocument`. Assumptions: lower-cased
names are different, the missing value is none of the others and no row, and the
identifiers are finitely many (a table has finitely many rows at any time; without
it "listed once", a cardinality, would mean nothing).

`Sound` is inductive: the types of the rows with the uniqueness of names in a
source (`DataTypes`), what calls know (`CallsKnow`) and `NothingDangles`.

* The import is described once. `ImportShape` says who owns an item, `ClaimedIsMeant`
  and `NamedIsClaimed` that a claim is by name or by a content that no other node
  without a name has, and `ImportEffect` what is left of the rows. Typing, references
  and bindings follow from it.
* `CallsKnow`: a call under way has marked its subscription, no two calls are under
  way for one. So no answer for a subscription is downloaded while another waits to
  be stored, and none can be late. A restart forgets the marks and the calls
  together. `SyncIsCurrent` follows.
* `NothingDangles` needs of it that a call which stores has an address, which the
  code compares with the stored one.

* `SourceIsDocument` has two parts. That the available nodes of a subscription are
  its last document less what was deleted is inductive beside `Sound` (`Listing`,
  action by action in `ListingStep`): owners of different items are different
  (`ClaimsAreApart`), so an import neither loses an item nor leaves a row behind. That
  each item is there once is then the uniqueness of names (`EachListedOnce`).

### RoutingSources

Six theorems for any sources, contents, overrides, calls, kept previews and bounds:
`RowsAndCallsAreTyped`, `NothingEverDangles`, `DeletedNeverReturns`,
`StoredAsCompiled`, `NoUpdateIsLost`, `FailuresAreCurrent`. Assumptions: absent
values differ from the others, there is a content, the bounds are natural numbers.

`Sound` says what the holder of a draft, a call or a token, still knows of the
database at each of its unlocked steps. `WorkIsCurrent`: the row it saw is the row
while the version is the one it read (`Current`); what it compiled against is what
there is while the revision is the one it read (`Compiled`, `Scoped`). `OneDraftOfNew`:
a source that is not stored has one draft only, so that it cannot be stored by
another one first. `NothingDangles` is inductive beside these. What `accept`
compares (version and revision) is
then enough for all of `DeletedStaysDeleted`, `CompiledAsStored`, `NoLostUpdate`;
`FailureIsCurrent` needs `Current` of a call that has failed.

### NodeChecks

Four theorems for any nodes, contents, tasks, slots, workers and handlers:
`CheckVariablesAreTyped`, `RequestsAreShared`, `EveryTargetIsCounted`,
`SinglesOutliveTheBatch`. Assumptions: finitely many nodes (their number is
compared with what a batch counts) and at least one (a task record has a node before
it is used), at least one slot, numbers for the bounds.

`Sound` adds to the types and `BatchAccounts`: `TasksAreCurrent`, that a task at work
which the map does not have under its node was cancelled, however old the state is
that its handler used; and `QueueIsServed`, that a worker leaves only when the queue
is empty. `OneLiveTask` follows from the first at once: two live tasks of a node would
both be the one in the map. `BatchAccounts` needs the second where the last worker
ends the batch, and where a batch shares tasks, that different nodes have different
tasks.

`StopSparesSingles` is about steps: a task of no batch that a step cancels is out of
date for the state that step used, or the service closes. Each handler is looked at by
itself (`ClaimSpares`, `SnapshotSpares`, `ExecuteSpares`, together `UsesSpare`). They use
states read before; `Unedited` says that until the first edit what was read is what
is stored, so that a step which outdates a task has an edit before it.

### ExitProbes

Four theorems for any nodes, listeners, handlers, runs and edits:
`ProbeVariablesAreTyped`, `NodesAreNeverMixedUp`, `OneRunAtATime`, `NoResultIsLost`.
Assumptions: nodes, listeners and `DIRECT` are apart, nodes and listeners finitely
many.

Here the conjuncts lean on each other, in this order: one run is at work at a time
(`RunningIsHeld`); so the probe group has what that run selected or, after a reload,
`DIRECT` (`SelectionIsHeld`); so a node is shown with its own exit or the host's
(`NodesNotMixedUp`). `Accounts` says that counted, in hand and to come make up the
targets of a run that was not cancelled, and never more of one that was; `Awaited`
that who is shown as waiting has a run that will come to it, or had one that was
stopped at it or before it. The last two are
`NothingIsLost`. That a run may still show the host's address is the finding
`HostNeverShown`, and the proof shows that it is all that can go wrong.

### LogWindow

Four theorems for windows, answers and pages of any size, and any number of handlers
that set the level: `LogVariablesAreTyped`, `WindowStaysRecent`, `PageStaysInOrder`,
`StaleStreamsEnd`.

`Sound` adds that an answer under way has only numbers above the position it was asked
from (`AnswerIsNewer`), the page only numbers below the position it asks from next
(`PageIsOlder`), neither a number that was not given yet (`NumbersExist`), and that a
stream which runs has a watcher (`Watched`). The first three make the page ordered
whatever is polled, cleared and lost; the last makes every token reach a stream.

### RoutingPlan

Four theorems for any documents, nodes, hosts, edits and positions: `PlanRowsAreTyped`,
`EditsGoOnCompiling`, `NothingEverLeaks`, `DnsAlwaysFollowsTraffic`. Assumptions: what
`parseRoutingDocument` guarantees of a document; groups, nodes and built-in outbounds
have different names (`NamesAreApart`: routing_source_parse.go:180 and
routing_source_store.go:199 refuse a group that is called like a node or an
outbound); the missing value is no name and no edit; `MATCH` is no host, what GEO rules
name are hosts; categories, nodes and positions are finitely many; the limit of groups
is a number.

* `EditsCompile`: operations that look at their result leave a sound scheme by their
  guard, with nothing unseen (`StoredIsSound`). Of what the others change, settings,
  nodes, kinds and members of one list, nothing counts but what groups list of each
  other: which nodes are active does not (`SoundIsShape`). A category that comes back
  unseen is taken away from the scheme again before it is looked at
  (`HidingKeepsShape`); that this leaves no cycle is a fact about graphs, a part of one
  has no cycle that the whole has not (`PartsHaveNoCycle`).
* `NothingLeaks` follows from the types alone, but not from the shape of the model: it
  is about what `compileRouting` computes. `VisitIsRecursive` shows that the search's
  defining equation has a solution, the least one; `NoEndlessWay` that a search which
  fails nowhere leaves no set of groups each of which leads to another, by the longest
  way it has not failed on; `NoGroupLeadsBack` that then no member of a group leads
  back to it. `FirstAsWritten` compares the rules place by place: what a host meets
  first in the plan is what it meets first as written, or `REJECT`. `FewerExits` and
  `ExitsAreDeclared` carry this to the outbounds.
* `DnsFollowsTraffic`: `Reaches` asks whether a node can be reached from what is to be
  looked at by a way that avoids what was visited. It has the recursion of
  `foreignPolicy` (`AnswersStep`), and since each step looks at one policy less or has
  visited one group more, nothing else has (`SearchAnswers`): sharing the visited
  groups between branches loses no node. With the invariant that a local rule names no
  node (`NoNodePolicies`) and `OnlyRuleComesFirst` the resolver of a host is that of
  the policy its traffic takes. For a rule set `SetsByPlaces` finds the rule whose entry
  wins, and `UpstreamComesFirst` that, without a local rule for the set, it is the first
  of the document, which is also the one that takes the traffic.

### Only model-checked

The liveness properties `ChangeIsReconciled`, `LockIsReleased`, `ChecksEnd`,
`LevelTakesEffect`, `CloseReturns` and `RefreshEnds`: fairness and ENABLED are outside
what TLAPS can do here. No module that is proved about has a RECURSIVE operator; the
two searches of `RoutingPlan` are recursive functions; the proofs show that their
defining equations hold from minimal elements of well-founded orders (`WFMin`), since
the library's induction theorems take an operator the provers cannot instantiate.

## 5. What is not modelled

* Texts: YAML, subscription formats, domain and address syntax. The importer and
  the source parser are functions of a text without state: of the first the models
  have what `NodeStore` relies on (no name twice, no empty document), of the second
  the documents of `RoutingPlan`. Filters, providers and the matching of node names to stored nodes are part of that
  parsing and left out. Of GEO rules and imported DNS the models have whether a scheme
  needs the permission to use them, which is asked at each compilation, and not what
  they say.
* The migration of old databases (`migrateListeners`, `seedRouting`): it runs once,
  in one transaction, before anything else.
* The numbers of the traffic used: the model tells apart where they came from.
* Time: intervals, deadlines and backoffs are choices of the environment; that
  a deadline has passed is a failure that may happen at any time.
* SQLite: a transaction commits or does not.
* Sessions: a map under one mutex that nothing else reads. The connections view: one
  answer of the kernel joined with one snapshot. Static pages, the image build.

## 6. Plan

Done: `ConfigApply`, `Publication` and the proof that it is implemented, `NodeStore`,
`NodeChecks`, `ExitProbes`, `LogWindow`, `RoutingSources`, `RoutingPlan`, and the proofs
of each.

Each invariant and action property is proved. Possible next:

1. A refinement for the parts that have none yet: `RoutingSources` as an atomic store
   of accepted drafts; `NodeChecks` as a set of checks that end.
2. The parser of schemes, as far as the resolution of names goes.
