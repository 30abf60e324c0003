--------------------------- MODULE NodeStoreProofs ---------------------------
(***************************************************************************)
(* Proofs about NodeStore, for all identifiers, names, contents,           *)
(* subscriptions, addresses, ports and calls.                              *)
(*                                                                         *)
(* The import is the one operation that is not plain: its effect on the    *)
(* rows is stated once, in ImportEffect, and used for typing, references   *)
(* and bindings.  A call knows an address once it has looked it up, and    *)
(* the mark Server.syncing keeps two calls from one subscription.          *)
(***************************************************************************)
EXTENDS NodeStore, FiniteSetTheorems, TLAPS

USE DEF dbVars

\* A document gives contents to names.
LEMMA DocumentTypes ==
    ASSUME NEW doc \in Documents
    PROVE  /\ DOMAIN doc \subseteq Names
           /\ \A n \in DOMAIN doc : doc[n] \in Identities
  BY DEF Documents

\* Rows are typed, and a name comes once in a source.
Rows == nodes \in [NodeIds -> NodeRows \cup {Missing}]

UniqueNames ==
    \A i, j \in NodeIds :
       Stored(i) /\ Stored(j) /\ nodes[i].name = nodes[j].name
          /\ nodes[i].source = nodes[j].source => i = j

\* Two items never claim one node: it is found by its name, or by a content that only
\* the first item of that content may take.
LEMMA ClaimsAreApart ==
    ASSUME NEW source, NEW doc \in Documents, NEW m \in DOMAIN doc, NEW n \in DOMAIN doc,
           NEW i \in Claimed(source, doc, m), i \in Claimed(source, doc, n)
    PROVE  m = n
<1>1. \A k \in DOMAIN doc :
         i \in Claimed(source, doc, k) =>
            \/ ~Renames(source, doc, k) /\ nodes[i].name = k
            \/ /\ Renames(source, doc, k)
               /\ nodes[i].name \notin DOMAIN doc /\ nodes[i].identity = doc[k]
  BY DEF Claimed, Named, Orphans
<1>2. CASE ~Renames(source, doc, m) \/ ~Renames(source, doc, n)
  BY <1>1, <1>2
<1>3. CASE Renames(source, doc, m) /\ Renames(source, doc, n)
  <2>1. doc[m] = doc[n]
    BY <1>1, <1>3
  <2>2. Rank[m] <= Rank[n] /\ Rank[n] <= Rank[m]
    BY <1>3, <2>1 DEF Renames, FirstOfContent
  <2>3. m \in Names /\ n \in Names /\ Rank[m] \in Nat /\ Rank[n] \in Nat
    BY DocumentTypes, NodeStoreAssumption
  <2>4. Rank[m] = Rank[n]
    BY <2>2, <2>3
  <2>5. QED
    BY <2>3, <2>4, NodeStoreAssumption
<1>4. QED
  BY <1>2, <1>3

\* What an import does, item by item: an item has an owner, which is a node that
\* was not stored or one that the item claims; no node owns two items, and an owner
\* gets name, source and content of its item, and the switch it had.
LEMMA ImportShape ==
    ASSUME NEW source \in Sources, NEW doc \in Documents, Import(source, doc)
    PROVE  \E owner \in [DOMAIN doc -> NodeIds] :
             /\ \A n \in DOMAIN doc :
                   \/ Claimed(source, doc, n) = {} /\ ~Stored(owner[n])
                   \/ owner[n] \in Claimed(source, doc, n)
             /\ \A m, n \in DOMAIN doc : owner[m] = owner[n] => m = n
             /\ nodes' = [i \in NodeIds |->
                   IF \E n \in DOMAIN doc : owner[n] = i
                   THEN [name |-> CHOOSE n \in DOMAIN doc : owner[n] = i,
                         source |-> source,
                         identity |-> doc[CHOOSE n \in DOMAIN doc : owner[n] = i],
                         enabled |-> Stored(i) => nodes[i].enabled,
                         available |-> TRUE]
                   ELSE IF i \in Of(source) /\ source # Manual
                        THEN [nodes[i] EXCEPT !.available = FALSE]
                        ELSE nodes[i]]
<1> DEFINE unknown == {n \in DOMAIN doc : Claimed(source, doc, n) = {}}
           own(fresh) == [n \in DOMAIN doc |->
                            IF n \in unknown THEN fresh[n]
                            ELSE CHOOSE i \in Claimed(source, doc, n) : TRUE]
<1>1. PICK fresh \in Injection(unknown, {i \in NodeIds : ~Stored(i)}) :
         nodes' = [i \in NodeIds |->
                IF \E n \in DOMAIN doc : own(fresh)[n] = i
                THEN [name |-> CHOOSE n \in DOMAIN doc : own(fresh)[n] = i,
                      source |-> source,
                      identity |-> doc[CHOOSE n \in DOMAIN doc : own(fresh)[n] = i],
                      enabled |-> Stored(i) => nodes[i].enabled,
                      available |-> TRUE]
                ELSE IF i \in Of(source) /\ source # Manual
                     THEN [nodes[i] EXCEPT !.available = FALSE]
                     ELSE nodes[i]]
  BY DEF Import
<1>2. \A n \in unknown : fresh[n] \in NodeIds /\ ~Stored(fresh[n])
  BY DEF Injection
<1>3. \A n \in DOMAIN doc : Claimed(source, doc, n) \subseteq NodeIds
  BY DEF Claimed, Orphans, Named, Of
<1>4. \A n \in DOMAIN doc \ unknown : own(fresh)[n] \in Claimed(source, doc, n)
  OBVIOUS
<1>5. own(fresh) \in [DOMAIN doc -> NodeIds]
  BY <1>2, <1>3, <1>4
<1>6. \A n \in DOMAIN doc :
         \/ Claimed(source, doc, n) = {} /\ ~Stored(own(fresh)[n])
         \/ own(fresh)[n] \in Claimed(source, doc, n)
  BY <1>2, <1>4
<1>7. ASSUME NEW m \in DOMAIN doc, NEW n \in DOMAIN doc, own(fresh)[m] = own(fresh)[n]
      PROVE  m = n
  <2>1. \A i \in NodeIds : i \in Of(source) => Stored(i)
    BY DEF Of
  <2>2. \A k \in DOMAIN doc \ unknown : Stored(own(fresh)[k])
    BY <1>4 DEF Claimed, Orphans, Named, Of
  <2>3. CASE m \in unknown /\ n \in unknown
    <3>1. fresh[m] = fresh[n]
      BY <1>7, <2>3
    <3>2. QED
      BY <2>3, <3>1 DEF Injection, IsInjective
  <2>4. CASE m \notin unknown /\ n \notin unknown
    <3> DEFINE i == own(fresh)[m]
    <3>1. i \in Claimed(source, doc, m) /\ i \in Claimed(source, doc, n)
      BY <1>4, <1>7, <2>4
    <3> HIDE DEF i
    <3>2. QED
      BY <3>1, ClaimsAreApart
  <2>5. CASE m \in unknown /\ n \notin unknown
    BY <1>2, <1>7, <2>2, <2>5
  <2>6. CASE m \notin unknown /\ n \in unknown
    BY <1>2, <1>7, <2>2, <2>6
  <2>7. QED
    BY <2>3, <2>4, <2>5, <2>6
<1>8. QED
  BY <1>1, <1>5, <1>6, <1>7

\* A claimed node is of the source, and has the name of the item or its content; in
\* the second case no other node of the source without a name of the document does.
LEMMA ClaimedIsMeant ==
    ASSUME NEW source, NEW doc, NEW n \in DOMAIN doc,
           NEW i \in Claimed(source, doc, n)
    PROVE  /\ i \in Of(source)
           /\ nodes[i].name # n =>
                /\ nodes[i].name \notin DOMAIN doc
                /\ nodes[i].identity = doc[n]
                /\ Orphans(source, doc, doc[n]) = {i}
  BY DEF Claimed, Named, Orphans, Renames

\* A node whose name the document lists is claimed by that item and by no other.
LEMMA NamedIsClaimed ==
    ASSUME UniqueNames, NEW source, NEW doc,
           NEW i \in Of(source), nodes[i].name \in DOMAIN doc
    PROVE  /\ Claimed(source, doc, nodes[i].name) = {i}
           /\ \A n \in DOMAIN doc : i \in Claimed(source, doc, n) => n = nodes[i].name
<1>1. Named(source, nodes[i].name) = {i}
  BY DEF Named, Of, UniqueNames
<1>2. ~Renames(source, doc, nodes[i].name)
  BY <1>1 DEF Renames, New
<1>3. QED
  BY <1>1, <1>2, ClaimedIsMeant DEF Claimed

\* What an import leaves of the rows.
LEMMA ImportEffect ==
    ASSUME NEW source \in Sources, NEW doc \in Documents, Import(source, doc),
           Rows, UniqueNames
    PROVE  /\ Rows'
           /\ UniqueNames'
           /\ \A i \in NodeIds : nodes'[i] # Missing =>
                 nodes'[i].source = IF Stored(i) THEN nodes[i].source ELSE source
           /\ \A i \in NodeIds : Stored(i) =>
                 /\ nodes'[i] # Missing
                 /\ nodes'[i].enabled = nodes[i].enabled
                 /\ nodes'[i].name # nodes[i].name =>
                       /\ i \in Of(source)
                       /\ nodes'[i].identity = nodes[i].identity
                       /\ \E content : Orphans(source, doc, content) = {i}
           /\ \A i \in Of(source) : nodes[i].name \in DOMAIN doc =>
                 nodes'[i].name = nodes[i].name /\ nodes'[i].available
           /\ \A i, j \in NodeIds :
                 Stored(i) /\ nodes'[i].name # nodes[i].name
                 /\ Arrives(j, source) /\ nodes'[j].identity = nodes[i].identity =>
                    Rank[nodes'[i].name] <= Rank[nodes'[j].name]
<1>1. PICK owner \in [DOMAIN doc -> NodeIds] :
             /\ \A n \in DOMAIN doc :
                   \/ Claimed(source, doc, n) = {} /\ ~Stored(owner[n])
                   \/ owner[n] \in Claimed(source, doc, n)
             /\ \A m, n \in DOMAIN doc : owner[m] = owner[n] => m = n
             /\ nodes' = [i \in NodeIds |->
                   IF \E n \in DOMAIN doc : owner[n] = i
                   THEN [name |-> CHOOSE n \in DOMAIN doc : owner[n] = i,
                         source |-> source,
                         identity |-> doc[CHOOSE n \in DOMAIN doc : owner[n] = i],
                         enabled |-> Stored(i) => nodes[i].enabled,
                         available |-> TRUE]
                   ELSE IF i \in Of(source) /\ source # Manual
                        THEN [nodes[i] EXCEPT !.available = FALSE]
                        ELSE nodes[i]]
  BY ImportShape
<1> DEFINE Owns(i) == \E n \in DOMAIN doc : owner[n] = i
           Item(i) == CHOOSE n \in DOMAIN doc : owner[n] = i
<1>2. \A i \in NodeIds : Owns(i) => Item(i) \in DOMAIN doc /\ owner[Item(i)] = i
  OBVIOUS
<1>3. ASSUME NEW i \in NodeIds, Owns(i)
      PROVE  /\ nodes'[i] \in NodeRows
             /\ nodes'[i].name = Item(i)
             /\ nodes'[i].source = source
             /\ nodes'[i].identity = doc[Item(i)]
             /\ nodes'[i].enabled = (Stored(i) => nodes[i].enabled)
             /\ nodes'[i].available
  <2> DEFINE on == Stored(i) => nodes[i].enabled
  <2>1. nodes'[i] = [name |-> Item(i), source |-> source,
                     identity |-> doc[Item(i)], enabled |-> on, available |-> TRUE]
    BY <1>1, <1>3
  <2>2. Item(i) \in Names /\ doc[Item(i)] \in Identities
    BY <1>2, <1>3, DocumentTypes
  <2>3. on \in BOOLEAN
    OBVIOUS
  <2> HIDE DEF on
  <2>4. /\ nodes'[i] \in NodeRows
        /\ nodes'[i].name = Item(i)
        /\ nodes'[i].source = source
        /\ nodes'[i].identity = doc[Item(i)]
    BY <2>1, <2>2, <2>3 DEF NodeRows
  <2>5. nodes'[i].enabled = on /\ nodes'[i].available = TRUE
    BY <2>1
  <2> USE DEF on
  <2>6. QED
    BY <2>4, <2>5
<1>4. ASSUME NEW i \in NodeIds, ~Owns(i)
      PROVE  /\ Stored(i) => nodes[i] \in NodeRows /\ nodes'[i] \in NodeRows
                 /\ nodes'[i].name = nodes[i].name
                 /\ nodes'[i].source = nodes[i].source
                 /\ nodes'[i].identity = nodes[i].identity
                 /\ nodes'[i].enabled = nodes[i].enabled
             /\ ~Stored(i) => nodes'[i] = Missing
  <2>1. \/ nodes'[i] = nodes[i]
        \/ i \in Of(source) /\ nodes'[i] = [nodes[i] EXCEPT !.available = FALSE]
    BY <1>1, <1>4
  <2>2. Stored(i) => nodes[i] \in NodeRows
    BY DEF Rows, Stored
  <2>3. i \in Of(source) => Stored(i)
    BY DEF Of
  <2>4. QED
    BY <2>1, <2>2, <2>3 DEF NodeRows, Stored
<1>5. ASSUME NEW i \in NodeIds, Owns(i), Stored(i)
      PROVE  i \in Claimed(source, doc, Item(i)) /\ i \in Of(source)
  BY <1>1, <1>2, <1>5, ClaimedIsMeant
<1>6. ASSUME NEW i \in Of(source), nodes[i].name \in DOMAIN doc
      PROVE  Owns(i) /\ Item(i) = nodes[i].name
  <2>1. Claimed(source, doc, nodes[i].name) = {i}
    BY <1>6, NamedIsClaimed
  <2>2. owner[nodes[i].name] = i
    BY <1>1, <1>6, <2>1
  <2>3. i \in NodeIds /\ Stored(i) /\ Owns(i)
    BY <1>6, <2>2 DEF Of
  <2>4. QED
    BY <1>2, <1>5, <1>6, <2>3, NamedIsClaimed
<1>7. Rows'
  BY <1>1, <1>3, <1>4 DEF Rows
<1>8. UniqueNames'
  <2> SUFFICES ASSUME NEW i \in NodeIds, NEW j \in NodeIds,
                      nodes'[i] # Missing, nodes'[j] # Missing,
                      nodes'[i].name = nodes'[j].name,
                      nodes'[i].source = nodes'[j].source
               PROVE  i = j
    BY DEF UniqueNames, Stored
  <2>1. CASE Owns(i) /\ Owns(j)
    <3>1. Item(i) = Item(j)
      BY <1>3, <2>1
    <3>2. QED
      BY <1>2, <2>1, <3>1
  <2>2. ASSUME NEW x \in NodeIds, NEW y \in NodeIds, Owns(x), ~Owns(y),
               nodes'[y] # Missing, nodes'[x].name = nodes'[y].name,
               nodes'[x].source = nodes'[y].source
        PROVE  FALSE
    <3>1. Stored(y) /\ nodes[y].name = Item(x) /\ nodes[y].source = source
      BY <1>3, <1>4, <2>2
    <3>2. y \in Of(source) /\ nodes[y].name \in DOMAIN doc
      BY <1>2, <2>2, <3>1 DEF Of
    <3>3. QED
      BY <1>6, <2>2, <3>2
  <2>3. CASE ~Owns(i) /\ ~Owns(j)
    BY <1>4, <2>3 DEF UniqueNames
  <2>4. QED
    BY <2>1, <2>2, <2>3
<1>9. ASSUME NEW i \in NodeIds, nodes'[i] # Missing
      PROVE  nodes'[i].source = IF Stored(i) THEN nodes[i].source ELSE source
  BY <1>3, <1>4, <1>5, <1>9 DEF Of
<1>10. ASSUME NEW i \in NodeIds, Stored(i)
       PROVE  /\ nodes'[i] # Missing
              /\ nodes'[i].enabled = nodes[i].enabled
              /\ nodes'[i].name # nodes[i].name =>
                    /\ i \in Of(source)
                    /\ nodes'[i].identity = nodes[i].identity
                    /\ \E content : Orphans(source, doc, content) = {i}
  <2>1. CASE ~Owns(i)
    BY <1>4, <1>10, <2>1, RowAssumption
  <2>2. CASE Owns(i)
    <3>1. nodes'[i] # Missing
      BY <1>3, <2>2, RowAssumption
    <3>2. nodes[i].enabled \in BOOLEAN
      BY <1>10 DEF Rows, Stored, NodeRows
    <3>3. nodes'[i].enabled = (Stored(i) => nodes[i].enabled)
      BY <1>3, <2>2
    <3>4. nodes'[i].enabled = nodes[i].enabled
      BY <1>10, <3>2, <3>3
    <3>5. i \in Claimed(source, doc, Item(i)) /\ i \in Of(source)
      BY <1>5, <1>10, <2>2
    <3>6. nodes'[i].name = Item(i) /\ nodes'[i].identity = doc[Item(i)]
      BY <1>3, <2>2
    <3>7. QED
      BY <1>2, <2>2, <3>1, <3>4, <3>5, <3>6, ClaimedIsMeant
  <2>3. QED
    BY <2>1, <2>2
<1>11. ASSUME NEW i \in Of(source), nodes[i].name \in DOMAIN doc
       PROVE  nodes'[i].name = nodes[i].name /\ nodes'[i].available
  BY <1>3, <1>6, <1>11 DEF Of
<1>12. ASSUME NEW i \in NodeIds, NEW j \in NodeIds, Stored(i),
              nodes'[i].name # nodes[i].name, Arrives(j, source),
              nodes'[j].identity = nodes[i].identity
       PROVE  Rank[nodes'[i].name] <= Rank[nodes'[j].name]
  <2>1. Owns(i) /\ nodes'[i].name = Item(i)
    BY <1>3, <1>4, <1>12
  <2>2. Renames(source, doc, Item(i)) /\ doc[Item(i)] = nodes[i].identity
    BY <1>2, <1>5, <1>12, <2>1 DEF Claimed, Named, Orphans
  <2>3. Owns(j) /\ nodes'[j].name = Item(j) /\ doc[Item(j)] = nodes'[j].identity
    BY <1>3, <1>4, <1>12 DEF Arrives, Of
  <2>4. Item(j) \in New(source, doc)
    BY <1>2, <1>12, <2>3 DEF Arrives, New, Named
  <2>5. QED
    BY <1>12, <2>1, <2>2, <2>3, <2>4 DEF Renames, FirstOfContent
<1>13. QED
  BY <1>7, <1>8, <1>9, <1>10, <1>11, <1>12

-----------------------------------------------------------------------------
(***************************************************************************)
(* Calls.  A call under way has marked its subscription, and no two calls  *)
(* are under way for one; so no answer is ever older than what is stored.  *)
(***************************************************************************)
CallsKnow ==
    /\ syncing \subseteq Subs
    /\ call \in [Calls -> CallRows]
    /\ \A c \in Calls :
          /\ call[c].older = {} /\ call[c].late = FALSE
          /\ call[c].pc # "idle" => call[c].sub \in syncing
          /\ call[c].pc \in {"fetch", "failed", "usage", "import"} => call[c].url \in Urls
    /\ \A c, d \in Calls :
          call[c].pc # "idle" /\ call[d].pc # "idle" /\ call[c].sub = call[d].sub => c = d

LEMMA NoCallTypes == NoCall \in CallRows
  BY DEF NoCall, CallRows

\* A call that ends leaves the others as they are.
LEMMA OthersStay ==
    ASSUME CallsKnow, NEW c \in Calls, End(c)
    PROVE  \A d \in Calls \ {c} : call'[d] = call[d]
  BY DEF End, CallsKnow, CallRows

LEMMA EndKeeps ==
    ASSUME CallsKnow, NEW c \in Calls, call[c].pc # "idle", End(c)
    PROVE  CallsKnow'
<1>1. \A d \in Calls \ {c} : call'[d] = call[d]
  BY OthersStay
<1>2. call'[c] = NoCall /\ call' \in [Calls -> CallRows]
  BY <1>1, NoCallTypes DEF End, CallsKnow
<1>3. syncing' = syncing \ {call[c].sub}
  BY DEF End
<1>4. call'[c].pc = "idle" /\ call'[c].older = {} /\ call'[c].late = FALSE
  BY <1>2 DEF NoCall
<1>5. syncing' \subseteq Subs /\ call' \in [Calls -> CallRows]
  BY <1>2, <1>3 DEF CallsKnow
<1>6. \A d \in Calls \ {c} : call[d].pc # "idle" => call[d].sub \in syncing'
  <2> SUFFICES ASSUME NEW d \in Calls \ {c}, call[d].pc # "idle"
               PROVE  call[d].sub \in syncing'
    OBVIOUS
  <2>1. call[c].pc # "idle" => call[d].sub # call[c].sub
    BY DEF CallsKnow
  <2>2. QED
    BY <1>3, <2>1 DEF CallsKnow
<1>7. QED
  BY <1>1, <1>4, <1>5, <1>6 DEF CallsKnow

\* For the calls an import is an end like every other: no answer becomes late.
LEMMA ImportEnds ==
    ASSUME CallsKnow, NEW c \in Calls, ImportSubscription(c)
    PROVE  End(c)
<1>1. ASSUME NEW d \in Calls \ {c}
      PROVE  [call[d] EXCEPT !.older = @ \ {c}, !.late = @ \/ d \in call[c].older]
             = [call[d] EXCEPT !.older = @ \ {c}]
  <2>1. d \notin call[c].older
    BY DEF CallsKnow
  <2>2. call[d].late = FALSE /\ call[d] \in CallRows
    BY DEF CallsKnow
  <2>3. (call[d].late \/ d \in call[c].older) = FALSE
    BY <2>1, <2>2
  <2>4. [call[d] EXCEPT !.older = @ \ {c}, !.late = @ \/ d \in call[c].older]
        = [call[d] EXCEPT !.older = @ \ {c}, !.late = FALSE]
    BY <2>3
  <2>5. QED
    BY <2>2, <2>4 DEF CallRows
<1>2. QED
  BY <1>1 DEF ImportSubscription, End

LEMMA CallsKnowStep ==
    ASSUME subs \in [Subs -> Urls \cup {Missing}], CallsKnow, [Next]_vars
    PROVE  CallsKnow'
<1>1. ASSUME NEW c \in Calls, NEW s \in Subs, BeginRefresh(c, s)
      PROVE  CallsKnow'
  <2>1. PICK i \in BOOLEAN :
           call' = [call EXCEPT ![c] = [NoCall EXCEPT !.pc = "lookup", !.sub = s,
                                                     !.imports = i]]
    BY <1>1 DEF BeginRefresh
  <2>2. call'[c] = [pc |-> "lookup", sub |-> s, url |-> Missing, imports |-> i,
                    older |-> {}, late |-> FALSE]
    BY <2>1 DEF CallsKnow, NoCall
  <2>3. \A d \in Calls \ {c} : call'[d] = call[d]
    BY <2>1 DEF CallsKnow
  <2>4. call' \in [Calls -> CallRows]
    <3>1. call'[c] \in CallRows
      BY <2>2 DEF CallRows
    <3>2. QED
      BY <2>1, <2>3, <3>1 DEF CallsKnow
  <2>5. syncing' = syncing \cup {s} /\ s \notin syncing
    BY <1>1 DEF BeginRefresh
  <2>6. QED
    BY <2>2, <2>3, <2>4, <2>5 DEF CallsKnow
<1>2. ASSUME NEW c \in Calls, Lookup(c)
      PROVE  CallsKnow'
  <2>1. call[c].sub \in Subs /\ subs[call[c].sub] \in Urls
    BY <1>2 DEF Lookup, CallsKnow
  <2>2. call'[c] = [call[c] EXCEPT !.pc = "fetch", !.url = subs[call[c].sub]]
    BY <1>2 DEF Lookup, CallsKnow
  <2>3. /\ call'[c].pc = "fetch" /\ call'[c].url \in Urls
        /\ call'[c].sub = call[c].sub /\ call'[c].older = call[c].older
        /\ call'[c].late = call[c].late /\ call'[c] \in CallRows
    BY <2>1, <2>2 DEF CallsKnow, CallRows
  <2>4. \A d \in Calls \ {c} : call'[d] = call[d]
    BY <1>2 DEF Lookup, CallsKnow
  <2>5. call' \in [Calls -> CallRows] /\ syncing' = syncing
    BY <1>2, <2>3, <2>4 DEF Lookup, CallsKnow
  <2>6. QED
    BY <1>2, <2>3, <2>4, <2>5 DEF Lookup, CallsKnow
<1>3. ASSUME NEW c \in Calls, Download(c)
      PROVE  CallsKnow'
  <2> DEFINE before == {d \in Calls \ {c} : HasAnswer(d) /\ call[d].sub = call[c].sub}
  <2>1. before = {}
    BY <1>3 DEF Download, HasAnswer, CallsKnow
  <2>2. call'[c] = [call[c] EXCEPT !.pc = "usage", !.older = {}]
    BY <1>3, <2>1 DEF Download, CallsKnow
  <2>3. /\ call'[c].pc = "usage" /\ call'[c].url \in Urls
        /\ call'[c].sub = call[c].sub /\ call'[c].older = {}
        /\ call'[c].late = call[c].late /\ call'[c] \in CallRows
    <3>1. call[c] \in CallRows /\ call[c].pc = "fetch" /\ call[c].url \in Urls
      BY <1>3 DEF Download, CallsKnow
    <3>2. QED
      BY <2>2, <3>1 DEF CallRows
  <2>4. \A d \in Calls \ {c} : call'[d] = call[d]
    BY <1>3 DEF Download, CallsKnow
  <2>5. call' \in [Calls -> CallRows] /\ syncing' = syncing
    BY <1>3, <2>3, <2>4 DEF Download, CallsKnow
  <2>6. QED
    BY <1>3, <2>3, <2>4, <2>5 DEF Download, CallsKnow
<1>4. ASSUME NEW c \in Calls, NEW pc \in {"failed", "import"}, Goto(c, pc),
             call[c].pc \in {"fetch", "usage"}, syncing' = syncing
      PROVE  CallsKnow'
  <2>1. call'[c] = [call[c] EXCEPT !.pc = pc]
    BY <1>4 DEF Goto, CallsKnow
  <2>2. /\ call'[c].pc = pc /\ call'[c].url \in Urls
        /\ call'[c].sub = call[c].sub /\ call'[c].older = call[c].older
        /\ call'[c].late = call[c].late /\ call'[c] \in CallRows
    BY <1>4, <2>1 DEF CallsKnow, CallRows
  <2>3. \A d \in Calls \ {c} : call'[d] = call[d]
    BY <1>4 DEF Goto, CallsKnow
  <2>4. call' \in [Calls -> CallRows]
    BY <1>4, <2>2, <2>3 DEF Goto, CallsKnow
  <2>5. QED
    BY <1>4, <2>2, <2>3, <2>4 DEF CallsKnow
<1>5. ASSUME NEW c \in Calls, CallStep(c)
      PROVE  CallsKnow'
  <2>1. CASE Lookup(c)
    BY <1>2, <2>1
  <2>2. CASE Download(c)
    BY <1>3, <2>2
  <2>3. CASE DownloadFails(c)
    BY <1>4, <2>3 DEF DownloadFails
  <2>4. CASE RecordFailure(c)
    BY <2>4, EndKeeps DEF RecordFailure
  <2>5. CASE RecordUsage(c)
    <3>1. CASE call[c].imports
      BY <1>4, <2>5, <3>1 DEF RecordUsage
    <3>2. CASE ~call[c].imports
      BY <2>5, <3>2, EndKeeps DEF RecordUsage
    <3>3. QED
      BY <3>1, <3>2
  <2>6. CASE ImportSubscription(c)
    BY <2>6, ImportEnds, EndKeeps DEF ImportSubscription
  <2>7. CASE GiveUp(c)
    BY <2>7, EndKeeps DEF GiveUp
  <2>8. QED
    BY <1>5, <2>1, <2>2, <2>3, <2>4, <2>5, <2>6, <2>7 DEF CallStep
<1>6. CASE Restart
  BY <1>6, NoCallTypes DEF Restart, CallsKnow, NoCall
<1>7. CASE EditListeners \/ EditNodes \/ EditSubscriptions
  <2>1. UNCHANGED <<syncing, call>>
    BY <1>7 DEF EditListeners, EditNodes, EditSubscriptions, SaveListener,
       DeleteListener, SaveRouting, SetNodeEnabled, DeleteNode, ImportNodes,
       AddSubscription, EditSubscription, DeleteSubscription
  <2>2. QED
    BY <2>1 DEF CallsKnow
<1>8. CASE UNCHANGED vars
  BY <1>8 DEF vars, CallsKnow
<1>9. QED
  BY <1>1, <1>5, <1>6, <1>7, <1>8 DEF Next

-----------------------------------------------------------------------------
(***************************************************************************)
(* The rows.  Sound is inductive: types, what calls know, and that nothing *)
(* refers to what is gone.                                                 *)
(***************************************************************************)
NodeModes ==
    \A p \in Ports : listeners[p] # Missing /\ listeners[p].mode = "node" =>
       listeners[p].node \in NodeIds

DataTypes ==
    /\ Rows
    /\ UniqueNames
    /\ subs \in [Subs -> Urls \cup {Missing}]
    /\ usage \in [Subs -> UsageRows \cup {Missing}]
    /\ listeners \in [Ports -> ListenerRows \cup {Missing}]
    /\ NodeModes
    /\ routing \in BOOLEAN
    /\ held \in [Subs -> SUBSET (Names \X Identities)]

Sound == DataTypes /\ CallsKnow /\ NothingDangles

\* NothingDangles, listener by listener, node by node, subscription by subscription.
ListenersHold ==
    \A p \in Ports : listeners[p] # Missing =>
       IF listeners[p].mode = "node" THEN Stored(listeners[p].node)
       ELSE listeners[p].enabled => routing

NodesHold ==
    \A i \in NodeIds : Stored(i) /\ nodes[i].source # Manual =>
       subs[nodes[i].source] # Missing

UsageHolds ==
    \A s \in Subs : usage[s] # Missing =>
       usage[s].of = subs[s] /\ usage[s].values \in {subs[s], Missing}

LEMMA DanglesParts ==
    /\ NothingDangles <=> ListenersHold /\ NodesHold /\ UsageHolds
    /\ NothingDangles' <=> ListenersHold' /\ NodesHold' /\ UsageHolds'
  BY DEF NothingDangles, ListenersHold, NodesHold, UsageHolds

LEMMA SoundInit == Init => Sound
<1> SUFFICES ASSUME Init PROVE Sound
  OBVIOUS
<1>1. DataTypes
  BY DEF Init, DataTypes, Rows, UniqueNames, NodeModes, Stored
<1>2. CallsKnow
  BY NoCallTypes DEF Init, CallsKnow, NoCall
<1>3. NothingDangles
  BY DEF Init, NothingDangles, Stored
<1>4. QED
  BY <1>1, <1>2, <1>3 DEF Sound

\* Listeners and the switch: only their own part is touched.
LEMMA ListenerStep ==
    ASSUME Sound, EditListeners
    PROVE  DataTypes' /\ NothingDangles'
<1>1. UNCHANGED <<nodes, subs, usage, held>>
  BY DEF EditListeners, SaveListener, DeleteListener, SaveRouting
<1>2. NodesHold' /\ UsageHolds'
  BY <1>1, DanglesParts DEF Sound, NodesHold, UsageHolds, Stored
<1>3. ASSUME NEW from \in Ports \cup {Missing}, NEW port \in Ports,
             NEW row \in ListenerRows, SaveListener(from, port, row)
      PROVE  /\ listeners' \in [Ports -> ListenerRows \cup {Missing}]
             /\ NodeModes' /\ routing' = routing /\ ListenersHold'
  <2>1. /\ listeners' \in [Ports -> ListenerRows \cup {Missing}]
        /\ \A p \in Ports : listeners'[p] \in {row, Missing, listeners[p]}
    BY <1>3 DEF SaveListener, Sound, DataTypes
  <2>2. routing' = routing
    BY <1>3 DEF SaveListener
  <2>3. IF row.mode = "node" THEN Stored(row.node) ELSE row.enabled => routing
    BY <1>3 DEF SaveListener, ListenerRows
  <2>4. ListenersHold
    BY DanglesParts DEF Sound
  <2>5. ListenersHold'
    BY <1>1, <2>1, <2>2, <2>3, <2>4 DEF ListenersHold, Stored
  <2>6. NodeModes'
    BY <1>3, <2>1 DEF SaveListener, ListenerRows, NodeModes, Sound, DataTypes
  <2>7. QED
    BY <2>1, <2>2, <2>5, <2>6
<1>4. ASSUME NEW p \in Ports, DeleteListener(p)
      PROVE  /\ listeners' \in [Ports -> ListenerRows \cup {Missing}]
             /\ NodeModes' /\ routing' = routing /\ ListenersHold'
  <2>1. /\ listeners' \in [Ports -> ListenerRows \cup {Missing}]
        /\ \A q \in Ports : listeners'[q] \in {Missing, listeners[q]}
        /\ routing' = routing
    BY <1>4 DEF DeleteListener, Sound, DataTypes
  <2>2. QED
    BY <1>1, <2>1, DanglesParts DEF Sound, DataTypes, NodeModes, ListenersHold, Stored
<1>5. ASSUME SaveRouting
      PROVE  /\ listeners' = listeners
             /\ routing' \in BOOLEAN /\ ListenersHold'
  <2>1. listeners' = listeners /\ routing' \in BOOLEAN
    BY <1>5 DEF SaveRouting
  <2>2. CASE routing
    <3>1. \A p \in Ports : listeners[p] # Missing /\ listeners[p].mode = "rule" =>
             ~listeners[p].enabled
      BY <1>5, <2>2 DEF SaveRouting, RuleListens
    <3>2. QED
      BY <1>1, <2>1, <3>1, DanglesParts
         DEF Sound, DataTypes, ListenerRows, ListenersHold, Stored
  <2>3. CASE ~routing
    BY <1>1, <1>5, <2>1, <2>3, DanglesParts DEF SaveRouting, Sound, ListenersHold, Stored
  <2>4. QED
    BY <2>1, <2>2, <2>3
<1>6. /\ listeners' \in [Ports -> ListenerRows \cup {Missing}] /\ NodeModes'
      /\ routing' \in BOOLEAN /\ ListenersHold'
  BY <1>3, <1>4, <1>5 DEF EditListeners, Sound, DataTypes, NodeModes
<1>7. DataTypes'
  BY <1>1, <1>6 DEF Sound, DataTypes, Rows, UniqueNames, Stored
<1>8. QED
  BY <1>2, <1>6, <1>7, DanglesParts

\* Bound nodes are not deleted.
LEMMA NodeStep ==
    ASSUME Sound, EditNodes
    PROVE  DataTypes' /\ NothingDangles'
<1>1. UNCHANGED <<subs, usage, listeners, routing>>
  BY DEF EditNodes, SetNodeEnabled, DeleteNode, ImportNodes
<1>2. ListenersHold /\ NodesHold /\ UsageHolds
  BY DanglesParts DEF Sound
<1>3. ASSUME NEW i \in NodeIds, SetNodeEnabled(i)
      PROVE  /\ Rows' /\ UniqueNames' /\ held' = held
             /\ \A j \in NodeIds : Stored(j)' <=> Stored(j)
             /\ \A j \in NodeIds : Stored(j)' => nodes'[j].source = nodes[j].source
  <2>1. nodes[i] \in NodeRows
    BY <1>3 DEF SetNodeEnabled, Stored, Sound, DataTypes, Rows
  <2>2. nodes'[i] = [nodes[i] EXCEPT !.enabled = ~nodes[i].enabled]
    BY <1>3 DEF SetNodeEnabled, Sound, DataTypes, Rows
  <2>3. /\ nodes'[i] \in NodeRows /\ nodes'[i].name = nodes[i].name
        /\ nodes'[i].source = nodes[i].source
    BY <2>1, <2>2 DEF NodeRows
  <2>4. \A j \in NodeIds \ {i} : nodes'[j] = nodes[j]
    BY <1>3 DEF SetNodeEnabled, Sound, DataTypes, Rows
  <2>5. Rows' /\ held' = held
    BY <1>3, <2>3, <2>4 DEF SetNodeEnabled, Sound, DataTypes, Rows
  <2>6. nodes'[i] # Missing /\ nodes[i] # Missing
    BY <2>1, <2>3, RowAssumption
  <2>7. QED
    BY <2>3, <2>4, <2>5, <2>6 DEF Sound, DataTypes, UniqueNames, Stored
<1>4. ASSUME NEW i \in NodeIds, DeleteNode(i)
      PROVE  DataTypes' /\ NothingDangles'
  <2>1. \A j \in NodeIds : nodes'[j] = IF j = i THEN Missing ELSE nodes[j]
    BY <1>4 DEF DeleteNode, Sound, DataTypes, Rows
  <2>2. Rows' /\ UniqueNames'
    BY <1>4, <2>1 DEF DeleteNode, Sound, DataTypes, Rows, UniqueNames, Stored
  <2>3. \A p \in Ports : listeners[p] # Missing => listeners[p].node # i
    BY <1>4 DEF DeleteNode, Bound
  <2>4. NodeModes' = NodeModes /\ NodeModes
    BY <1>1 DEF Sound, DataTypes, NodeModes
  <2>5. ListenersHold'
    BY <1>1, <1>2, <2>1, <2>3, <2>4 DEF NodeModes, ListenersHold, Stored
  <2>6. NodesHold' /\ UsageHolds'
    BY <1>1, <1>2, <2>1 DEF NodesHold, UsageHolds, Stored
  <2>7. held' \in [Subs -> SUBSET (Names \X Identities)]
    BY <1>4 DEF DeleteNode, Forget, Sound, DataTypes
  <2>8. QED
    BY <1>1, <2>2, <2>4, <2>5, <2>6, <2>7, DanglesParts DEF Sound, DataTypes
<1>5. ASSUME ImportNodes
      PROVE  DataTypes' /\ NothingDangles'
  <2>1. PICK doc \in Documents : Import(Manual, doc)
    BY <1>5 DEF ImportNodes
  <2>2. Manual \in Sources
    BY DEF Sources
  <2>3. /\ Rows' /\ UniqueNames' /\ held' = held
        /\ \A i \in NodeIds : nodes'[i] # Missing =>
              nodes'[i].source = IF Stored(i) THEN nodes[i].source ELSE Manual
        /\ \A i \in NodeIds : Stored(i) => nodes'[i] # Missing
    BY <1>5, <2>1, <2>2, ImportEffect DEF ImportNodes, Sound, DataTypes
  <2>4. DataTypes'
    BY <1>1, <2>3 DEF Sound, DataTypes, NodeModes
  <2>5. ListenersHold'
    BY <1>1, <1>2, <2>3 DEF ListenersHold, Stored, Sound, DataTypes, NodeModes
  <2>6. NodesHold' /\ UsageHolds'
    BY <1>1, <1>2, <2>3 DEF NodesHold, UsageHolds, Stored
  <2>7. QED
    BY <2>4, <2>5, <2>6, DanglesParts
<1>6. QED
  <2>1. ASSUME NEW i \in NodeIds, SetNodeEnabled(i)
        PROVE  DataTypes' /\ NothingDangles'
    <3>1. DataTypes'
      BY <1>1, <1>3, <2>1 DEF Sound, DataTypes, NodeModes
    <3>2. ListenersHold' /\ NodesHold' /\ UsageHolds'
      BY <1>1, <1>2, <1>3, <2>1
         DEF ListenersHold, NodesHold, UsageHolds, Stored, Sound, DataTypes, NodeModes
    <3>3. QED
      BY <3>1, <3>2, DanglesParts
  <2>2. QED
    BY <1>4, <1>5, <2>1 DEF EditNodes

\* A subscription takes its nodes and its usage with it.
LEMMA SubscriptionStep ==
    ASSUME Sound, EditSubscriptions
    PROVE  DataTypes' /\ NothingDangles'
<1>1. UNCHANGED <<listeners, routing>>
  BY DEF EditSubscriptions, AddSubscription, EditSubscription, DeleteSubscription
<1>2. ListenersHold /\ NodesHold /\ UsageHolds /\ NodeModes /\ NodeModes'
  BY <1>1, DanglesParts DEF Sound, DataTypes, NodeModes
<1>3. ASSUME NEW s \in Subs, NEW u \in Urls, AddSubscription(s, u)
      PROVE  DataTypes' /\ NothingDangles'
  <2>1. UNCHANGED <<nodes, usage, held>> /\ u # Missing /\ subs[s] = Missing
    BY <1>3, NodeStoreAssumption DEF AddSubscription
  <2>2. /\ subs' \in [Subs -> Urls \cup {Missing}]
        /\ \A t \in Subs : subs'[t] = IF t = s THEN u ELSE subs[t]
    BY <1>3 DEF AddSubscription, Sound, DataTypes
  <2>3. DataTypes'
    BY <1>1, <1>2, <2>1, <2>2 DEF Sound, DataTypes, Rows, UniqueNames, Stored
  <2>4. ListenersHold'
    BY <1>1, <1>2, <2>1 DEF ListenersHold, Stored
  <2>5. NodesHold'
    <3>1. \A i \in NodeIds : Stored(i) => nodes[i].source \in Sources
      BY DEF Sound, DataTypes, Rows, Stored, NodeRows
    <3>2. QED
      BY <1>2, <2>1, <2>2, <3>1 DEF NodesHold, Stored, Sources
  <2>6. UsageHolds'
    <3>1. ASSUME NEW t \in Subs, usage[t] # Missing
          PROVE  usage[t] \in UsageRows /\ subs[t] \in Urls
      BY <1>2, <3>1, NodeStoreAssumption DEF Sound, DataTypes, UsageRows, UsageHolds
    <3>2. usage[s] = Missing
      BY <2>1, <3>1, NodeStoreAssumption
    <3>3. QED
      BY <1>2, <2>1, <2>2, <3>2 DEF UsageHolds
  <2>7. QED
    BY <2>3, <2>4, <2>5, <2>6, DanglesParts
<1>4. ASSUME NEW s \in Subs, NEW u \in Urls, EditSubscription(s, u)
      PROVE  DataTypes' /\ NothingDangles'
  <2>1. UNCHANGED <<nodes, held>> /\ u # Missing
    BY <1>4, NodeStoreAssumption DEF EditSubscription
  <2>2. /\ subs' \in [Subs -> Urls \cup {Missing}]
        /\ \A t \in Subs : subs'[t] = IF t = s THEN u ELSE subs[t]
    BY <1>4 DEF EditSubscription, Sound, DataTypes
  <2>3. /\ usage' \in [Subs -> UsageRows \cup {Missing}]
        /\ \A t \in Subs : usage'[t] =
              IF t = s /\ u # subs[s] THEN Missing ELSE usage[t]
    BY <1>4 DEF EditSubscription, Sound, DataTypes
  <2>4. DataTypes'
    BY <1>1, <1>2, <2>1, <2>2, <2>3 DEF Sound, DataTypes, Rows, UniqueNames, Stored
  <2>5. ListenersHold'
    BY <1>1, <1>2, <2>1 DEF ListenersHold, Stored
  <2>6. NodesHold'
    <3>1. \A i \in NodeIds : Stored(i) => nodes[i].source \in Sources
      BY DEF Sound, DataTypes, Rows, Stored, NodeRows
    <3>2. QED
      BY <1>2, <2>1, <2>2, <3>1 DEF NodesHold, Stored, Sources
  <2>7. UsageHolds'
    BY <1>2, <2>2, <2>3 DEF UsageHolds
  <2>8. QED
    BY <2>4, <2>5, <2>6, <2>7, DanglesParts
<1>5. ASSUME NEW s \in Subs, DeleteSubscription(s)
      PROVE  DataTypes' /\ NothingDangles'
  <2>1. \A i \in NodeIds : nodes'[i] = IF i \in Of(s) THEN Missing ELSE nodes[i]
    BY <1>5 DEF DeleteSubscription
  <2>2. Rows' /\ UniqueNames'
    BY <1>5, <2>1 DEF DeleteSubscription, Sound, DataTypes, Rows, UniqueNames, Stored
  <2>3. /\ subs' \in [Subs -> Urls \cup {Missing}]
        /\ \A t \in Subs : subs'[t] = IF t = s THEN Missing ELSE subs[t]
    BY <1>5 DEF DeleteSubscription, Sound, DataTypes
  <2>4. /\ usage' \in [Subs -> UsageRows \cup {Missing}]
        /\ \A t \in Subs : usage'[t] = IF t = s THEN Missing ELSE usage[t]
    BY <1>5 DEF DeleteSubscription, Sound, DataTypes
  <2>5. held' \in [Subs -> SUBSET (Names \X Identities)]
    BY <1>5 DEF DeleteSubscription, Sound, DataTypes
  <2>6. DataTypes'
    BY <1>1, <1>2, <2>2, <2>3, <2>4, <2>5 DEF Sound, DataTypes
  <2>7. ListenersHold'
    <3>1. \A p \in Ports : listeners[p] # Missing => listeners[p].node \notin Of(s)
      BY <1>5 DEF DeleteSubscription, Bound
    <3>2. QED
      BY <1>1, <1>2, <2>1, <3>1 DEF ListenersHold, NodeModes, Stored
  <2>8. NodesHold'
    <3>1. \A i \in NodeIds : Stored(i) => nodes[i].source \in Sources
      BY DEF Sound, DataTypes, Rows, Stored, NodeRows
    <3>2. QED
      BY <1>2, <2>1, <2>3, <3>1 DEF NodesHold, Stored, Sources, Of
  <2>9. UsageHolds'
    BY <1>2, <2>3, <2>4 DEF UsageHolds
  <2>10. QED
    BY <2>6, <2>7, <2>8, <2>9, DanglesParts
<1>6. QED
  BY <1>3, <1>4, <1>5 DEF EditSubscriptions

\* What was looked up must still be the address: the usage and the nodes that a call
\* stores are of the present one.
LEMMA CallDataStep ==
    ASSUME Sound, NEW c \in Calls, CallStep(c)
    PROVE  DataTypes' /\ NothingDangles'
<1>1. UNCHANGED <<subs, listeners, routing>>
  BY DEF CallStep, Lookup, Download, DownloadFails, RecordFailure, RecordUsage,
     ImportSubscription, GiveUp
<1>2. ListenersHold /\ NodesHold /\ UsageHolds /\ NodeModes /\ NodeModes'
  BY <1>1, DanglesParts DEF Sound, DataTypes, NodeModes
<1>3. CASE Lookup(c) \/ Download(c) \/ DownloadFails(c) \/ GiveUp(c)
  <2>1. UNCHANGED dbVars /\ UNCHANGED held
    BY <1>3 DEF Lookup, Download, DownloadFails, GiveUp
  <2>2. QED
    BY <1>1, <1>2, <2>1 DEF Sound, DataTypes, NothingDangles, Rows, UniqueNames, Stored
<1>4. CASE RecordFailure(c) \/ RecordUsage(c)
  <2>1. UNCHANGED <<nodes, held>>
    BY <1>4 DEF RecordFailure, RecordUsage
  <2>2. PICK current \in BOOLEAN : Record(c, current)
    BY <1>4 DEF RecordFailure, RecordUsage
  <2> DEFINE s == call[c].sub
             url == call[c].url
  <2>3. s \in Subs /\ url \in Urls /\ subs[s] = url
    BY <1>4, <2>2 DEF RecordFailure, RecordUsage, Record, Expected, Sound, CallsKnow
  <2>4. usage'[s].of = url /\ usage'[s].values \in {url, Missing}
        /\ usage'[s] \in UsageRows
    <3> DEFINE values == IF current THEN url
                         ELSE IF usage[s] = Missing THEN Missing
                         ELSE usage[s].values
    <3>1. usage'[s] = [of |-> url, values |-> values]
      BY <2>2, <2>3 DEF Record, Sound, DataTypes
    <3>2. values \in {url, Missing}
      BY <1>2, <2>3 DEF UsageHolds
    <3> HIDE DEF values
    <3>3. QED
      BY <2>3, <3>1, <3>2 DEF UsageRows
  <2>5. /\ usage' \in [Subs -> UsageRows \cup {Missing}]
        /\ \A t \in Subs \ {s} : usage'[t] = usage[t]
    BY <2>2, <2>4 DEF Record, Sound, DataTypes
  <2>6. UsageHolds'
    BY <1>1, <1>2, <2>3, <2>4, <2>5 DEF UsageHolds
  <2>7. ListenersHold' /\ NodesHold'
    BY <1>1, <1>2, <2>1 DEF ListenersHold, NodesHold, Stored
  <2>8. DataTypes'
    BY <1>1, <1>2, <2>1, <2>5 DEF Sound, DataTypes, Rows, UniqueNames, Stored
  <2>9. QED
    BY <2>6, <2>7, <2>8, DanglesParts
<1>5. CASE ImportSubscription(c)
  <2> DEFINE s == call[c].sub
  <2>1. PICK doc \in Documents :
           /\ Import(s, doc)
           /\ held' = [held EXCEPT ![s] = {<<n, doc[n]>> : n \in DOMAIN doc}]
    BY <1>5 DEF ImportSubscription
  <2>2. s \in Subs /\ subs[s] # Missing /\ s \in Sources
    BY <1>5, NodeStoreAssumption DEF ImportSubscription, Unmoved, Sound, CallsKnow, Sources
  <2>3. /\ Rows' /\ UniqueNames'
        /\ \A i \in NodeIds : nodes'[i] # Missing =>
              nodes'[i].source = IF Stored(i) THEN nodes[i].source ELSE s
        /\ \A i \in NodeIds : Stored(i) => nodes'[i] # Missing
    BY <2>1, <2>2, ImportEffect DEF Sound, DataTypes
  <2>4. held' \in [Subs -> SUBSET (Names \X Identities)]
    BY <2>1, <2>2, DocumentTypes DEF Sound, DataTypes
  <2>5. usage' = usage
    BY <1>5 DEF ImportSubscription
  <2>6. DataTypes'
    BY <1>1, <1>2, <2>3, <2>4, <2>5 DEF Sound, DataTypes
  <2>7. ListenersHold'
    BY <1>1, <1>2, <2>3 DEF ListenersHold, NodeModes, Stored
  <2>8. NodesHold' /\ UsageHolds'
    BY <1>1, <1>2, <2>2, <2>3, <2>5 DEF NodesHold, UsageHolds, Stored
  <2>9. QED
    BY <2>6, <2>7, <2>8, DanglesParts
<1>6. QED
  BY <1>3, <1>4, <1>5 DEF CallStep

LEMMA SoundStep == Sound /\ [Next]_vars => Sound'
<1> SUFFICES ASSUME Sound, [Next]_vars PROVE Sound'
  OBVIOUS
<1>1. CallsKnow'
  BY CallsKnowStep DEF Sound, DataTypes
<1>2. ASSUME UNCHANGED dbVars, UNCHANGED held
      PROVE  DataTypes' /\ NothingDangles'
  BY <1>2 DEF Sound, DataTypes, NothingDangles, Rows, UniqueNames, NodeModes, Stored
<1>3. CASE EditListeners \/ EditNodes \/ EditSubscriptions
  BY <1>1, <1>3, ListenerStep, NodeStep, SubscriptionStep DEF Sound
<1>4. ASSUME NEW c \in Calls, CallStep(c)
      PROVE  Sound'
  BY <1>1, <1>4, CallDataStep DEF Sound
<1>5. ASSUME NEW c \in Calls, NEW s \in Subs, BeginRefresh(c, s)
      PROVE  Sound'
  BY <1>1, <1>2, <1>5 DEF BeginRefresh, Sound
<1>6. CASE Restart
  BY <1>1, <1>2, <1>6 DEF Restart, Sound
<1>7. CASE UNCHANGED vars
  BY <1>1, <1>2, <1>7 DEF vars, Sound
<1>8. QED
  BY <1>3, <1>4, <1>5, <1>6, <1>7 DEF Next

LEMMA AlwaysSound == Spec => []Sound
  BY SoundInit, SoundStep, PTL DEF Spec

\* The rows stay in their types and no name comes twice in a source, whatever is
\* imported and however many rows and calls there are.
THEOREM RowsAreTyped == Spec => []TypeOK
<1>1. Sound => TypeOK
  BY DEF Sound, DataTypes, CallsKnow, Rows, UniqueNames, TypeOK
<1>2. QED
  BY <1>1, AlwaysSound, PTL

\* Nothing refers to what is gone, in whatever order nodes, subscriptions and
\* listeners are edited while downloads are under way.
THEOREM NothingEverDangles == Spec => []NothingDangles
<1>1. Sound => NothingDangles
  BY DEF Sound
<1>2. QED
  BY <1>1, AlwaysSound, PTL

\* A synchronisation stores only an answer of the present address that no later
\* answer has overtaken.
THEOREM SyncIsAlwaysCurrent == Spec => SyncIsCurrent
<1>1. ASSUME Sound, [Next]_vars, NEW c \in Calls,
             call[c].pc = "import", call'[c].pc = "idle", nodes' # nodes
      PROVE  subs[call[c].sub] = call[c].url /\ ~call[c].late
  <2>1. ~call[c].late
    <3>1. CallsKnow
      BY <1>1 DEF Sound
    <3>2. QED
      BY <3>1, Zenon DEF CallsKnow
  <2>2. ~UNCHANGED <<nodes, call>>
    BY <1>1
  <2>3. PICK d \in Calls : ImportSubscription(d)
    BY <1>1, <2>2 DEF Next, vars, EditListeners, SaveListener, DeleteListener,
       SaveRouting, EditNodes, SetNodeEnabled, DeleteNode, ImportNodes,
       EditSubscriptions, AddSubscription, EditSubscription, DeleteSubscription,
       CallStep, Lookup, Download, DownloadFails, RecordFailure, RecordUsage,
       GiveUp, BeginRefresh, Restart
  <2>4. c = d
    <3>1. ASSUME c # d PROVE call'[c].pc = call[c].pc
      BY <1>1, <2>3, <3>1, ImportEnds, OthersStay DEF Sound
    <3>2. QED
      BY <1>1, <3>1
  <2>5. QED
    BY <2>1, <2>3, <2>4 DEF ImportSubscription, Unmoved
<1>2. Sound /\ [Next]_vars =>
         [\A c \in Calls :
            call[c].pc = "import" /\ call'[c].pc = "idle" /\ nodes' # nodes =>
               subs[call[c].sub] = call[c].url /\ ~call[c].late]_vars
  BY <1>1
<1>3. QED
  BY <1>2, AlwaysSound, PTL DEF Spec, SyncIsCurrent

-----------------------------------------------------------------------------
\* An import keeps what a node means.
LEMMA ImportKeeps ==
    ASSUME Rows, UniqueNames, NEW source \in Sources, NEW doc \in Documents,
           Import(source, doc), NEW bound \in NodeIds, Stored(bound)
    PROVE  Kept(bound, nodes[bound], nodes'[bound])
<1> DEFINE was == nodes[bound]
           is == nodes'[bound]
<1>1. /\ is # Missing
      /\ is.source = was.source
      /\ is.enabled = was.enabled
      /\ is.name # was.name =>
            /\ bound \in Of(source)
            /\ is.identity = was.identity
            /\ \E content : Orphans(source, doc, content) = {bound}
  BY ImportEffect
<1>2. ASSUME is.name # was.name, NEW i \in Of(was.source) \ {bound},
             nodes[i].identity = was.identity
      PROVE  nodes'[i] # Missing /\ nodes'[i].name = nodes[i].name /\ nodes'[i].available
  <2>1. was.source = source
    BY <1>1, <1>2 DEF Of
  <2>2. PICK content : Orphans(source, doc, content) = {bound}
    BY <1>1, <1>2
  <2>3. was.identity = content
    BY <2>2 DEF Orphans
  <2>4. nodes[i].name \in DOMAIN doc
    BY <1>2, <2>1, <2>2, <2>3 DEF Orphans
  <2>5. i \in Of(source) /\ i \in NodeIds /\ Stored(i)
    BY <1>2, <2>1 DEF Of
  <2>6. QED
    BY <2>4, <2>5, ImportEffect
<1>3. ASSUME is.name # was.name, NEW i \in NodeIds, Arrives(i, was.source),
             nodes'[i].identity = was.identity
      PROVE  Rank[is.name] <= Rank[nodes'[i].name]
  <2>1. was.source = source
    BY <1>1, <1>3 DEF Of
  <2>2. QED
    BY <1>3, <2>1, ImportEffect
<1>4. QED
  BY <1>1, <1>2, <1>3 DEF Kept

LEMMA BindingStep ==
    ASSUME Sound, [Next]_vars, NEW p \in Ports,
           listeners[p] # Missing, listeners[p].mode = "node",
           listeners'[p] = listeners[p]
    PROVE  Kept(listeners[p].node, nodes[listeners[p].node], nodes'[listeners[p].node])
<1> DEFINE bound == listeners[p].node
<1>1. bound \in NodeIds /\ Stored(bound) /\ nodes[bound] \in NodeRows
  BY DanglesParts DEF Sound, DataTypes, NodeModes, ListenersHold, Rows, Stored
<1>2. Bound(bound)
  BY <1>1 DEF Bound
<1> SUFFICES Kept(bound, nodes[bound], nodes'[bound])
  OBVIOUS
<1> HIDE DEF bound
<1>3. ASSUME nodes'[bound] = nodes[bound]
      PROVE  Kept(bound, nodes[bound], nodes'[bound])
  BY <1>1, <1>3 DEF Kept, Stored
<1>4. CASE EditNodes
  <2>1. ASSUME NEW i \in NodeIds, SetNodeEnabled(i)
        PROVE  Kept(bound, nodes[bound], nodes'[bound])
    <3>1. CASE i # bound
      BY <1>1, <1>3, <2>1, <3>1 DEF SetNodeEnabled, Sound, DataTypes, Rows
    <3>2. CASE i = bound
      <4>1. nodes'[bound] = [nodes[bound] EXCEPT !.enabled = ~nodes[bound].enabled]
        BY <1>1, <2>1, <3>2 DEF SetNodeEnabled, Sound, DataTypes, Rows
      <4>2. /\ nodes'[bound] \in NodeRows
            /\ nodes'[bound].name = nodes[bound].name
            /\ nodes'[bound].source = nodes[bound].source
        BY <1>1, <4>1 DEF NodeRows
      <4>3. nodes'[bound] # Missing
        BY <4>2, RowAssumption
      <4>4. QED
        BY <4>1, <4>2, <4>3 DEF Kept
    <3>3. QED
      BY <3>1, <3>2
  <2>2. ASSUME NEW i \in NodeIds, DeleteNode(i)
        PROVE  nodes'[bound] = nodes[bound]
    BY <1>1, <1>2, <2>2 DEF DeleteNode, Sound, DataTypes, Rows
  <2>3. CASE ImportNodes
    <3>1. PICK doc \in Documents : Import(Manual, doc)
      BY <2>3 DEF ImportNodes
    <3>2. QED
      BY <1>1, <3>1, ImportKeeps DEF Sound, DataTypes, Sources
  <2>4. QED
    BY <1>3, <1>4, <2>1, <2>2, <2>3 DEF EditNodes
<1>5. CASE EditSubscriptions
  <2>1. ASSUME NEW s \in Subs, DeleteSubscription(s)
        PROVE  nodes'[bound] = nodes[bound]
    BY <1>1, <1>2, <2>1 DEF DeleteSubscription
  <2>2. ASSUME NEW s \in Subs, NEW u \in Urls,
               AddSubscription(s, u) \/ EditSubscription(s, u)
        PROVE  nodes' = nodes
    BY <2>2 DEF AddSubscription, EditSubscription
  <2>3. QED
    BY <1>3, <1>5, <2>1, <2>2 DEF EditSubscriptions
<1>6. ASSUME NEW c \in Calls, ImportSubscription(c)
      PROVE  Kept(bound, nodes[bound], nodes'[bound])
  <2>1. PICK doc \in Documents : Import(call[c].sub, doc)
    BY <1>6 DEF ImportSubscription
  <2>2. call[c].sub \in Sources
    BY <1>6 DEF ImportSubscription, Sound, CallsKnow, Sources
  <2>3. QED
    BY <1>1, <2>1, <2>2, ImportKeeps DEF Sound, DataTypes
<1>7. CASE \/ EditListeners \/ Restart \/ UNCHANGED vars
           \/ (\E c \in Calls : \/ (\E s \in Subs : BeginRefresh(c, s))
                              \/ (CallStep(c) /\ ~ImportSubscription(c)))
  <2>1. nodes' = nodes
    BY <1>7 DEF vars, EditListeners, SaveListener, DeleteListener, SaveRouting,
       CallStep, Lookup, Download, DownloadFails, RecordFailure, RecordUsage,
       GiveUp, BeginRefresh, Restart
  <2>2. QED
    BY <1>3, <2>1
<1>8. QED
  BY <1>4, <1>5, <1>6, <1>7 DEF Next

\* No import, deletion or switch changes what a listener that is not edited is bound
\* to, except a rename that can only mean its node,
\* and then the first name of its content.
THEOREM BindingsAlwaysKeepTheirMeaning == Spec => BindingKeepsMeaning
<1>1. Sound /\ [Next]_vars =>
        [\A p \in Ports :
           listeners[p] # Missing /\ listeners[p].mode = "node"
           /\ listeners'[p] = listeners[p] =>
              LET node == listeners[p].node
              IN Kept(node, nodes[node], nodes'[node])]_vars
  BY BindingStep
<1>2. QED
  BY <1>1, AlwaysSound, PTL DEF Spec, BindingKeepsMeaning
-----------------------------------------------------------------------------
(***************************************************************************)
(* What a subscription shows: its available nodes list its last document.  *)
(***************************************************************************)
There(s) == {i \in Of(s) : nodes[i].available}
Listed(s) == {<<nodes[i].name, nodes[i].identity>> : i \in There(s)}

Listing == \A s \in Subs : Listed(s) = held[s]

\* A subscription whose nodes keep what it shows of them.
LEMMA ListedStays ==
    ASSUME NEW s,
           \A i \in NodeIds : i \in There(s)' <=> i \in There(s),
           \A i \in There(s) : /\ nodes'[i].name = nodes[i].name
                               /\ nodes'[i].identity = nodes[i].identity
    PROVE  Listed(s)' = Listed(s)
<1>1. There(s)' = There(s)
  BY DEF There, Of
<1>2. QED
  BY <1>1 DEF Listed

\* After an import the source lists the document, and the other sources what they did.
LEMMA ImportLists ==
    ASSUME NEW source \in Sources, NEW doc \in Documents, Import(source, doc), Rows
    PROVE  /\ source # Manual => Listed(source)' = {<<n, doc[n]>> : n \in DOMAIN doc}
           /\ \A s \in Subs \ {source} : Listed(s)' = Listed(s)
<1>1. PICK owner \in [DOMAIN doc -> NodeIds] :
             /\ \A n \in DOMAIN doc :
                   \/ Claimed(source, doc, n) = {} /\ ~Stored(owner[n])
                   \/ owner[n] \in Claimed(source, doc, n)
             /\ \A m, n \in DOMAIN doc : owner[m] = owner[n] => m = n
             /\ nodes' = [i \in NodeIds |->
                   IF \E n \in DOMAIN doc : owner[n] = i
                   THEN [name |-> CHOOSE n \in DOMAIN doc : owner[n] = i,
                         source |-> source,
                         identity |-> doc[CHOOSE n \in DOMAIN doc : owner[n] = i],
                         enabled |-> Stored(i) => nodes[i].enabled,
                         available |-> TRUE]
                   ELSE IF i \in Of(source) /\ source # Manual
                        THEN [nodes[i] EXCEPT !.available = FALSE]
                        ELSE nodes[i]]
  BY ImportShape
<1> DEFINE Owns(i) == \E n \in DOMAIN doc : owner[n] = i
<1>2. ASSUME NEW n \in DOMAIN doc
      PROVE  LET i == owner[n]
             IN  /\ i \in NodeIds /\ Owns(i) /\ nodes'[i] # Missing
                 /\ nodes'[i].name = n /\ nodes'[i].identity = doc[n]
                 /\ nodes'[i].source = source /\ nodes'[i].available
                 /\ Stored(i) => nodes[i].source = source
  <2> DEFINE i == owner[n]
             on == Stored(i) => nodes[i].enabled
  <2>1. (CHOOSE m \in DOMAIN doc : owner[m] = i) = n
    BY <1>1, <1>2
  <2>2. i \in NodeIds /\ Owns(i)
    BY <1>2
  <2>3. nodes'[i] = [name |-> n, source |-> source, identity |-> doc[n],
                     enabled |-> on, available |-> TRUE]
    BY <1>1, <2>1, <2>2
  <2>4. on \in BOOLEAN
    OBVIOUS
  <2>5. n \in Names /\ doc[n] \in Identities
    BY <1>2, DocumentTypes
  <2>6. Stored(i) => nodes[i].source = source
    BY <1>1, <1>2 DEF Claimed, Orphans, Named, Of
  <2> HIDE DEF on
  <2>7. nodes'[i] \in NodeRows
    BY <2>3, <2>4, <2>5 DEF NodeRows
  <2>8. nodes'[i] # Missing
    BY <2>7, RowAssumption
  <2>9. /\ nodes'[i].name = n /\ nodes'[i].identity = doc[n]
        /\ nodes'[i].source = source /\ nodes'[i].available
    BY <2>3
  <2>10. QED
    BY <2>2, <2>6, <2>8, <2>9
<1>3. ASSUME NEW i \in NodeIds, ~Owns(i)
      PROVE  \/ nodes'[i] = nodes[i] /\ ~(i \in Of(source) /\ source # Manual)
             \/ /\ i \in Of(source) /\ source # Manual
                /\ nodes'[i] \in NodeRows
                /\ nodes'[i].source = source /\ nodes'[i].available = FALSE
  <2>1. CASE i \in Of(source) /\ source # Manual
    <3>1. nodes'[i] = [nodes[i] EXCEPT !.available = FALSE]
      BY <1>1, <1>3, <2>1
    <3>2. nodes[i] \in NodeRows /\ nodes[i].source = source
      BY <2>1 DEF Of, Stored, Rows
    <3>3. QED
      BY <2>1, <3>1, <3>2 DEF NodeRows
  <2>2. CASE ~(i \in Of(source) /\ source # Manual)
    BY <1>1, <1>3, <2>2
  <2>3. QED
    BY <2>1, <2>2
<1> HIDE DEF Owns
<1>4. ASSUME source # Manual
      PROVE  Listed(source)' = {<<n, doc[n]>> : n \in DOMAIN doc}
  <2>1. \A i \in NodeIds : i \in There(source)' <=> \E n \in DOMAIN doc : owner[n] = i
    <3>1. ASSUME NEW i \in NodeIds, i \in There(source)', ~Owns(i) PROVE FALSE
      <4>1. nodes'[i] # Missing /\ nodes'[i].source = source /\ nodes'[i].available
        BY <3>1 DEF There, Of, Stored
      <4>2. nodes'[i] = nodes[i] /\ i \notin Of(source)
        BY <1>3, <1>4, <3>1, <4>1
      <4>3. QED
        BY <4>1, <4>2 DEF Of, Stored
    <3>2. ASSUME NEW n \in DOMAIN doc PROVE owner[n] \in There(source)'
      BY <1>2 DEF There, Of, Stored
    <3>3. QED
      BY <3>1, <3>2 DEF Owns
  <2>2. There(source)' \subseteq NodeIds
    BY DEF There, Of
  <2>3. \A n \in DOMAIN doc : owner[n] \in There(source)'
    BY <2>1
  <2>4. \A i \in There(source)' : \E n \in DOMAIN doc : owner[n] = i
    BY <2>1, <2>2
  <2>5. ASSUME NEW n \in DOMAIN doc
        PROVE  <<nodes'[owner[n]].name, nodes'[owner[n]].identity>> = <<n, doc[n]>>
    BY <1>2
  <2>6. Listed(source)' = {<<nodes'[i].name, nodes'[i].identity>> : i \in There(source)'}
    BY DEF Listed
  <2>7. QED
    BY <2>3, <2>4, <2>5, <2>6
<1>5. ASSUME NEW s \in Subs \ {source}
      PROVE  Listed(s)' = Listed(s)
  <2>1. ASSUME NEW i \in NodeIds, Owns(i)
        PROVE  i \notin There(s) /\ i \notin There(s)'
    <3>1. PICK n \in DOMAIN doc : owner[n] = i
      BY <2>1 DEF Owns
    <3>2. nodes'[i].source = source /\ (Stored(i) => nodes[i].source = source)
      BY <1>2, <3>1
    <3>3. QED
      BY <1>5, <3>2 DEF There, Of
  <2>2. ASSUME NEW i \in NodeIds, ~Owns(i)
        PROVE  /\ i \in There(s)' <=> i \in There(s)
               /\ i \in There(s) => nodes'[i] = nodes[i]
    <3>1. CASE nodes'[i] = nodes[i]
      BY <3>1 DEF There, Of, Stored
    <3>2. CASE i \in Of(source) /\ nodes'[i].source = source
      BY <1>5, <3>2 DEF There, Of
    <3>3. QED
      BY <1>3, <2>2, <3>1, <3>2
  <2>3. There(s) \subseteq NodeIds
    BY DEF There, Of
  <2>4. QED
    BY <2>1, <2>2, <2>3, ListedStays
<1>6. QED
  BY <1>4, <1>5

\* One that is deleted is the only one that showed its name and content.
LEMMA DeleteLists ==
    ASSUME Rows, UniqueNames, NEW i \in NodeIds, DeleteNode(i), Listing,
           held \in [Subs -> SUBSET (Names \X Identities)], NEW s \in Subs
    PROVE  Listed(s)' = held'[s]
<1>1. \A j \in NodeIds : nodes'[j] = IF j = i THEN Missing ELSE nodes[j]
  BY DEF DeleteNode, Rows
<1>2. There(s)' = There(s) \ {i}
  BY <1>1 DEF There, Of, Stored
<1>3. Stored(i) /\ There(s) \subseteq NodeIds
  BY DEF DeleteNode, There, Of
<1>4. CASE nodes[i].source = s /\ nodes[i].available
  <2> DEFINE pair(j) == <<nodes[j].name, nodes[j].identity>>
  <2>1. held'[s] = held[s] \ {pair(i)}
    BY <1>4 DEF DeleteNode, Forget
  <2>2. \A j \in There(s) \ {i} : pair(j) # pair(i)
    <3>1. ASSUME NEW j \in There(s) \ {i}, pair(j) = pair(i) PROVE FALSE
      <4>1. nodes[j].name = nodes[i].name
        BY <3>1
      <4>2. j \in NodeIds /\ Stored(j) /\ nodes[j].source = s
        BY <3>1 DEF There, Of
      <4>3. QED
        BY <1>3, <1>4, <3>1, <4>1, <4>2 DEF UniqueNames
    <3>2. QED
      BY <3>1
  <2>3. Listed(s) = {pair(j) : j \in There(s)}
    BY DEF Listed
  <2>4. Listed(s)' = {pair(j) : j \in There(s) \ {i}}
    <3>1. \A j \in There(s) \ {i} : nodes'[j] = nodes[j]
      BY <1>1, <1>3
    <3>2. QED
      BY <1>2, <3>1 DEF Listed
  <2> HIDE DEF pair
  <2>5. Listed(s)' = Listed(s) \ {pair(i)}
    BY <2>2, <2>3, <2>4
  <2>6. QED
    BY <2>1, <2>5 DEF Listing
<1>5. CASE ~(nodes[i].source = s /\ nodes[i].available)
  <2>1. held'[s] = held[s]
    BY <1>5 DEF DeleteNode, Forget
  <2>2. i \notin There(s)
    BY <1>5 DEF There, Of
  <2>3. \A j \in There(s) : nodes'[j] = nodes[j]
    BY <1>1, <1>3, <2>2
  <2>4. Listed(s)' = Listed(s)
    BY <1>2, <2>2, <2>3, ListedStays
  <2>5. QED
    BY <2>1, <2>4 DEF Listing
<1>6. QED
  BY <1>4, <1>5

LEMMA ListingStep ==
    ASSUME Sound, Listing, [Next]_vars
    PROVE  Listing'
<1>1. Rows /\ UniqueNames /\ held \in [Subs -> SUBSET (Names \X Identities)]
  BY DEF Sound, DataTypes
<1>2. ASSUME UNCHANGED <<nodes, held>>
      PROVE  Listing'
  BY <1>2 DEF Listing, Listed, There, Of, Stored
<1>3. ASSUME NEW i \in NodeIds, SetNodeEnabled(i)
      PROVE  Listing'
  <2>1. nodes' = [nodes EXCEPT ![i].enabled = ~@] /\ held' = held /\ Stored(i)
    BY <1>3 DEF SetNodeEnabled
  <2>2. nodes[i] \in NodeRows
    BY <1>1, <2>1 DEF Rows, Stored
  <2>3. nodes'[i] = [nodes[i] EXCEPT !.enabled = ~nodes[i].enabled]
    BY <1>1, <2>1 DEF Rows
  <2>4. /\ nodes'[i] \in NodeRows /\ nodes'[i].source = nodes[i].source
        /\ nodes'[i].name = nodes[i].name /\ nodes'[i].identity = nodes[i].identity
        /\ nodes'[i].available = nodes[i].available
    BY <2>2, <2>3 DEF NodeRows
  <2>5. \A j \in NodeIds \ {i} : nodes'[j] = nodes[j]
    BY <1>1, <2>1 DEF Rows
  <2>6. nodes'[i] # Missing /\ nodes[i] # Missing
    BY <2>2, <2>4, RowAssumption
  <2>7. ASSUME NEW s \in Subs PROVE Listed(s)' = Listed(s)
    <3>1. \A j \in NodeIds : j \in There(s)' <=> j \in There(s)
      BY <2>4, <2>5, <2>6 DEF There, Of, Stored
    <3>2. \A j \in There(s) : /\ nodes'[j].name = nodes[j].name
                              /\ nodes'[j].identity = nodes[j].identity
      BY <2>4, <2>5 DEF There, Of
    <3>3. QED
      BY <3>1, <3>2, ListedStays
  <2>8. QED
    BY <2>1, <2>7 DEF Listing
<1>4. ASSUME NEW i \in NodeIds, DeleteNode(i)
      PROVE  Listing'
  BY <1>1, <1>4, DeleteLists DEF Listing
<1>5. ASSUME ImportNodes
      PROVE  Listing'
  <2>1. PICK doc \in Documents : Import(Manual, doc)
    BY <1>5 DEF ImportNodes
  <2>2. held' = held /\ Manual \in Sources /\ Manual \notin Subs
    BY <1>5, NodeStoreAssumption DEF ImportNodes, Sources
  <2>3. \A s \in Subs : Listed(s)' = Listed(s)
    BY <1>1, <2>1, <2>2, ImportLists
  <2>4. QED
    BY <2>2, <2>3 DEF Listing
<1>6. ASSUME NEW s \in Subs, DeleteSubscription(s)
      PROVE  Listing'
  <2>1. /\ \A i \in NodeIds : nodes'[i] = IF i \in Of(s) THEN Missing ELSE nodes[i]
        /\ \A t \in Subs : held'[t] = IF t = s THEN {} ELSE held[t]
    BY <1>1, <1>6 DEF DeleteSubscription
  <2>2. There(s)' = {}
    BY <2>1 DEF There, Of, Stored
  <2>3. Listed(s)' = {}
    BY <2>2 DEF Listed
  <2>4. ASSUME NEW t \in Subs \ {s} PROVE Listed(t)' = Listed(t)
    <3>1. \A i \in NodeIds : i \in There(t)' <=> i \in There(t)
      BY <2>1, <2>4 DEF There, Of, Stored
    <3>2. \A i \in There(t) : nodes'[i] = nodes[i]
      BY <2>1, <2>4 DEF There, Of
    <3>3. QED
      BY <3>1, <3>2, ListedStays
  <2>5. QED
    BY <2>1, <2>3, <2>4 DEF Listing
<1>7. ASSUME NEW c \in Calls, ImportSubscription(c)
      PROVE  Listing'
  <2>0. PICK s \in Subs : s = call[c].sub
    BY <1>7, NodeStoreAssumption
       DEF ImportSubscription, Unmoved, Sound, CallsKnow, CallRows
  <2>1. PICK doc \in Documents :
           /\ Import(s, doc)
           /\ held' = [held EXCEPT ![s] = {<<n, doc[n]>> : n \in DOMAIN doc}]
    BY <1>7, <2>0 DEF ImportSubscription
  <2>2. s \in Subs /\ s \in Sources /\ s # Manual
    BY NodeStoreAssumption DEF Sources
  <2>3. /\ Listed(s)' = {<<n, doc[n]>> : n \in DOMAIN doc}
        /\ \A t \in Subs \ {s} : Listed(t)' = Listed(t)
    BY <1>1, <2>1, <2>2, ImportLists
  <2>4. /\ held'[s] = {<<n, doc[n]>> : n \in DOMAIN doc}
        /\ \A t \in Subs \ {s} : held'[t] = held[t]
    BY <1>1, <2>1, <2>2
  <2>5. QED
    BY <2>3, <2>4 DEF Listing
<1>8. CASE \/ EditListeners \/ Restart \/ UNCHANGED vars
           \/ (\E s \in Subs, u \in Urls : AddSubscription(s, u) \/ EditSubscription(s, u))
           \/ (\E c \in Calls : \/ (\E s \in Subs : BeginRefresh(c, s))
                              \/ (CallStep(c) /\ ~ImportSubscription(c)))
  <2>1. UNCHANGED <<nodes, held>>
    BY <1>8 DEF vars, EditListeners, SaveListener, DeleteListener, SaveRouting,
       AddSubscription, EditSubscription, CallStep, Lookup, Download, DownloadFails,
       RecordFailure, RecordUsage, GiveUp, BeginRefresh, Restart
  <2>2. QED
    BY <1>2, <2>1
<1>9. QED
  BY <1>3, <1>4, <1>5, <1>6, <1>7, <1>8 DEF Next, EditNodes, EditSubscriptions

\* No two of the available nodes of a source show the same, so there are as many.
LEMMA EachListedOnce ==
    ASSUME UniqueNames, NEW s
    PROVE  Cardinality(There(s)) = Cardinality(Listed(s))
<1> DEFINE pair(i) == <<nodes[i].name, nodes[i].identity>>
           f == [i \in There(s) |-> pair(i)]
<1>1. f \in Bijection(There(s), Listed(s))
  <2>1. Listed(s) = {pair(i) : i \in There(s)}
    BY DEF Listed
  <2>2. ASSUME NEW i \in There(s), NEW j \in There(s), f[i] = f[j]
        PROVE  i = j
    <3>1. pair(i) = pair(j)
      BY <2>2
    <3>2. nodes[i].name = nodes[j].name
      BY <3>1
    <3>3. /\ i \in NodeIds /\ Stored(i) /\ nodes[i].source = s
          /\ j \in NodeIds /\ Stored(j) /\ nodes[j].source = s
      BY <2>2 DEF There, Of
    <3>4. QED
      BY <3>2, <3>3 DEF UniqueNames
  <2>3. f \in [There(s) -> Listed(s)] /\ \A x \in Listed(s) : \E i \in There(s) : f[i] = x
    BY <2>1
  <2>4. QED
    BY <2>2, <2>3 DEF Bijection, Injection, Surjection, IsInjective
<1>2. IsFiniteSet(There(s))
  <2>1. There(s) \in SUBSET NodeIds
    BY DEF There, Of
  <2>2. QED
    BY <2>1, NodeStoreAssumption, FS_Subset
<1>3. ExistsBijection(There(s), Listed(s))
  BY <1>1 DEF ExistsBijection
<1>4. QED
  BY <1>2, <1>3, FS_Bijection

\* The available nodes of a subscription are what its last import listed, each name
\* with its content and each once, less what was deleted since: importNodesTx loses
\* no item to a rename and leaves nothing behind.
THEOREM SubscriptionsShowTheirDocument == Spec => []SourceIsDocument
<1>1. Init => Listing
  <2> SUFFICES ASSUME Init, NEW s \in Subs PROVE Listed(s) = held[s]
    BY DEF Listing
  <2>1. There(s) = {} /\ held[s] = {}
    BY DEF Init, There, Of, Stored
  <2>2. QED
    BY <2>1 DEF Listed
<1>2. Sound /\ Listing /\ [Next]_vars => Listing'
  BY ListingStep
<1>3. Sound /\ Listing => SourceIsDocument
  <2> SUFFICES ASSUME Sound, Listing, NEW s \in Subs
               PROVE  /\ Listed(s) = held[s]
                      /\ Cardinality(There(s)) = Cardinality(held[s])
    BY DEF SourceIsDocument, Listed, There
  <2>1. Listed(s) = held[s] /\ UniqueNames
    BY DEF Listing, Sound, DataTypes
  <2>2. QED
    BY <2>1, EachListedOnce
<1>4. QED
  BY <1>1, <1>2, <1>3, AlwaysSound, PTL DEF Spec
=============================================================================
