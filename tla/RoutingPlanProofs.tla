-------------------------- MODULE RoutingPlanProofs --------------------------
(***************************************************************************)
(* What is proved of RoutingPlan: the rows keep their types, a scheme that *)
(* compiles goes on compiling but for the definitions that came back       *)
(* unseen, nothing leaks from a plan, and names are resolved where their   *)
(* traffic goes.                                                           *)
(***************************************************************************)
EXTENDS RoutingPlan, FiniteSetTheorems, WellFoundedInduction, TLAPS

\* Groups of a plan are categories.
LEMMA DefinedAreCategories ==
    ASSUME NEW d \in Documents, NEW e
    PROVE  Defined(d, e) \subseteq Categories
  BY RoutingPlanAssumption DEF IsDocument, Defined, Overridden, Deleted

\* A group is compiled to members that can be targets.
LEMMA MembersAreTargets ==
    ASSUME NEW d \in Documents, NEW e, NEW c
    PROVE  Members(d, e, c) \subseteq Targets
<1>1. Known(d, e) \cup Up \subseteq Targets
  BY DefinedAreCategories DEF Known, Up, Targets
<1>2. Up \subseteq Targets /\ Reject \in Targets
  BY DEF Up, Targets, Builtins
<1> QED
  BY <1>1, <1>2 DEF Members

LEMMA Redeleted ==
    ASSUME NEW kind, NEW list, NEW x \in BOOLEAN, NEW y \in BOOLEAN
    PROVE  [Edit(kind, list, y) EXCEPT !.deleted = x] = Edit(kind, list, x)
  BY DEF Edit

\* What a stored edit becomes when it is deleted or restored is an edit.
LEMMA EditsAreClosed ==
    ASSUME NEW row \in Edits, NEW x \in BOOLEAN
    PROVE  [row EXCEPT !.deleted = x] \in Edits
<1>1. CASE \E y \in BOOLEAN : row = Label(y)
  <2>1. PICK y \in BOOLEAN : row = Label(y)
    BY <1>1
  <2>2. [row EXCEPT !.deleted = x] = Label(x)
    <3> DEFINE none == [members |-> <<>>, all |-> FALSE]
    <3>1. row = Edit("", none, y)
      BY <2>1 DEF Label
    <3>2. Label(x) = Edit("", none, x)
      BY DEF Label
    <3> HIDE DEF none
    <3>3. [row EXCEPT !.deleted = x] = Edit("", none, x)
      BY <3>1, Redeleted
    <3> QED
      BY <3>2, <3>3
  <2>3. Label(x) \in {Label(z) : z \in BOOLEAN}
    OBVIOUS
  <2> QED
    BY <2>2, <2>3 DEF Edits
<1>2. CASE \E kind \in {"select", "auto"}, list \in Lists, y \in BOOLEAN :
              row = Edit(kind, list, y)
  <2>1. PICK kind \in {"select", "auto"}, list \in Lists, y \in BOOLEAN :
           row = Edit(kind, list, y)
    BY <1>2
  <2>2. [row EXCEPT !.deleted = x] = Edit(kind, list, x)
    BY <2>1, Redeleted
  <2> QED
    BY <2>2 DEF Edits
<1> QED
  BY <1>1, <1>2 DEF Edits

LEMMA LabelIsAnEdit == Label(TRUE) \in Edits
<1>1. TRUE \in BOOLEAN
  OBVIOUS
<1>2. Label(TRUE) \in {Label(z) : z \in BOOLEAN}
  BY <1>1
<1> DEFINE Defining == {Edit(kind, list, x) :
                          kind \in {"select", "auto"}, list \in Lists, x \in BOOLEAN}
<1>3. Edits = {Label(z) : z \in BOOLEAN} \cup Defining
  BY DEF Edits
<1> HIDE DEF Defining
<1> QED
  BY <1>2, <1>3

\* Of a document, what the operations use.
LEMMA DocumentsAreDocuments ==
    ASSUME NEW d \in Documents
    PROVE  \A i \in DOMAIN d.rules : d.rules[i] \in Rule
<1>1. \A list \in Seq(Rule) : \A i \in DOMAIN list : list[i] \in Rule
  OBVIOUS
<1> QED
  BY <1>1, RoutingPlanAssumption DEF IsDocument

\* What routingEntries shows are rules.
LEMMA EntriesAreRules ==
    ASSUME TypeOK
    PROVE  Entries \subseteq Rule
<1> DEFINE up == Upstream(doc, edits, {})
           list == Listed(<<>>, up)
<1>1. \A i \in DOMAIN up : up[i] \in Rule
  <2>1. Reject \in Targets
    BY DEF Targets, Builtins
  <2>2. \A r \in Rule : NodeGone(r) \in Rule
    BY <2>1 DEF NodeGone, Rule
  <2> QED
    BY <2>2, DocumentsAreDocuments DEF TypeOK, Upstream, Kept
<1> HIDE DEF up
<1>2. \A p \in DOMAIN list : list[p] \in Rule
  <2>1. DOMAIN list = {2} \X DOMAIN up
    BY DEF Listed
  <2>2. \A p \in DOMAIN list : p[2] \in DOMAIN up /\ list[p] = up[p[2]]
    BY <2>1 DEF Listed
  <2> QED
    BY <2>2, <1>1
<1> HIDE DEF list
<1>3. Range(Final(list)) \subseteq Rule
  <2>1. [of |-> Match, policy |-> Reject] \in Rule
    BY DEF Rule, Targets, Builtins
  <2> QED
    BY <1>2, <2>1 DEF Range, Final
<1> QED
  BY <1>3 DEF Entries, TypeOK, up, list

-----------------------------------------------------------------------------
\* The types, one action at a time.

LEMMA SaveCategoryKeepsTypes ==
    ASSUME TypeOK, NEW c \in Categories, SaveCategory(c)
    PROVE  TypeOK'
<1>1. PICK e \in Edits :
         /\ edits' = [edits EXCEPT ![c] = e]
         /\ WithSelection(c, edits') /\ WithRule(c)
         /\ UNCHANGED <<nodes, settings, doc, blocked>>
         /\ unseen' = {}
  BY DEF SaveCategory
<1>2. edits' \in [Categories -> Edits \cup {Missing}]
  BY <1>1 DEF TypeOK
<1>3. selections' \in [Categories -> Targets \cup {Missing}]
  <2>1. \A after : Members(doc, after, c) \subseteq Targets
    BY MembersAreTargets DEF TypeOK
  <2>2. UNCHANGED selections
        \/ \E m \in Targets : selections' = [selections EXCEPT ![c] = m]
    BY <1>1, <2>1 DEF WithSelection
  <2> QED
    BY <2>2 DEF TypeOK
<1>4. rules' \in [Slots -> LocalRules \cup {Missing}]
  <2>1. CASE \E s \in Slots, h \in Hosts \ Geo :
                rules' = [rules EXCEPT ![s] = [of |-> h, policy |-> c, enabled |-> TRUE]]
    <3>1. PICK s \in Slots, h \in Hosts \ Geo :
             rules' = [rules EXCEPT ![s] = [of |-> h, policy |-> c, enabled |-> TRUE]]
      BY <2>1
    <3>2. TRUE \in BOOLEAN
      OBVIOUS
    <3>3. [of |-> h, policy |-> c, enabled |-> TRUE] \in LocalRules
      BY <3>2 DEF LocalRules, Targets
    <3> QED
      BY <3>1, <3>3 DEF TypeOK
  <2> QED
    BY <1>1, <2>1 DEF WithRule, TypeOK
<1> QED
  BY <1>1, <1>2, <1>3, <1>4 DEF TypeOK

LEMMA DeleteCategoryKeepsTypes ==
    ASSUME TypeOK, NEW c \in Categories, DeleteCategory(c)
    PROVE  TypeOK'
<1> DEFINE row == IF edits[c] # Missing THEN [edits[c] EXCEPT !.deleted = TRUE]
                  ELSE Label(TRUE)
<1>1. row \in Edits
  BY EditsAreClosed, LabelIsAnEdit DEF TypeOK
<1>2. edits' = [edits EXCEPT ![c] = row] /\ unseen' = {}
      /\ UNCHANGED <<nodes, settings, doc, rules, blocked, selections>>
  BY DEF DeleteCategory
<1> HIDE DEF row
<1> QED
  BY <1>1, <1>2 DEF TypeOK

LEMMA RestoreDeletedKeepsTypes ==
    ASSUME TypeOK, NEW c \in Categories, RestoreDeleted(c)
    PROVE  TypeOK'
<1>1. edits[c] \in Edits
  BY DEF RestoreDeleted, TypeOK
<1>2. [edits[c] EXCEPT !.deleted = FALSE] \in Edits
  BY <1>1, EditsAreClosed
<1>3. edits' = [edits EXCEPT ![c] = [edits[c] EXCEPT !.deleted = FALSE]]
      /\ unseen' = {} /\ UNCHANGED <<nodes, settings, doc, rules, blocked, selections>>
  BY DEF RestoreDeleted
<1> QED
  BY <1>2, <1>3 DEF TypeOK

LEMMA SaveCategoryRuleKeepsTypes ==
    ASSUME TypeOK, NEW from \in Slots \cup {Missing}, NEW s \in Slots,
           SaveCategoryRule(from, s)
    PROVE  TypeOK'
<1>1. PolicyOptions \subseteq Targets
  BY DefinedAreCategories DEF PolicyOptions, Targets, TypeOK
<1>2. rules' \in [Slots -> LocalRules \cup {Missing}]
  BY <1>1 DEF SaveCategoryRule, TypeOK, LocalRules
<1>3. blocked' \subseteq Rule
  BY EntriesAreRules DEF SaveCategoryRule, TypeOK
<1> QED
  BY <1>2, <1>3 DEF SaveCategoryRule, TypeOK

LEMMA NextKeepsTypes ==
    ASSUME TypeOK, [Next]_vars
    PROVE  TypeOK'
<1>1. CASE EditCategories
  <2>1. PICK c \in Categories :
           \/ SaveCategory(c) \/ DeleteCategory(c) \/ RestoreDeleted(c)
           \/ RestoreDefinition(c) \/ SaveSelection(c)
    BY <1>1 DEF EditCategories
  <2>2. CASE RestoreDefinition(c)
    BY <2>2 DEF RestoreDefinition, TypeOK
  <2>3. CASE SaveSelection(c)
    BY <2>3, MembersAreTargets DEF SaveSelection, TypeOK
  <2> QED
    BY <2>1, <2>2, <2>3, SaveCategoryKeepsTypes, DeleteCategoryKeepsTypes,
       RestoreDeletedKeepsTypes
<1>2. CASE EditRules
  <2>1. CASE \E s \in Slots : DeleteCategoryRule(s)
    BY <2>1 DEF DeleteCategoryRule, TypeOK
  <2>2. CASE BlockRoutingRule
    BY <2>2, EntriesAreRules DEF BlockRoutingRule, TypeOK
  <2>3. CASE Unblock
    BY <2>3 DEF Unblock, TypeOK
  <2> QED
    BY <1>2, <2>1, <2>2, <2>3, SaveCategoryRuleKeepsTypes DEF EditRules
<1>3. CASE \E d \in Documents : Refresh(d)
  BY <1>3 DEF Refresh, TypeOK
<1>4. CASE \E n \in Nodes, status \in {"up", "down", "gone"} : NodeChanges(n, status)
  BY <1>4 DEF NodeChanges, TypeOK
<1>5. CASE SaveRouting \/ UNCHANGED vars
  BY <1>5 DEF SaveRouting, vars, TypeOK
<1> QED
  BY <1>1, <1>2, <1>3, <1>4, <1>5 DEF Next

\* Everything stored beside a scheme keeps its type: edits stay edits when they are
\* deleted and restored, choices and policies are targets, and what is blocked is a
\* rule as it is written, not as it is shown.
THEOREM PlanRowsAreTyped == Spec => []TypeOK
<1>1. Init => TypeOK
  BY DEF Init, TypeOK
<1>2. TypeOK /\ [Next]_vars => TypeOK'
  BY NextKeepsTypes
<1> QED
  BY <1>1, <1>2, PTL DEF Spec

-----------------------------------------------------------------------------
\* Numbers and finite sets.

LEMMA LeastNumber ==
    ASSUME NEW T, T \subseteq Nat, T # {}
    PROVE  \E x \in T : \A y \in T : x <= y
<1>1. PICK x \in T : \A y \in T : <<y, x>> \notin OpToRel(<, Nat)
  BY NatLessThanWellFounded, WFMin
<1>2. \A y \in T : ~(y < x)
  BY <1>1 DEF OpToRel
<1> QED
  BY <1>2

\* Of sets of subsets of a finite set, one that no other contains.
LEMMA LargestSubset ==
    ASSUME NEW S, IsFiniteSet(S), NEW T, T \subseteq SUBSET S, T # {}
    PROVE  \E x \in T : \A y \in T : x \subseteq y => y = x
<1> DEFINE Rest == {S \ x : x \in T}
<1>1. IsWellFoundedOn(StrictSubsetOrdering(S), FiniteSubsetsOf(S))
  BY FS_StrictSubsetOrderingWellFounded
<1>2. Rest \subseteq FiniteSubsetsOf(S) /\ Rest # {}
  <2>1. Rest \subseteq SUBSET S
    OBVIOUS
  <2>2. Rest # {}
    <3>1. PICK x \in T : TRUE
      OBVIOUS
    <3>2. S \ x \in Rest
      BY <3>1
    <3> QED
      BY <3>2
  <2>3. ASSUME NEW x \in SUBSET S
        PROVE  x \in FiniteSubsetsOf(S)
    <3>1. IsFiniteSet(x)
      BY FS_Subset
    <3> QED
      BY <3>1 DEF FiniteSubsetsOf
  <2> HIDE DEF Rest
  <2> QED
    BY <2>1, <2>2, <2>3
<1> HIDE DEF Rest
<1>3. PICK r \in Rest : \A q \in Rest : <<q, r>> \notin StrictSubsetOrdering(S)
  BY <1>1, <1>2, WFMin
<1>4. PICK x \in T : r = S \ x
  BY <1>3 DEF Rest
<1>5. ASSUME NEW y \in T, x \subseteq y
      PROVE  y = x
  <2>1. <<S \ y, S \ x>> \notin StrictSubsetOrdering(S)
    BY <1>3, <1>4 DEF Rest
  <2>2. S \ y = S \ x
    BY <1>5, <2>1 DEF StrictSubsetOrdering
  <2> QED
    BY <2>2
<1> QED
  BY <1>5

\* And one that contains no other.
LEMMA SmallestSubset ==
    ASSUME NEW S, IsFiniteSet(S), NEW T, T \subseteq SUBSET S, T # {}
    PROVE  \E x \in T : \A y \in T : y \subseteq x => y = x
<1> DEFINE Rest == {S \ x : x \in T}
<1>1. Rest \subseteq SUBSET S
  OBVIOUS
<1>2. Rest # {}
  <2>1. PICK x \in T : TRUE
    OBVIOUS
  <2>2. S \ x \in Rest
    BY <2>1
  <2> QED
    BY <2>2
<1> HIDE DEF Rest
<1>3. PICK r \in Rest : \A q \in Rest : r \subseteq q => q = r
  BY <1>1, <1>2, LargestSubset
<1>4. PICK x \in T : r = S \ x
  BY <1>3 DEF Rest
<1>5. ASSUME NEW y \in T, y \subseteq x
      PROVE  y = x
  <2>1. S \ y \in Rest
    BY DEF Rest
  <2>2. r \subseteq S \ y
    BY <1>4, <1>5
  <2>3. S \ y = S \ x
    BY <1>3, <1>4, <2>1, <2>2
  <2> QED
    BY <2>3
<1> QED
  BY <1>5

\* The search of validateGroupGraph is defined by its recursion: the equation has a
\* solution, the least one.
LEMMA VisitIsRecursive ==
    ASSUME NEW links, \A c \in DOMAIN links : links[c] \subseteq DOMAIN links
    PROVE  /\ \A path \in SUBSET DOMAIN links : Visit(links)[path] \subseteq DOMAIN links
           /\ \A path \in SUBSET DOMAIN links, c \in DOMAIN links :
                 c \in Visit(links)[path]
                    <=> c \in path \/ \E m \in links[c] : m \in Visit(links)[path \cup {c}]
<1> DEFINE G == DOMAIN links
           Pairs == (SUBSET G) \X G
           Found(Q, path, c) == c \in path \/ \E m \in links[c] : <<path \cup {c}, m>> \in Q
           Closed(Q) == \A path \in SUBSET G, c \in G : Found(Q, path, c) => <<path, c>> \in Q
           P == {x \in Pairs : \A Q \in SUBSET Pairs : Closed(Q) => x \in Q}
           Q0 == {x \in Pairs : Found(P, x[1], x[2])}
<1>1. ASSUME NEW path \in SUBSET G, NEW c \in G, Found(P, path, c)
      PROVE  <<path, c>> \in P
  <2> SUFFICES ASSUME NEW Q \in SUBSET Pairs, Closed(Q)
               PROVE  <<path, c>> \in Q
    OBVIOUS
  <2>1. Found(Q, path, c)
    BY <1>1
  <2> QED
    BY <2>1
<1>2. Closed(Q0)
  <2> SUFFICES ASSUME NEW path \in SUBSET G, NEW c \in G, Found(Q0, path, c)
               PROVE  <<path, c>> \in Q0
    OBVIOUS
  <2>1. \A x \in Q0 : x \in P
    <3> SUFFICES ASSUME NEW x \in Q0 PROVE x \in P
      OBVIOUS
    <3> HIDE DEF P
    <3>1. x = <<x[1], x[2]>> /\ x[1] \in SUBSET G /\ x[2] \in G /\ Found(P, x[1], x[2])
      OBVIOUS
    <3> QED
      BY <3>1, <1>1
  <2> HIDE DEF P
  <2>2. Found(P, path, c)
    BY <2>1
  <2> QED
    BY <2>2
<1>3. \A path \in SUBSET G, c \in G : <<path, c>> \in P <=> Found(P, path, c)
  <2>1. ASSUME NEW path \in SUBSET G, NEW c \in G, <<path, c>> \in P
        PROVE  Found(P, path, c)
    <3>1. <<path, c>> \in Q0
      <4> HIDE DEF Q0, Closed
      <4>1. Q0 \in SUBSET Pairs
        BY DEF Q0
      <4> QED
        BY <1>2, <2>1, <4>1
    <3> HIDE DEF P
    <3> QED
      BY <3>1
  <2> HIDE DEF P
  <2> QED
    BY <1>1, <2>1
<1> HIDE DEF P
<1> DEFINE Solves(f) == f = [path \in SUBSET G |->
              {c \in G : c \in path \/ \E m \in links[c] : m \in f[path \cup {c}]}]
           least == [path \in SUBSET G |-> {c \in G : <<path, c>> \in P}]
<1>4. Solves(least)
  <2>1. \A path \in SUBSET G, c \in G : c \in least[path] <=> <<path, c>> \in P
    OBVIOUS
  <2>2. \A path \in SUBSET G :
           least[path]
             = {c \in G : c \in path \/ \E m \in links[c] : m \in least[path \cup {c}]}
    BY <1>3, <2>1
  <2> QED
    BY <2>2
<1>5. Visit(links) = CHOOSE f : Solves(f)
  BY DEF Visit
<1>6. Solves(Visit(links))
  <2> HIDE DEF Solves, least
  <2> QED
    BY <1>4, <1>5
<1> QED
  BY <1>6

\* If the search fails nowhere, there is no set of groups in which each leads to
\* another: on the longest way it has not failed on there is always one more.
LEMMA NoEndlessWay ==
    ASSUME NEW links, \A c \in DOMAIN links : links[c] \subseteq DOMAIN links,
           IsFiniteSet(DOMAIN links), ~OnCycle(links),
           NEW T \in SUBSET DOMAIN links, \A c \in T : \E m \in T : m \in links[c]
    PROVE  T = {}
<1> DEFINE G == DOMAIN links
           Ways == {path \in SUBSET G : \E c \in T : c \notin Visit(links)[path]}
<1> SUFFICES ASSUME T # {} PROVE FALSE
  OBVIOUS
<1>1. \A path \in SUBSET G, c \in G :
         c \in Visit(links)[path]
            <=> c \in path \/ \E m \in links[c] : m \in Visit(links)[path \cup {c}]
  BY VisitIsRecursive
<1>2. {} \in Ways
  BY DEF OnCycle
<1>3. PICK path \in Ways : \A y \in Ways : path \subseteq y => y = path
  <2>1. Ways \subseteq SUBSET G /\ Ways # {}
    BY <1>2
  <2> HIDE DEF Ways
  <2> QED
    BY <2>1, LargestSubset
<1>4. PICK c \in T : c \notin Visit(links)[path]
  BY <1>3
<1>5. PICK m \in T : m \in links[c]
  OBVIOUS
<1>6. c \notin path /\ m \notin Visit(links)[path \cup {c}]
  BY <1>1, <1>3, <1>4, <1>5
<1>7. path \cup {c} \in Ways
  BY <1>6
<1> HIDE DEF Ways
<1> QED
  BY <1>3, <1>6, <1>7

-----------------------------------------------------------------------------
\* What a scheme compiles to depends on the nodes, but not whether it is sound: a node
\* is no group, and so the links between groups are what the groups list.

Listing(d, e) ==
    [c \in Defined(d, e) |-> ToSet(Definition(d, e, c).members) \cap Defined(d, e)]

Shape(d, e) ==
    /\ Resolves(d, e)
    /\ Cardinality(Defined(d, e)) <= MaxGroups
    /\ ~OnCycle(Listing(d, e))
    /\ PoliciesKnown(d, e)

LEMMA SoundIsShape ==
    ASSUME NEW d \in Documents, NEW e
    PROVE  Sound(d, e) <=> Shape(d, e)
<1> DEFINE Here == Defined(d, e)
<1>1. Here \cap (Nodes \cup Builtins) = {} /\ Reject \in Builtins
  BY DefinedAreCategories, NamesAreApart DEF Builtins
<1>2. Up \subseteq Nodes
  BY DEF Up
<1>3. ASSUME NEW c \in Here
      PROVE  Members(d, e, c) \cap Here = ToSet(Definition(d, e, c).members) \cap Here
  BY <1>1, <1>2 DEF Members, Known
<1>4. Links(d, e) = Listing(d, e)
  BY <1>3 DEF Links, Listing
<1> QED
  BY <1>4 DEF Sound, Shape

\* A part of a graph has no cycle that the graph has not: the search of the part fails
\* nowhere, or the search of the graph would fail on the longest such way.
LEMMA PartsHaveNoCycle ==
    ASSUME NEW links, \A c \in DOMAIN links : links[c] \subseteq DOMAIN links,
           IsFiniteSet(DOMAIN links), ~OnCycle(links),
           NEW part, \A c \in DOMAIN part : part[c] \subseteq DOMAIN part,
           DOMAIN part \subseteq DOMAIN links,
           \A c \in DOMAIN part : part[c] \subseteq links[c]
    PROVE  ~OnCycle(part)
<1> DEFINE G == DOMAIN part
           Ways == {path \in SUBSET G :
                       \E c \in G : c \in Visit(part)[path] /\ c \notin Visit(links)[path]}
<1> SUFFICES ASSUME OnCycle(part) PROVE FALSE
  OBVIOUS
<1>1. \A path \in SUBSET G, c \in G :
         c \in Visit(part)[path]
            <=> c \in path \/ \E m \in part[c] : m \in Visit(part)[path \cup {c}]
  BY VisitIsRecursive
<1>2. \A path \in SUBSET DOMAIN links, c \in DOMAIN links :
         c \in Visit(links)[path]
            <=> c \in path \/ \E m \in links[c] : m \in Visit(links)[path \cup {c}]
  BY VisitIsRecursive
<1>3. {} \in Ways
  <2>1. Visit(part)[{}] \subseteq G
    BY VisitIsRecursive
  <2> QED
    BY <2>1 DEF OnCycle
<1>4. PICK path \in Ways : \A y \in Ways : path \subseteq y => y = path
  <2>1. Ways \subseteq SUBSET G /\ Ways # {} /\ IsFiniteSet(G)
    BY <1>3, FS_Subset
  <2> HIDE DEF Ways, G
  <2> QED
    BY <2>1, LargestSubset
<1>5. PICK c \in G : c \in Visit(part)[path] /\ c \notin Visit(links)[path]
  BY <1>4
<1>6. path \in SUBSET G /\ path \in SUBSET DOMAIN links /\ c \in DOMAIN links
  BY <1>4
<1>7. c \notin path /\ \A m \in links[c] : m \notin Visit(links)[path \cup {c}]
  BY <1>2, <1>5, <1>6
<1>8. PICK m \in part[c] : m \in Visit(part)[path \cup {c}]
  BY <1>1, <1>5, <1>6, <1>7
<1>9. path \cup {c} \in Ways
  <2>1. m \in G /\ m \in links[c]
    BY <1>5, <1>8
  <2> QED
    BY <1>5, <1>6, <1>7, <1>8, <2>1
<1> HIDE DEF Ways
<1> QED
  BY <1>4, <1>7, <1>9

\* A scheme stays sound if one more category is taken away.
LEMMA HidingKeepsShape ==
    ASSUME NEW d \in Documents, NEW e \in [Categories -> Edits \cup {Missing}],
           NEW c \in Categories, Shape(d, e)
    PROVE  Shape(d, [e EXCEPT ![c] = Label(TRUE)])
<1> DEFINE less == [e EXCEPT ![c] = Label(TRUE)]
<1>1. Label(TRUE) # Missing /\ Label(TRUE).deleted
  BY LabelIsAnEdit, RoutingPlanAssumption DEF Label, Edit
<1>2. less[c] = Label(TRUE) /\ \A x \in Categories \ {c} : less[x] = e[x]
  OBVIOUS
<1> HIDE DEF less
<1>3. Deleted(less) = Deleted(e) \cup {c}
  BY <1>1, <1>2 DEF Deleted
<1>4. \A x \in Categories : Overridden(less, x) <=> x # c /\ Overridden(e, x)
  BY <1>1, <1>2 DEF Overridden
<1>5. DOMAIN d.groups \subseteq Categories
  BY RoutingPlanAssumption DEF IsDocument
<1>6. Defined(d, less) = Defined(d, e) \ {c}
  BY <1>3, <1>4 DEF Defined
<1>7. Defined(d, e) \subseteq Categories /\ IsFiniteSet(Defined(d, e))
  BY DefinedAreCategories, RoutingPlanAssumption, FS_Subset
<1>8. ASSUME NEW x \in Defined(d, less)
      PROVE  Definition(d, less, x) = Definition(d, e, x)
  BY <1>2, <1>4, <1>6, <1>7 DEF Definition
<1>9. Known(d, e) \cup Deleted(e) \subseteq Known(d, less) \cup Deleted(less)
  BY <1>3, <1>6 DEF Known
<1>10. Resolves(d, less)
  <2>1. \A x \in Defined(d, less) : Overridden(less, x) <=> Overridden(e, x)
    BY <1>4, <1>6, <1>7
  <2> QED
    BY <1>6, <1>9, <2>1 DEF Shape, Resolves
<1>11. Cardinality(Defined(d, less)) <= MaxGroups
  <2>1. Cardinality(Defined(d, less)) <= Cardinality(Defined(d, e))
    BY <1>6, <1>7, FS_Subset
  <2>2. Cardinality(Defined(d, less)) \in Nat /\ Cardinality(Defined(d, e)) \in Nat
    BY <1>6, <1>7, FS_Subset, FS_CardinalityType
  <2> QED
    BY <2>1, <2>2, RoutingPlanAssumption DEF Shape
<1>12. ~OnCycle(Listing(d, less))
  <2> DEFINE links == Listing(d, e)
             part == Listing(d, less)
  <2>1. DOMAIN links = Defined(d, e) /\ DOMAIN part = Defined(d, less)
    BY DEF Listing
  <2>2. \A x \in DOMAIN links : links[x] \subseteq DOMAIN links
    BY DEF Listing
  <2>3. \A x \in DOMAIN part : part[x] \subseteq DOMAIN part
    BY DEF Listing
  <2>4. \A x \in DOMAIN part : part[x] \subseteq links[x]
    BY <1>6, <1>8 DEF Listing
  <2>5. ~OnCycle(links)
    BY DEF Shape
  <2> HIDE DEF links, part
  <2>6. ~OnCycle(part)
    BY <1>6, <1>7, <2>1, <2>2, <2>3, <2>4, <2>5, PartsHaveNoCycle
  <2> QED
    BY <2>6 DEF part
<1>13. PoliciesKnown(d, less)
  BY <1>9 DEF Shape, PoliciesKnown
<1> QED
  BY <1>10, <1>11, <1>12, <1>13 DEF Shape, less

LEMMA HiddenAreEdits ==
    ASSUME TypeOK
    PROVE  Hidden \in [Categories -> Edits \cup {Missing}]
  BY LabelIsAnEdit DEF Hidden, TypeOK

\* An operation that stores what it has compiled, with nothing unseen.
LEMMA StoredIsSound ==
    ASSUME TypeOK', NEW d \in Documents, NEW e, Compiles(d, e),
           doc' = d, edits' = e, unseen' = {}
    PROVE  Shape(doc, Hidden)'
<1>1. Shape(d, e)
  BY SoundIsShape DEF Compiles
<1>2. Hidden' = e
  BY DEF Hidden, TypeOK
<1>3. Shape(doc', Hidden')
  BY <1>1, <1>2
<1> QED
  BY <1>3

LEMMA EditingKeepsShape ==
    ASSUME TypeOK, TypeOK', Shape(doc, Hidden), EditCategories
    PROVE  Shape(doc, Hidden)'
<1>1. PICK c \in Categories :
         \/ SaveCategory(c) \/ DeleteCategory(c) \/ RestoreDeleted(c)
         \/ RestoreDefinition(c) \/ SaveSelection(c)
  BY DEF EditCategories
<1>2. CASE SaveCategory(c) \/ DeleteCategory(c) \/ RestoreDeleted(c)
  <2>1. Compiles(doc, edits') /\ unseen' = {} /\ doc' = doc
    BY <1>2 DEF SaveCategory, DeleteCategory, RestoreDeleted
  <2>2. doc \in Documents
    BY DEF TypeOK
  <2> QED
    BY <2>1, <2>2, StoredIsSound
<1>3. CASE RestoreDefinition(c)
  <2>1. doc' = doc /\ unseen' = unseen \cup {c} /\ edits' = [edits EXCEPT ![c] = Missing]
    BY <1>3 DEF RestoreDefinition
  <2>2. Hidden' = [Hidden EXCEPT ![c] = Label(TRUE)]
    BY <2>1 DEF Hidden, TypeOK
  <2>3. Shape(doc, [Hidden EXCEPT ![c] = Label(TRUE)])
    BY HiddenAreEdits, HidingKeepsShape DEF TypeOK
  <2>4. Shape(doc', Hidden')
    BY <2>1, <2>2, <2>3
  <2> QED
    BY <2>4
<1>4. CASE SaveSelection(c)
  <2>1. doc' = doc /\ Hidden' = Hidden
    BY <1>4 DEF SaveSelection, Hidden
  <2>2. Shape(doc', Hidden')
    BY <2>1
  <2> QED
    BY <2>2
<1> QED
  BY <1>1, <1>2, <1>3, <1>4

\* A scheme that compiles stays sound, whatever is edited, deleted, refreshed or lost
\* and however the settings are switched: a cycle is only closed through a definition
\* that came back without being compiled, and without such categories there is none.
THEOREM EditsGoOnCompiling == Spec => []EditsCompile
<1>1. Init /\ TypeOK => Shape(doc, Hidden)
  <2> SUFFICES ASSUME Init, TypeOK PROVE Shape(doc, Hidden)
    OBVIOUS
  <2>1. Hidden = edits /\ doc \in Documents /\ Compiles(doc, edits)
    BY DEF Init, Hidden
  <2> QED
    BY <2>1, SoundIsShape DEF Compiles
<1>2. ASSUME TypeOK, TypeOK', Shape(doc, Hidden), [Next]_vars
      PROVE  Shape(doc, Hidden)'
  <2>1. CASE UNCHANGED <<doc, edits, unseen>>
    <3>1. doc' = doc /\ Hidden' = Hidden
      BY <2>1 DEF Hidden
    <3>2. Shape(doc', Hidden')
      BY <1>2, <3>1
    <3> QED
      BY <3>2
  <2>2. CASE \E d \in Documents : Refresh(d)
    <3>1. PICK d \in Documents : Refresh(d)
      BY <2>2
    <3>2. Compiles(d, edits) /\ doc' = d /\ edits' = edits /\ unseen' = {}
      BY <3>1 DEF Refresh
    <3> QED
      BY <1>2, <3>2, StoredIsSound
  <2>3. CASE EditRules
    BY <2>1, <2>3 DEF EditRules, SaveCategoryRule, DeleteCategoryRule, BlockRoutingRule,
       Unblock
  <2>4. CASE SaveRouting \/ UNCHANGED vars
    BY <2>1, <2>4 DEF SaveRouting, vars
  <2>5. CASE \E n \in Nodes, status \in {"up", "down", "gone"} : NodeChanges(n, status)
    BY <2>1, <2>5 DEF NodeChanges
  <2> QED
    BY <1>2, <2>2, <2>3, <2>4, <2>5, EditingKeepsShape DEF Next
<1>3. TypeOK /\ Shape(doc, Hidden) => EditsCompile
  BY SoundIsShape DEF EditsCompile, TypeOK
<1> QED
  BY <1>1, <1>2, <1>3, PlanRowsAreTyped, PTL DEF Spec

-----------------------------------------------------------------------------
\* What a target leads to.

LEMMA WithinIsClosed ==
    ASSUME NEW leads, NEW p, NEW c \in Within(leads, p), c \in DOMAIN leads
    PROVE  leads[c] \cap Categories \subseteq Within(leads, p)
  BY DEF Within

LEMMA WithinHasItself ==
    ASSUME NEW leads, NEW p \in Categories
    PROVE  p \in Within(leads, p)
  BY DEF Within

LEMMA WithinIsLeast ==
    ASSUME NEW leads, NEW p, NEW S \in SUBSET Categories, {p} \cap Categories \subseteq S,
           \A c \in S \cap DOMAIN leads : leads[c] \cap Categories \subseteq S
    PROVE  Within(leads, p) \subseteq S
  BY DEF Within

\* A group that is no category leads nowhere.
LEMMA OutboundsLeadNowhere ==
    ASSUME NEW leads, NEW p, p \notin Categories
    PROVE  Within(leads, p) = {}
<1>1. {} \in SUBSET Categories
      /\ \A c \in {} \cap DOMAIN leads : leads[c] \cap Categories \subseteq {}
  OBVIOUS
<1>2. \A c \in Within(leads, p) : c \in {}
  BY <1>1 DEF Within
<1> QED
  BY <1>2

\* What a group leads to, other than itself, is led to by one of its members.
LEMMA WithinByAMember ==
    ASSUME NEW leads, NEW p \in Categories, p \in DOMAIN leads,
           NEW c \in Within(leads, p), c # p
    PROVE  \E m \in leads[p] : c \in Within(leads, m)
<1> DEFINE S == {p} \cup UNION {Within(leads, m) : m \in leads[p]}
<1>1. S \in SUBSET Categories
  BY DEF Within
<1>2. ASSUME NEW x \in S \cap DOMAIN leads
      PROVE  leads[x] \cap Categories \subseteq S
  <2>1. CASE x = p
    BY <2>1, WithinHasItself
  <2>2. ASSUME NEW m \in leads[p], x \in Within(leads, m)
        PROVE  leads[x] \cap Categories \subseteq S
    BY <2>2, WithinIsClosed
  <2> QED
    BY <2>1, <2>2
<1>3. Within(leads, p) \subseteq S
  <2> HIDE DEF S
  <2>1. p \in S
    BY DEF S
  <2> QED
    BY <1>1, <1>2, <2>1, WithinIsLeast
<1> QED
  BY <1>3

\* Groups that lead to less have no more exits.
LEMMA FewerExits ==
    ASSUME NEW leads, NEW wider, DOMAIN leads = DOMAIN wider, NEW p,
           \A c \in DOMAIN wider : leads[c] \subseteq wider[c] \cup {Reject}
    PROVE  ExitsOf(leads, p) \subseteq ExitsOf(wider, p) \cup {Reject}
<1>1. Reject \notin Categories
  BY NamesAreApart DEF Builtins
<1>2. Within(leads, p) \subseteq Within(wider, p)
  <2> DEFINE S == Within(wider, p)
  <2>1. S \in SUBSET Categories /\ {p} \cap Categories \subseteq S
    BY WithinHasItself DEF Within
  <2>2. \A c \in S \cap DOMAIN leads : leads[c] \cap Categories \subseteq S
    BY <1>1, WithinIsClosed
  <2> HIDE DEF S
  <2>3. Within(leads, p) \subseteq S
    BY <2>1, <2>2, WithinIsLeast
  <2> QED
    BY <2>3 DEF S
<1> QED
  BY <1>2 DEF ExitsOf

-----------------------------------------------------------------------------
\* The groups of a plan.

\* What a group lists is a sequence of targets, whether a document or an edit says so.
LEMMA DefinitionIsTyped ==
    ASSUME NEW d \in Documents, NEW e \in [Categories -> Edits \cup {Missing}],
           NEW c \in Defined(d, e)
    PROVE  Definition(d, e, c).members \in Seq(Targets)
<1>1. CASE Overridden(e, c)
  <2>1. c \in Categories /\ e[c] \in Edits
    BY <1>1, DefinedAreCategories DEF Overridden
  <2>2. \A row \in Edits : row.members \in Seq(Targets)
    <3>1. ASSUME NEW x \in BOOLEAN
          PROVE  Label(x).members \in Seq(Targets)
      <4>1. Label(x).members = <<>>
        BY DEF Label, Edit
      <4> QED
        BY <4>1
    <3>2. ASSUME NEW kind, NEW list \in Lists, NEW x \in BOOLEAN
          PROVE  Edit(kind, list, x).members \in Seq(Targets)
      BY RoutingPlanAssumption DEF Edit
    <3> QED
      BY <3>1, <3>2 DEF Edits
  <2>3. Definition(d, e, c).members = e[c].members
    BY <1>1 DEF Definition
  <2> QED
    BY <2>1, <2>2, <2>3
<1>2. CASE ~Overridden(e, c)
  <2>1. c \in DOMAIN d.groups
    BY <1>2 DEF Defined
  <2>2. Definition(d, e, c).members = d.groups[c].members
    BY <1>2 DEF Definition
  <2>3. DOMAIN d.groups \cup Nodes \cup Builtins \subseteq Targets
    BY RoutingPlanAssumption DEF IsDocument, Targets
  <2>4. d.groups[c].members \in Seq(DOMAIN d.groups \cup Nodes \cup Builtins)
    BY <2>1, RoutingPlanAssumption DEF IsDocument
  <2> QED
    BY <2>2, <2>3, <2>4
<1> QED
  BY <1>1, <1>2

\* Of the members of a group one is the first: the choice, or else the first that is
\* there as listed.
LEMMA FirstIsAMember ==
    ASSUME NEW d \in Documents, NEW e \in [Categories -> Edits \cup {Missing}],
           NEW c \in Defined(d, e)
    PROVE  Selected(d, e, c) \in Members(d, e, c)
<1> DEFINE list == Definition(d, e, c).members
           here == {i \in DOMAIN list : list[i] \in Known(d, e) \cup Up}
<1>1. Members(d, e, c) # {}
  BY DEF Members
<1>2. CASE here # {}
  <2>1. here \subseteq Nat
    BY DefinitionIsTyped
  <2> HIDE DEF here
  <2>2. Min(here) \in here
    BY <1>2, <2>1, LeastNumber DEF Min
  <2>3. list[Min(here)] \in ToSet(list) \cap (Known(d, e) \cup Up)
    BY <2>2 DEF ToSet, here
  <2>4. ToSet(list) \cap (Known(d, e) \cup Up) \subseteq Members(d, e, c)
    BY <2>3 DEF Members
  <2>5. Default(d, e, c) = list[Min(here)]
    BY <1>2 DEF Default, here
  <2> QED
    BY <2>3, <2>4, <2>5 DEF Selected
<1>3. CASE here = {}
  BY <1>1, <1>3 DEF Selected, Default
<1> QED
  BY <1>2, <1>3

\* A group leads to targets that exist, and to none but those it declares.
LEMMA MembersExist ==
    ASSUME NEW d \in Documents, NEW e, NEW c \in Defined(d, e)
    PROVE  /\ Members(d, e, c) \subseteq Builtins \cup Up \cup Defined(d, e)
           /\ Members(d, e, c) \subseteq Declares(d, e)[c] \cup {Reject}
  BY DEF Members, Known, Builtins, Up, Declares

\* Without a failure of the search no member of a group leads back to it.
LEMMA NoGroupLeadsBack ==
    ASSUME NEW d \in Documents, NEW e, ~OnCycle(Links(d, e)),
           NEW linked, linked = [c \in Defined(d, e) |-> Members(d, e, c)],
           NEW c \in Defined(d, e), NEW m \in linked[c]
    PROVE  c \notin Within(linked, m)
<1> DEFINE G == Defined(d, e)
           links == Links(d, e)
           T == {x \in G : \E y \in linked[x] : x \in Within(linked, y)}
<1>1. G \subseteq Categories /\ IsFiniteSet(G)
  BY DefinedAreCategories, RoutingPlanAssumption, FS_Subset
<1>2. DOMAIN links = G /\ \A x \in G : links[x] = linked[x] \cap G
  BY DEF Links
<1>3. ASSUME NEW x \in G, NEW y \in linked[x], y \in Categories
      PROVE  y \in G
  <2>1. linked[x] \subseteq Builtins \cup Up \cup G
    BY MembersExist
  <2> QED
    BY <1>3, <2>1, NamesAreApart DEF Up
<1>4. ASSUME NEW x \in T
      PROVE  \E y \in T : y \in links[x]
  <2>1. PICK y \in linked[x] : x \in Within(linked, y)
    OBVIOUS
  <2>2. y \in Categories /\ y \in G
    BY <1>3, <2>1, OutboundsLeadNowhere
  <2>3. y \in links[x]
    BY <1>2, <2>2
  <2>4. CASE y = x
    BY <2>3, <2>4
  <2>5. CASE y # x
    <3>1. PICK z \in linked[y] : x \in Within(linked, z)
      BY <2>1, <2>2, <2>5, WithinByAMember
    <3>2. y \in Within(linked, z)
      BY <2>2, <3>1, WithinIsClosed
    <3>3. y \in T
      BY <2>2, <3>1, <3>2
    <3> QED
      BY <2>3, <3>3
  <2> QED
    BY <2>4, <2>5
<1>5. T = {}
  <2>1. \A x \in DOMAIN links : links[x] \subseteq DOMAIN links
    BY <1>2
  <2>2. T \in SUBSET DOMAIN links /\ IsFiniteSet(DOMAIN links)
    BY <1>1, <1>2
  <2> HIDE DEF T, links
  <2> QED
    BY <1>4, <2>1, <2>2, NoEndlessWay DEF links
<1> QED
  BY <1>5

-----------------------------------------------------------------------------
\* The rules of a plan by their places.

LEMMA FirstPlaceExists ==
    ASSUME NEW at, at \subseteq Nat \X Nat, at # {}
    PROVE  \E p \in at : \A q \in at \ {p} : Before(p, q)
<1> DEFINE parts == {p[1] : p \in at}
<1>1. PICK a \in parts : \A b \in parts : a <= b
  <2>1. parts \subseteq Nat /\ parts # {}
    OBVIOUS
  <2> HIDE DEF parts
  <2> QED
    BY <2>1, LeastNumber
<1> DEFINE numbers == {p[2] : p \in {q \in at : q[1] = a}}
<1>2. PICK i \in numbers : \A j \in numbers : i <= j
  <2>1. numbers \subseteq Nat /\ numbers # {}
    OBVIOUS
  <2> HIDE DEF numbers
  <2> QED
    BY <2>1, LeastNumber
<1>3. PICK p \in at : p[1] = a /\ p[2] = i
  BY <1>2
<1>4. ASSUME NEW q \in at \ {p}
      PROVE  Before(p, q)
  <2>1. p = <<p[1], p[2]>> /\ q = <<q[1], q[2]>>
        /\ p[1] \in Nat /\ p[2] \in Nat /\ q[1] \in Nat /\ q[2] \in Nat
    OBVIOUS
  <2>2. p[1] <= q[1] /\ (q[1] = a => p[2] <= q[2])
    BY <1>1, <1>2, <1>3
  <2>3. p[1] # q[1] \/ p[2] # q[2]
    BY <2>1
  <2> QED
    BY <1>3, <2>1, <2>2, <2>3 DEF Before
<1> QED
  BY <1>4

LEMMA FirstPlaceIsUnique ==
    ASSUME NEW at, at \subseteq Nat \X Nat,
           NEW p \in at, \A q \in at \ {p} : Before(p, q)
    PROVE  (CHOOSE x \in at : \A q \in at \ {x} : Before(x, q)) = p
<1>1. ASSUME NEW x \in at, \A q \in at \ {x} : Before(x, q)
      PROVE  x = p
  <2> SUFFICES ASSUME x # p PROVE FALSE
    OBVIOUS
  <2>1. Before(x, p) /\ Before(p, x)
    BY <1>1
  <2>2. x[1] \in Nat /\ x[2] \in Nat /\ p[1] \in Nat /\ p[2] \in Nat
    OBVIOUS
  <2> QED
    BY <2>1, <2>2 DEF Before
<1> QED
  BY <1>1

\* Of two lists of rules at the same places, for the same hosts, the first with
\* policies of the second or REJECT, and a last rule added if it needs one: what a
\* host meets first is the same policy or REJECT.
LEMMA FirstAsWritten ==
    ASSUME NEW plan, NEW written, DOMAIN plan = DOMAIN written,
           DOMAIN written \subseteq {1, 2} \X Nat,
           \A p \in DOMAIN plan : plan[p].of = written[p].of
                                 /\ plan[p].policy \in {written[p].policy, Reject},
           NEW h
    PROVE  First(Final(plan), h) \in {First(written, h), Reject}
<1> DEFINE meets(list) == {p \in DOMAIN list : list[p].of \in {h, Match}}
           FirstOf(at) == CHOOSE p \in at : \A q \in at \ {p} : Before(p, q)
           final == Final(plan)
<1>1. meets(plan) = meets(written)
  OBVIOUS
<1>2. meets(written) \subseteq Nat \X Nat /\ End \in Nat \X Nat
  BY DEF End
<1>3. CASE EndsWithMatch(plan)
  <2>1. final = plan
    BY <1>3 DEF Final
  <2>2. meets(written) # {}
    BY <1>1, <1>3 DEF EndsWithMatch
  <2>3. FirstOf(meets(written)) \in meets(written)
    <3> HIDE DEF meets
    <3> QED
      BY <1>2, <2>2, FirstPlaceExists
  <2>4. First(written, h) = written[FirstOf(meets(written))].policy
    BY <2>2 DEF First
  <2>5. First(final, h) = plan[FirstOf(meets(written))].policy
    BY <1>1, <2>1, <2>2 DEF First
  <2> QED
    BY <2>3, <2>4, <2>5
<1>4. CASE ~EndsWithMatch(plan)
  <2>1. /\ DOMAIN final = DOMAIN plan \cup {End}
        /\ final[End] = [of |-> Match, policy |-> Reject]
        /\ \A p \in DOMAIN plan : final[p] = plan[p]
    <3>1. End \notin DOMAIN plan
      BY DEF End
    <3> QED
      BY <1>4, <3>1 DEF Final
  <2>2. meets(final) = meets(written) \cup {End}
    BY <1>1, <2>1
  <2>3. CASE meets(written) = {}
    <3>1. FirstOf({End}) = End
      OBVIOUS
    <3>2. First(final, h) = final[FirstOf({End})].policy
      BY <2>2, <2>3 DEF First
    <3> QED
      BY <2>1, <3>1, <3>2
  <2>4. CASE meets(written) # {}
    <3>1. PICK p \in meets(written) : \A q \in meets(written) \ {p} : Before(p, q)
      <4> HIDE DEF meets
      <4> QED
        BY <1>2, <2>4, FirstPlaceExists
    <3>2. Before(p, End)
      BY DEF Before, End
    <3>3. FirstOf(meets(written)) = p
      <4> HIDE DEF meets
      <4> QED
        BY <1>2, <3>1, FirstPlaceIsUnique
    <3>4. FirstOf(meets(final)) = p
      <4> HIDE DEF meets, final
      <4>1. meets(final) \subseteq Nat \X Nat /\ p \in meets(final)
            /\ \A q \in meets(final) \ {p} : Before(p, q)
        BY <1>2, <2>2, <3>1, <3>2
      <4> QED
        BY <4>1, FirstPlaceIsUnique
    <3>5. First(written, h) = written[p].policy
      BY <2>4, <3>3 DEF First
    <3>6. First(final, h) = final[p].policy
      <4>1. meets(final) # {}
        BY <2>2
      <4> HIDE DEF final
      <4> QED
        BY <3>4, <4>1 DEF First
    <3> QED
      BY <2>1, <3>1, <3>5, <3>6
  <2> QED
    BY <2>3, <2>4
<1> QED
  BY <1>3, <1>4

\* The rules in force are where they are written, for the same hosts, and lead where
\* they are written to lead or reject.
LEMMA RulesAsWritten ==
    ASSUME TypeOK, NEW plan, plan = Listed(Local(doc, edits), Upstream(doc, edits, blocked))
    PROVE  /\ DOMAIN plan = DOMAIN Written /\ DOMAIN Written \subseteq {1, 2} \X Nat
           /\ \A p \in DOMAIN plan : plan[p].of = Written[p].of
                                   /\ plan[p].policy \in {Written[p].policy, Reject}
<1> DEFINE local == Local(doc, edits)
           upstream == Upstream(doc, edits, blocked)
           here == {s \in Slots : Enabled(edits, s)}
           kept == Kept(doc, edits, blocked)
           mine == [s \in here |-> [of |-> rules[s].of, policy |-> rules[s].policy]]
           theirs == [i \in kept |-> doc.rules[i]]
<1>1. Written = Listed(mine, theirs)
  <2>1. {i \in DOMAIN doc.rules : /\ doc.rules[i] \notin blocked
                                  /\ doc.rules[i].policy \notin Deleted(edits)} = kept
    BY DEF Kept
  <2> QED
    BY <2>1 DEF Written
<1>2. here \subseteq Nat /\ kept \subseteq Nat
  <2>1. doc.rules \in Seq(Rule)
    BY RoutingPlanAssumption DEF TypeOK, IsDocument
  <2>2. DOMAIN doc.rules \subseteq Nat
    BY <2>1
  <2> QED
    BY <2>2, RoutingPlanAssumption DEF Kept
<1>3. DOMAIN local = here
      /\ \A s \in here : local[s].of = mine[s].of
                        /\ local[s].policy \in {mine[s].policy, Reject}
  BY DEF Local
<1>4. DOMAIN upstream = kept
      /\ \A i \in kept : upstream[i].of = theirs[i].of
                        /\ upstream[i].policy \in {theirs[i].policy, Reject}
  <2>1. \A i \in kept : theirs[i] \in Rule
    BY DocumentsAreDocuments DEF Kept, TypeOK
  <2>2. \A x \in Rule : NodeGone(x).of = x.of /\ NodeGone(x).policy \in {x.policy, Reject}
    BY DEF NodeGone, Rule
  <2>3. DOMAIN upstream = kept /\ \A i \in kept : upstream[i] = NodeGone(theirs[i])
    BY DEF Upstream
  <2> HIDE DEF upstream, theirs, kept
  <2> QED
    BY <2>1, <2>2, <2>3
<1>5. DOMAIN mine = here /\ DOMAIN theirs = kept
  OBVIOUS
<1>6. plan = Listed(local, upstream)
  OBVIOUS
<1> HIDE DEF local, upstream, mine, theirs, here, kept
<1> DEFINE places == ({1} \X here) \cup ({2} \X kept)
<1>7. DOMAIN plan = places
      /\ \A p \in places : plan[p] = IF p[1] = 1 THEN local[p[2]] ELSE upstream[p[2]]
  BY <1>3, <1>4, <1>6 DEF Listed
<1>8. DOMAIN Written = places
      /\ \A p \in places : Written[p] = IF p[1] = 1 THEN mine[p[2]] ELSE theirs[p[2]]
  BY <1>1, <1>5 DEF Listed
<1>9. \A p \in places : (p[1] = 1 /\ p[2] \in here) \/ (p[1] # 1 /\ p[2] \in kept)
  OBVIOUS
<1>10. places \subseteq {1, 2} \X Nat
  BY <1>2
<1> HIDE DEF places
<1>11. ASSUME NEW p \in places
       PROVE  plan[p].of = Written[p].of /\ plan[p].policy \in {Written[p].policy, Reject}
  <2>1. CASE p[1] = 1 /\ p[2] \in here
    BY <1>3, <1>7, <1>8, <2>1
  <2>2. CASE p[1] # 1 /\ p[2] \in kept
    BY <1>4, <1>7, <1>8, <2>2
  <2> QED
    BY <1>9, <2>1, <2>2
<1> QED
  BY <1>7, <1>8, <1>10, <1>11

\* Every rule of the plan leads to a target that exists.
LEMMA RulesExist ==
    ASSUME TypeOK, CompilesNow
    PROVE  \A x \in Range(PlanRules(doc, edits)) :
              x.policy \in Builtins \cup Up \cup Defined(doc, edits)
<1> DEFINE there == Builtins \cup Up \cup Defined(doc, edits)
           local == Local(doc, edits)
           upstream == Upstream(doc, edits, blocked)
           list == Listed(local, upstream)
<1>1. Reject \in there
  BY DEF Builtins
<1>2. \A s \in DOMAIN local : local[s].policy \in there
  BY <1>1 DEF Local, Known
<1>3. ASSUME NEW i \in DOMAIN upstream
      PROVE  upstream[i].policy \in there
  <2>1. i \in Kept(doc, edits, blocked) /\ upstream[i] = NodeGone(doc.rules[i])
    BY <1>3 DEF Upstream
  <2>2. doc.rules[i] \in Rule
        /\ doc.rules[i].policy \in Known(doc, edits) \cup Nodes
    BY <2>1, DocumentsAreDocuments DEF CompilesNow, Compiles, Sound, PoliciesKnown, Kept, TypeOK
  <2> QED
    BY <1>1, <2>1, <2>2 DEF NodeGone, Rule, Known
<1>4. \A p \in DOMAIN list : list[p].policy \in there
  <2> HIDE DEF local, upstream, there
  <2> QED
    BY <1>2, <1>3 DEF Listed
<1>5. \A p \in DOMAIN Final(list) : Final(list)[p].policy \in there
  <2> HIDE DEF list, there
  <2> QED
    BY <1>1, <1>4 DEF Final
<1> QED
  BY <1>5 DEF PlanRules, Range

LEMMA PlansEndWithMatch ==
    ASSUME NEW list, DOMAIN list \subseteq {1, 2} \X Nat
    PROVE  EndsWithMatch(Final(list))
<1>1. CASE EndsWithMatch(list)
  BY <1>1 DEF Final
<1>2. CASE ~EndsWithMatch(list)
  <2>1. /\ DOMAIN Final(list) = DOMAIN list \cup {End}
        /\ Final(list)[End].of = Match
    BY <1>2 DEF Final
  <2>2. \A q \in DOMAIN list : Before(q, End)
    BY DEF Before, End
  <2> QED
    BY <2>1, <2>2 DEF EndsWithMatch
<1> QED
  BY <1>1, <1>2

\* What a policy leads to in the plan it declares, or it is rejected.
LEMMA ExitsAreDeclared ==
    ASSUME TypeOK, NEW p
    PROVE  ExitsOf(Leads(PlanGroups(doc, edits)), p)
              \subseteq ExitsOf(Declares(doc, edits), p) \cup {Reject}
<1> DEFINE leads == Leads(PlanGroups(doc, edits))
           declares == Declares(doc, edits)
<1>1. DOMAIN leads = Defined(doc, edits) /\ DOMAIN declares = Defined(doc, edits)
  BY DEF Leads, PlanGroups, Declares
<1>2. ASSUME NEW c \in Defined(doc, edits)
      PROVE  leads[c] \subseteq declares[c] \cup {Reject}
  <2>1. leads[c] \subseteq {Selected(doc, edits, c)} \cup Members(doc, edits, c)
    BY DEF Leads, PlanGroups
  <2>2. Selected(doc, edits, c) \in Members(doc, edits, c)
    BY FirstIsAMember DEF TypeOK
  <2>3. Members(doc, edits, c) \subseteq declares[c] \cup {Reject}
    BY MembersExist DEF TypeOK
  <2> QED
    BY <2>1, <2>2, <2>3
<1> HIDE DEF leads, declares
<1>3. ExitsOf(leads, p) \subseteq ExitsOf(declares, p) \cup {Reject}
  BY <1>1, <1>2, FewerExits
<1> QED
  BY <1>3 DEF leads, declares

LEMMA RejectExits ==
    ASSUME NEW leads
    PROVE  ExitsOf(leads, Reject) \subseteq {Reject}
<1>1. Reject \notin Categories
  BY NamesAreApart DEF Builtins
<1> QED
  BY <1>1, OutboundsLeadNowhere DEF ExitsOf

LEMMA NothingLeaksFromTypes ==
    ASSUME TypeOK
    PROVE  NothingLeaks
<1> SUFFICES ASSUME CompilesNow PROVE NothingLeaks
  BY DEF NothingLeaks
<1> DEFINE groups == PlanGroups(doc, edits)
           plan == PlanRules(doc, edits)
           there == Builtins \cup Up \cup DOMAIN groups
           linked == [c \in DOMAIN groups |-> groups[c].members]
           declares == Declares(doc, edits)
<1>1. /\ DOMAIN groups = Defined(doc, edits)
      /\ \A c \in DOMAIN groups : /\ groups[c].first = Selected(doc, edits, c)
                                 /\ groups[c].members = Members(doc, edits, c)
  BY DEF PlanGroups
<1>2. \A x \in Range(plan) : x.policy \in there
  BY <1>1, RulesExist
<1>3. \A c \in DOMAIN groups : groups[c].first \in linked[c] /\ linked[c] \subseteq there
  <2> SUFFICES ASSUME NEW c \in DOMAIN groups
               PROVE  groups[c].first \in linked[c] /\ linked[c] \subseteq there
    OBVIOUS
  <2>1. Selected(doc, edits, c) \in Members(doc, edits, c)
    BY <1>1, FirstIsAMember DEF TypeOK
  <2>2. Members(doc, edits, c) \subseteq there
    BY <1>1, MembersExist DEF TypeOK
  <2> HIDE DEF groups, there
  <2> QED
    BY <1>1, <2>1, <2>2
<1>4. \A c \in DOMAIN groups : \A m \in linked[c] : c \notin Within(linked, m)
  <2>1. linked = [c \in Defined(doc, edits) |-> Members(doc, edits, c)]
    BY <1>1
  <2>2. ~OnCycle(Links(doc, edits)) /\ doc \in Documents
    BY DEF CompilesNow, Compiles, Sound, TypeOK
  <2> HIDE DEF linked, groups
  <2> QED
    BY <1>1, <2>1, <2>2, NoGroupLeadsBack
<1> DEFINE list == Listed(Local(doc, edits), Upstream(doc, edits, blocked))
<1>5. /\ DOMAIN list = DOMAIN Written /\ DOMAIN Written \subseteq {1, 2} \X Nat
      /\ \A p \in DOMAIN list : list[p].of = Written[p].of
                              /\ list[p].policy \in {Written[p].policy, Reject}
  BY RulesAsWritten
<1>6. plan = Final(list)
  BY DEF PlanRules
<1>7. EndsWithMatch(plan)
  <2> HIDE DEF list, plan
  <2> QED
    BY <1>5, <1>6, PlansEndWithMatch
<1>8. ASSUME NEW h \in Hosts \cup {Match}
      PROVE  ExitsOf(Leads(groups), First(plan, h))
                \subseteq ExitsOf(declares, First(Written, h)) \cup {Reject}
  <2>1. First(plan, h) \in {First(Written, h), Reject}
    <3> HIDE DEF list, plan
    <3> QED
      BY <1>5, <1>6, FirstAsWritten
  <2> QED
    BY <2>1, ExitsAreDeclared, RejectExits
<1> QED
  BY <1>2, <1>3, <1>4, <1>7, <1>8 DEF NothingLeaks

\* No traffic leaves where it was not meant to: whatever is edited, deleted, chosen,
\* lost or refreshed, a plan that compiles has only targets that exist and no cycle,
\* and what a host meets first leaves by an outbound that its rule as written
\* declares, or is rejected.
THEOREM NothingEverLeaks == Spec => []NothingLeaks
<1>1. TypeOK => NothingLeaks
  BY NothingLeaksFromTypes
<1> QED
  BY <1>1, PlanRowsAreTyped, PTL

-----------------------------------------------------------------------------
\* Name resolution.  The search of foreignPolicy shares what it has visited between
\* its branches.  What it answers is whether a node is reached from what is still to
\* be looked at by a way that avoids the visited groups; Reaches is that question,
\* with no search.

Reached(leads, todo, visited) ==
    {x \in Targets : \A S \in SUBSET Targets :
        todo \subseteq S /\ (\A c \in (S \cap DOMAIN leads) \ visited : leads[c] \subseteq S)
           => x \in S}

Reaches(leads, todo, visited) == \E n \in Nodes : n \in Reached(leads, todo, visited)

LEMMA NothingReachesNothing ==
    ASSUME NEW leads, NEW visited
    PROVE  ~Reaches(leads, {}, visited)
<1>1. {} \in SUBSET Targets
      /\ \A c \in ({} \cap DOMAIN leads) \ visited : leads[c] \subseteq {}
  OBVIOUS
<1>2. \A x \in Reached(leads, {}, visited) : x \in {}
  BY <1>1 DEF Reached
<1> QED
  BY <1>2 DEF Reaches

LEMMA NodesReachThemselves ==
    ASSUME NEW leads, NEW todo, NEW visited, NEW n \in Nodes, n \in todo
    PROVE  Reaches(leads, todo, visited)
  BY DEF Reaches, Reached, Targets

\* A policy that is neither a node nor a group that was not visited adds nothing.
LEMMA VisitedAddsNothing ==
    ASSUME NEW leads, NEW todo \in SUBSET Targets, NEW visited, NEW p \in todo,
           p \notin Nodes, p \in visited \/ p \notin DOMAIN leads
    PROVE  Reaches(leads, todo, visited) <=> Reaches(leads, todo \ {p}, visited)
<1>1. ASSUME NEW n \in Nodes, n \in Reached(leads, todo \ {p}, visited)
      PROVE  n \in Reached(leads, todo, visited)
  BY <1>1 DEF Reached
<1>2. ASSUME NEW n \in Nodes, n \in Reached(leads, todo, visited)
      PROVE  n \in Reached(leads, todo \ {p}, visited)
  <2> SUFFICES ASSUME NEW S \in SUBSET Targets, todo \ {p} \subseteq S,
                      \A c \in (S \cap DOMAIN leads) \ visited : leads[c] \subseteq S
               PROVE  n \in S
    BY <1>2 DEF Reached
  <2> DEFINE S1 == S \cup {p}
  <2>1. S1 \in SUBSET Targets /\ todo \subseteq S1
        /\ \A c \in (S1 \cap DOMAIN leads) \ visited : leads[c] \subseteq S1
    OBVIOUS
  <2>2. n \in S1
    <3> HIDE DEF S1
    <3> QED
      BY <1>2, <2>1 DEF Reached
  <2> QED
    BY <2>2
<1> QED
  BY <1>1, <1>2 DEF Reaches

\* A group that was not visited stands for what it leads to.
LEMMA GroupsLeadOn ==
    ASSUME NEW leads, NEW todo \in SUBSET Targets, NEW visited, NEW p \in todo,
           p \notin Nodes, p \in DOMAIN leads \ visited, leads[p] \subseteq Targets
    PROVE  Reaches(leads, todo, visited)
              <=> Reaches(leads, leads[p] \cup (todo \ {p}), visited \cup {p})
<1> DEFINE next == leads[p] \cup (todo \ {p})
<1>1. ASSUME NEW n \in Nodes, n \in Reached(leads, next, visited \cup {p})
      PROVE  n \in Reached(leads, todo, visited)
  <2> SUFFICES ASSUME NEW S \in SUBSET Targets, todo \subseteq S,
                      \A c \in (S \cap DOMAIN leads) \ visited : leads[c] \subseteq S
               PROVE  n \in S
    BY <1>1 DEF Reached
  <2>1. next \subseteq S
        /\ \A c \in (S \cap DOMAIN leads) \ (visited \cup {p}) : leads[c] \subseteq S
    OBVIOUS
  <2> HIDE DEF next
  <2> QED
    BY <1>1, <2>1 DEF Reached
<1>2. ASSUME NEW n \in Nodes, n \in Reached(leads, todo, visited)
      PROVE  n \in Reached(leads, next, visited \cup {p})
  <2> SUFFICES ASSUME NEW S \in SUBSET Targets, next \subseteq S,
                      \A c \in (S \cap DOMAIN leads) \ (visited \cup {p}) : leads[c] \subseteq S
               PROVE  n \in S
    BY <1>2 DEF Reached
  <2> DEFINE S1 == S \cup {p}
  <2>1. S1 \in SUBSET Targets /\ todo \subseteq S1
        /\ \A c \in (S1 \cap DOMAIN leads) \ visited : leads[c] \subseteq S1
    OBVIOUS
  <2>2. n \in S1
    <3> HIDE DEF S1
    <3> QED
      BY <1>2, <2>1 DEF Reached
  <2> QED
    BY <2>2
<1> QED
  BY <1>1, <1>2 DEF Reaches

-----------------------------------------------------------------------------
\* So the question has the recursion of the search, and the search answers it.

Answers(leads) ==
    [x \in (SUBSET Targets) \X (SUBSET Targets) |-> Reaches(leads, x[1], x[2])]

\* One step of the search, of answers f.
Step(leads, f, x) ==
    LET p == CHOOSE p \in x[1] : TRUE
        rest == x[1] \ {p}
        visited == x[2]
    IN /\ x[1] # {}
       /\ \/ p \in Nodes
          \/ /\ p \in visited \/ p \notin DOMAIN leads
             /\ f[<<rest, visited>>]
          \/ /\ p \in DOMAIN leads \ visited
             /\ f[<<leads[p] \cup rest, visited \cup {p}>>]

LEMMA AnswersStep ==
    ASSUME NEW leads, DOMAIN leads \subseteq Categories,
           \A c \in DOMAIN leads : leads[c] \subseteq Targets,
           NEW todo \in SUBSET Targets, NEW visited \in SUBSET Targets
    PROVE  Answers(leads)[<<todo, visited>>] <=> Step(leads, Answers(leads), <<todo, visited>>)
<1> DEFINE p == CHOOSE p \in todo : TRUE
           rest == todo \ {p}
           A(t, v) == Answers(leads)[<<t, v>>]
<1>1. \A t \in SUBSET Targets, v \in SUBSET Targets : A(t, v) <=> Reaches(leads, t, v)
  BY DEF Answers
<1>2. CASE todo = {}
  <2>1. ~A(todo, visited)
    BY <1>1, <1>2, NothingReachesNothing
  <2>2. ~Step(leads, Answers(leads), <<todo, visited>>)
    BY <1>2 DEF Step
  <2> QED
    BY <2>1, <2>2
<1>3. CASE todo # {}
  <2>1. p \in todo
    BY <1>3
  <2>2. Step(leads, Answers(leads), <<todo, visited>>)
           <=> \/ p \in Nodes
               \/ /\ p \in visited \/ p \notin DOMAIN leads
                  /\ A(rest, visited)
               \/ /\ p \in DOMAIN leads \ visited
                  /\ A(leads[p] \cup rest, visited \cup {p})
    BY <1>3 DEF Step
  <2>6. Answers(leads)[<<todo, visited>>] <=> A(todo, visited)
    OBVIOUS
  <2> HIDE DEF p, A
  <2>3. CASE p \in Nodes
    BY <1>1, <2>1, <2>2, <2>3, <2>6, NodesReachThemselves
  <2>4. CASE p \notin Nodes /\ (p \in visited \/ p \notin DOMAIN leads)
    <3>1. Reaches(leads, todo, visited) <=> Reaches(leads, rest, visited)
      BY <2>1, <2>4, VisitedAddsNothing
    <3> QED
      BY <1>1, <2>2, <2>4, <2>6, <3>1
  <2>5. CASE p \notin Nodes /\ p \in DOMAIN leads \ visited
    <3>1. leads[p] \cup rest \in SUBSET Targets /\ visited \cup {p} \in SUBSET Targets
      BY <2>1, <2>5
    <3>2. Reaches(leads, todo, visited) <=> Reaches(leads, leads[p] \cup rest, visited \cup {p})
      BY <2>1, <2>5, GroupsLeadOn
    <3> QED
      BY <1>1, <2>2, <2>5, <2>6, <3>1, <3>2
  <2> QED
    BY <2>3, <2>4, <2>5
<1> QED
  BY <1>2, <1>3

LEMMA SearchSteps ==
    ASSUME NEW groups, NEW leads, leads = Leads(groups), DOMAIN groups \subseteq Categories,
           \A c \in DOMAIN leads : leads[c] \subseteq Targets,
           NEW todo \in SUBSET Targets, NEW visited \in SUBSET Targets
    PROVE  Foreign(groups)[<<todo, visited>>] <=> Step(leads, Foreign(groups), <<todo, visited>>)
<1> DEFINE Pairs == (SUBSET Targets) \X (SUBSET Targets)
           Body(f, x) ==
              LET p == CHOOSE p \in x[1] : TRUE
                  rest == x[1] \ {p}
                  seen == x[2]
              IN /\ x[1] # {}
                 /\ \/ p \in Nodes
                    \/ /\ p \in seen \/ p \notin DOMAIN groups
                       /\ f[<<rest, seen>>]
                    \/ /\ p \in DOMAIN groups \ seen
                       /\ LET next == IF groups[p].kind = "select" THEN {groups[p].first}
                                      ELSE groups[p].members
                          IN f[<<next \cup rest, seen \cup {p}>>]
           Solves(f) == f = [x \in Pairs |-> Body(f, x)]
<1>1. DOMAIN leads = DOMAIN groups
      /\ \A c \in DOMAIN groups :
            leads[c] = IF groups[c].kind = "select" THEN {groups[c].first}
                       ELSE groups[c].members
  BY DEF Leads
<1>2. ASSUME NEW f, NEW x \in Pairs
      PROVE  Body(f, x) = Step(leads, f, x)
  BY <1>1 DEF Step
<1>3. Foreign(groups) = CHOOSE f : Solves(f)
  BY DEF Foreign
<1> HIDE DEF Body
<1>4. Solves(Answers(leads))
  <2>1. ASSUME NEW x \in Pairs
        PROVE  Answers(leads)[x] <=> Body(Answers(leads), x)
    <3>1. PICK t \in SUBSET Targets, v \in SUBSET Targets : x = <<t, v>>
      OBVIOUS
    <3>2. Answers(leads)[<<t, v>>] <=> Step(leads, Answers(leads), <<t, v>>)
      BY <1>1, AnswersStep
    <3> QED
      BY <1>2, <3>1, <3>2
  <2>2. ASSUME NEW x \in Pairs
        PROVE  Answers(leads)[x] = Body(Answers(leads), x)
    BY <2>1 DEF Answers, Body, Reaches
  <2>3. Answers(leads) = [x \in Pairs |-> Answers(leads)[x]]
    BY DEF Answers
  <2> QED
    BY <2>2, <2>3
<1>5. Solves(Foreign(groups))
  <2> HIDE DEF Solves
  <2> QED
    BY <1>3, <1>4
<1>6. <<todo, visited>> \in Pairs
  OBVIOUS
<1>7. Foreign(groups)[<<todo, visited>>] = Body(Foreign(groups), <<todo, visited>>)
  <2> HIDE DEF Pairs
  <2> QED
    BY <1>5, <1>6
<1> QED
  BY <1>2, <1>6, <1>7

\* The search ends: each step looks at one policy less or has visited one group more.
LEMMA SearchAnswers ==
    ASSUME NEW groups, NEW leads, leads = Leads(groups), DOMAIN groups \subseteq Categories,
           \A c \in DOMAIN leads : leads[c] \subseteq Targets,
           NEW todo \in SUBSET Targets, NEW visited \in SUBSET Targets
    PROVE  Foreign(groups)[<<todo, visited>>] <=> Reaches(leads, todo, visited)
<1> DEFINE Agree(t, v) == Foreign(groups)[<<t, v>>] <=> Answers(leads)[<<t, v>>]
           Doubtful == {v \in SUBSET Targets : \E t \in SUBSET Targets : ~Agree(t, v)}
<1>1. IsFiniteSet(Targets)
  <2>1. IsFiniteSet(Builtins)
    <3>1. IsFiniteSet({Direct}) /\ IsFiniteSet({Reject})
      BY FS_Singleton
    <3>2. IsFiniteSet({Direct} \cup {Reject})
      BY <3>1, FS_Union
    <3>3. Builtins = {Direct} \cup {Reject}
      BY DEF Builtins
    <3> QED
      BY <3>2, <3>3
  <2> QED
    <3>1. IsFiniteSet(Categories \cup Nodes)
      BY RoutingPlanAssumption, FS_Union
    <3>2. IsFiniteSet((Categories \cup Nodes) \cup Builtins)
      BY <2>1, <3>1, FS_Union
    <3> QED
      BY <3>2 DEF Targets
<1>2. Doubtful = {}
  <2> SUFFICES ASSUME Doubtful # {} PROVE FALSE
    OBVIOUS
  <2>1. PICK v \in Doubtful : \A w \in Doubtful : v \subseteq w => w = v
    <3>1. Doubtful \subseteq SUBSET Targets
      OBVIOUS
    <3> HIDE DEF Doubtful
    <3> QED
      BY <1>1, <3>1, LargestSubset
  <2> DEFINE Open == {t \in SUBSET Targets : ~Agree(t, v)}
  <2>2. PICK t \in Open : \A u \in Open : u \subseteq t => u = t
    <3>1. Open \subseteq SUBSET Targets /\ Open # {}
      BY <2>1
    <3> HIDE DEF Open
    <3> QED
      BY <1>1, <3>1, SmallestSubset
  <2>3. v \in SUBSET Targets /\ t \in SUBSET Targets /\ ~Agree(t, v)
    BY <2>1, <2>2
  <2>4. Foreign(groups)[<<t, v>>] <=> Step(leads, Foreign(groups), <<t, v>>)
    BY <2>3, SearchSteps
  <2>5. Answers(leads)[<<t, v>>] <=> Step(leads, Answers(leads), <<t, v>>)
    BY <2>3, AnswersStep DEF Leads
  <2> DEFINE p == CHOOSE p \in t : TRUE
  <2>6. CASE t = {}
    BY <2>3, <2>4, <2>5, <2>6 DEF Step
  <2>7. CASE t # {} /\ p \in Nodes
    BY <2>3, <2>4, <2>5, <2>7 DEF Step
  <2>8. CASE t # {} /\ p \notin Nodes /\ (p \in v \/ p \notin DOMAIN leads)
    <3>1. p \in t
      BY <2>8
    <3>2. Agree(t \ {p}, v)
      <4> HIDE DEF Agree, p
      <4> QED
        BY <2>2, <2>3, <3>1
    <3>3. Step(leads, Foreign(groups), <<t, v>>) <=> Foreign(groups)[<<t \ {p}, v>>]
      BY <2>8 DEF Step
    <3>4. Step(leads, Answers(leads), <<t, v>>) <=> Answers(leads)[<<t \ {p}, v>>]
      BY <2>8 DEF Step
    <3> QED
      BY <2>3, <2>4, <2>5, <3>2, <3>3, <3>4
  <2>9. CASE t # {} /\ p \notin Nodes /\ p \in DOMAIN leads \ v
    <3> DEFINE next == leads[p] \cup (t \ {p})
    <3>1. p \in t
      BY <2>9
    <3>2. next \in SUBSET Targets /\ v \cup {p} \in SUBSET Targets
      <4> HIDE DEF p
      <4> QED
        BY <2>3, <2>9, <3>1
    <3>3. Agree(next, v \cup {p})
      <4> HIDE DEF Agree, p, next
      <4> QED
        BY <2>1, <2>9, <3>2
    <3>4. Step(leads, Foreign(groups), <<t, v>>) <=> Foreign(groups)[<<next, v \cup {p}>>]
      BY <2>9 DEF Step
    <3>5. Step(leads, Answers(leads), <<t, v>>) <=> Answers(leads)[<<next, v \cup {p}>>]
      BY <2>9 DEF Step
    <3> QED
      BY <2>3, <2>4, <2>5, <3>3, <3>4, <3>5
  <2> QED
    BY <2>6, <2>7, <2>8, <2>9
<1>3. Agree(todo, visited)
  BY <1>2
<1> QED
  BY <1>3 DEF Answers

\* What is reached from a policy are the exits that it leads to.
LEMMA ExitsAreReached ==
    ASSUME NEW leads, DOMAIN leads \subseteq Categories,
           \A c \in DOMAIN leads : leads[c] \subseteq Targets,
           NEW p \in Targets
    PROVE  Reaches(leads, {p}, {}) <=> ExitsOf(leads, p) \cap Nodes # {}
<1>1. ASSUME NEW n \in Nodes, n \in ExitsOf(leads, p)
      PROVE  n \in Reached(leads, {p}, {})
  <2> SUFFICES ASSUME NEW S \in SUBSET Targets, {p} \subseteq S,
                      \A c \in (S \cap DOMAIN leads) \ {} : leads[c] \subseteq S
               PROVE  n \in S
    BY DEF Reached, Targets
  <2> DEFINE T == S \cap Categories
  <2>1. T \in SUBSET Categories /\ {p} \cap Categories \subseteq T
        /\ \A c \in T \cap DOMAIN leads : leads[c] \cap Categories \subseteq T
    OBVIOUS
  <2>2. Within(leads, p) \subseteq T
    <3> HIDE DEF T
    <3> QED
      BY <2>1, WithinIsLeast
  <2> QED
    BY <1>1, <2>2 DEF ExitsOf
<1>2. ASSUME NEW n \in Nodes, n \in Reached(leads, {p}, {})
      PROVE  n \in ExitsOf(leads, p)
  <2> DEFINE S == {p} \cup Within(leads, p)
                  \cup UNION {leads[c] : c \in Within(leads, p) \cap DOMAIN leads}
  <2>1. S \in SUBSET Targets
    BY DEF Within, Targets
  <2>2. ASSUME NEW c \in S \cap DOMAIN leads
        PROVE  leads[c] \subseteq S
    <3>1. c \in Categories
      OBVIOUS
    <3>2. c \in Within(leads, p)
      <4>1. CASE c = p
        BY <3>1, <4>1, WithinHasItself
      <4>2. ASSUME NEW x \in Within(leads, p) \cap DOMAIN leads, c \in leads[x]
            PROVE  c \in Within(leads, p)
        BY <3>1, <4>2, WithinIsClosed
      <4> QED
        BY <4>1, <4>2
    <3> QED
      BY <3>2
  <2>3. n \in S
    <3> HIDE DEF S
    <3>1. {p} \subseteq S
      BY DEF S
    <3> QED
      BY <1>2, <2>1, <2>2, <3>1 DEF Reached
  <2>4. n \notin Categories /\ Within(leads, p) \subseteq Categories
    BY NamesAreApart DEF Within
  <2> QED
    BY <2>3, <2>4 DEF ExitsOf
<1> QED
  BY <1>1, <1>2 DEF Reaches

\* So foreignPolicy says whether the traffic of a policy goes abroad.
LEMMA ForeignIsAbroad ==
    ASSUME TypeOK, NEW p \in Targets
    PROVE  IsForeign(PlanGroups(doc, edits), p)
              <=> ExitsOf(Leads(PlanGroups(doc, edits)), p) \cap Nodes # {}
<1> DEFINE groups == PlanGroups(doc, edits)
           leads == Leads(groups)
<1>1. DOMAIN groups \subseteq Categories /\ DOMAIN leads = DOMAIN groups
  BY DefinedAreCategories DEF PlanGroups, Leads, TypeOK
<1>2. ASSUME NEW c \in DOMAIN leads
      PROVE  leads[c] \subseteq Targets
  <2>1. c \in Defined(doc, edits)
    BY DEF PlanGroups, Leads
  <2>2. leads[c] \subseteq {Selected(doc, edits, c)} \cup Members(doc, edits, c)
    BY <2>1 DEF Leads, PlanGroups
  <2>3. Selected(doc, edits, c) \in Members(doc, edits, c)
    BY <2>1, FirstIsAMember DEF TypeOK
  <2>4. Members(doc, edits, c) \subseteq Targets
    BY MembersAreTargets DEF TypeOK
  <2> QED
    BY <2>2, <2>3, <2>4
<1> HIDE DEF groups
<1>3. Foreign(groups)[<<{p}, {}>>] <=> Reaches(leads, {p}, {})
  <2>1. {p} \in SUBSET Targets /\ {} \in SUBSET Targets
    OBVIOUS
  <2> QED
    BY <1>1, <1>2, <2>1, SearchAnswers
<1>4. Reaches(leads, {p}, {}) <=> ExitsOf(leads, p) \cap Nodes # {}
  <2> HIDE DEF leads
  <2> QED
    BY <1>1, <1>2, ExitsAreReached
<1> QED
  BY <1>3, <1>4 DEF IsForeign, groups

\* A local rule leads to a group or a built-in outbound, never to a node: those are
\* the policies an editor is offered.
NoNodePolicies == \A s \in Slots : rules[s] # Missing => rules[s].policy \notin Nodes

LEMMA NoRuleNamesANode == Spec => []NoNodePolicies
<1>1. Init => NoNodePolicies
  BY DEF Init, NoNodePolicies
<1>2. ASSUME TypeOK, NoNodePolicies, [Next]_vars
      PROVE  NoNodePolicies'
  <2>1. CASE \E from \in Slots \cup {Missing}, s \in Slots : SaveCategoryRule(from, s)
    <3>1. PICK from \in Slots \cup {Missing}, s \in Slots : SaveCategoryRule(from, s)
      BY <2>1
    <3>2. PolicyOptions \cap Nodes = {}
      BY <1>2, DefinedAreCategories, NamesAreApart DEF PolicyOptions, TypeOK
    <3>3. PICK policy \in PolicyOptions, h \in Hosts, on \in BOOLEAN :
             rules' = [t \in Slots |->
                         IF t = s THEN [of |-> h, policy |-> policy, enabled |-> on]
                         ELSE IF t = from THEN Missing
                         ELSE rules[t]]
      BY <3>1 DEF SaveCategoryRule
    <3> QED
      BY <1>2, <3>2, <3>3 DEF NoNodePolicies
  <2>2. CASE \E s \in Slots : DeleteCategoryRule(s)
    BY <1>2, <2>2 DEF DeleteCategoryRule, NoNodePolicies, TypeOK
  <2>3. CASE EditCategories
    <3>1. PICK c \in Categories : UNCHANGED rules \/ WithRule(c)
      BY <2>3 DEF EditCategories, SaveCategory, DeleteCategory, RestoreDeleted,
         RestoreDefinition, SaveSelection
    <3>2. CASE UNCHANGED rules
      BY <1>2, <3>2 DEF NoNodePolicies
    <3>3. CASE \E s \in Slots, h \in Hosts \ Geo :
                  rules' = [rules EXCEPT ![s] = [of |-> h, policy |-> c, enabled |-> TRUE]]
      <4>1. PICK s \in Slots, h \in Hosts \ Geo :
               rules' = [rules EXCEPT ![s] = [of |-> h, policy |-> c, enabled |-> TRUE]]
        BY <3>3
      <4>2. c \notin Nodes
        BY NamesAreApart
      <4> QED
        BY <1>2, <4>1, <4>2 DEF NoNodePolicies, TypeOK
    <3> QED
      BY <3>1, <3>2, <3>3 DEF WithRule
  <2>4. CASE UNCHANGED rules
    BY <1>2, <2>4 DEF NoNodePolicies
  <2> QED
    BY <1>2, <2>1, <2>2, <2>3, <2>4 DEF Next, EditRules, BlockRoutingRule, Unblock, SaveRouting,
       Refresh, NodeChanges, vars
<1> QED
  BY <1>1, <1>2, PlanRowsAreTyped, PTL DEF Spec

\* The only local rule in force for a host takes its traffic.
LEMMA OnlyRuleComesFirst ==
    ASSUME TypeOK, NEW h \in Hosts, NEW s \in Slots, Enabled(edits, s), rules[s].of = h,
           \A t \in Slots : Enabled(edits, t) /\ rules[t].of = h => t = s
    PROVE  First(PlanRules(doc, edits), h) = Local(doc, edits)[s].policy
<1> DEFINE local == Local(doc, edits)
           upstream == Upstream(doc, edits, blocked)
           list == Listed(local, upstream)
           plan == Final(list)
           at == {p \in DOMAIN plan : plan[p].of \in {h, Match}}
           place == <<1, s>>
<1>1. DOMAIN list = DOMAIN Written /\ DOMAIN Written \subseteq {1, 2} \X Nat
  BY RulesAsWritten
<1>2. s \in DOMAIN local
      /\ \A t \in DOMAIN local : t \in Slots /\ Enabled(edits, t) /\ local[t].of = rules[t].of
  BY DEF Local
<1>3. \A t \in DOMAIN local : local[t].of \in {h, Match} <=> t = s
  <2>1. \A t \in DOMAIN local : rules[t].of \in Hosts
    BY <1>2 DEF TypeOK, Enabled, LocalRules
  <2> HIDE DEF local
  <2> QED
    BY <1>2, <2>1, RoutingPlanAssumption
<1>4. DOMAIN list = ({1} \X DOMAIN local) \cup ({2} \X DOMAIN upstream)
      /\ \A t \in DOMAIN local : list[<<1, t>>] = local[t]
  <2> HIDE DEF local, upstream
  <2> QED
    BY DEF Listed
<1>5. /\ DOMAIN list \subseteq DOMAIN plan /\ DOMAIN plan \subseteq DOMAIN list \cup {End}
      /\ \A p \in DOMAIN list : plan[p] = list[p]
  <2>1. End \notin DOMAIN list
    BY <1>1 DEF End
  <2> HIDE DEF list
  <2> QED
    BY <2>1 DEF Final
<1> HIDE DEF local, upstream, list, plan
<1>6. place \in DOMAIN plan /\ plan[place] = local[s]
  BY <1>2, <1>4, <1>5
<1>7. place \in at
  BY <1>2, <1>3, <1>6
<1>8. ASSUME NEW q \in at \ {place}
      PROVE  Before(place, q)
  <2>1. CASE q = End
    BY <2>1 DEF Before, End
  <2>2. CASE q \in {2} \X DOMAIN upstream
    BY <2>2 DEF Before
  <2>3. CASE q \in {1} \X DOMAIN local
    <3>1. PICK t \in DOMAIN local : q = <<1, t>>
      BY <2>3
    <3>2. plan[q] = local[t]
      BY <1>4, <1>5, <3>1
    <3>3. t = s
      BY <1>3, <3>2
    <3> QED
      BY <3>1, <3>3
  <2> QED
    BY <1>4, <1>5, <2>1, <2>2, <2>3
<1>9. (CHOOSE x \in at : \A q \in at \ {x} : Before(x, q)) = place
  <2>1. at \subseteq Nat \X Nat
    BY <1>1, <1>5 DEF End
  <2> HIDE DEF at, place
  <2> QED
    BY <1>7, <1>8, <2>1, FirstPlaceIsUnique
<1>10. First(plan, h) = plan[place].policy
  BY <1>7, <1>9 DEF First
<1>11. PlanRules(doc, edits) = plan
  BY DEF PlanRules, plan, list, local, upstream
<1> QED
  BY <1>6, <1>10, <1>11 DEF local

\* A group that is not in the plan has no exit.
LEMMA MissingGroupsLeadNowhere ==
    ASSUME NEW leads, NEW p \in Categories \ DOMAIN leads
    PROVE  ExitsOf(leads, p) = {}
<1> DEFINE S == {p}
<1>1. S \in SUBSET Categories /\ {p} \cap Categories \subseteq S
      /\ \A c \in S \cap DOMAIN leads : leads[c] \cap Categories \subseteq S
  OBVIOUS
<1>2. Within(leads, p) \subseteq S
  <2> HIDE DEF S
  <2> QED
    BY <1>1, WithinIsLeast
<1> QED
  BY <1>2 DEF ExitsOf

\* The resolver of a host with one local rule in force is that of its traffic.
LEMMA DomainsFollow ==
    ASSUME TypeOK, NoNodePolicies, NEW h \in Hosts,
           Cardinality({s \in Slots : Enabled(edits, s) /\ rules[s].of = h}) = 1
    PROVE  DomainForeign(doc, edits, h)
              <=> ExitsOf(Leads(PlanGroups(doc, edits)), First(PlanRules(doc, edits), h))
                     \cap Nodes # {}
<1> DEFINE mine == {s \in Slots : Enabled(edits, s) /\ rules[s].of = h}
           leads == Leads(PlanGroups(doc, edits))
<1>1. PICK s : mine = {s}
  <2>1. IsFiniteSet(mine)
    BY RoutingPlanAssumption, FS_Subset
  <2> HIDE DEF mine
  <2> QED
    BY <2>1, FS_Singleton DEF mine
<1>2. /\ s \in Slots /\ Enabled(edits, s) /\ rules[s].of = h
      /\ \A t \in Slots : Enabled(edits, t) /\ rules[t].of = h => t = s
  BY <1>1
<1>3. rules[s].policy \in Targets /\ rules[s].policy \notin Nodes
  BY <1>2 DEF Enabled, TypeOK, NoNodePolicies, LocalRules
<1>4. DomainForeign(doc, edits, h) <=> IsForeign(PlanGroups(doc, edits), rules[s].policy)
  <2>1. (CHOOSE x \in Slots :
            /\ Enabled(edits, x) /\ rules[x].of = h
            /\ \A t \in Slots : Enabled(edits, t) /\ rules[t].of = h => t <= x) = s
    <3>1. s \in Nat
      BY <1>2, RoutingPlanAssumption
    <3>2. \A t \in Slots : Enabled(edits, t) /\ rules[t].of = h => t <= s
      BY <1>2, <3>1
    <3> QED
      BY <1>2, <3>2
  <2> QED
    BY <2>1 DEF DomainForeign
<1>5. IsForeign(PlanGroups(doc, edits), rules[s].policy)
         <=> ExitsOf(leads, rules[s].policy) \cap Nodes # {}
  BY <1>3, ForeignIsAbroad
<1>6. First(PlanRules(doc, edits), h) = Local(doc, edits)[s].policy
  BY <1>2, OnlyRuleComesFirst
<1>7. CASE rules[s].policy \in Known(doc, edits)
  <2>1. Local(doc, edits)[s].policy = rules[s].policy
    BY <1>2, <1>7 DEF Local
  <2> QED
    BY <1>4, <1>5, <1>6, <2>1
<1>8. CASE rules[s].policy \notin Known(doc, edits)
  <2>1. Local(doc, edits)[s].policy = Reject
    BY <1>2, <1>3, <1>8 DEF Local, Up
  <2>2. ExitsOf(leads, Reject) \cap Nodes = {}
    BY RejectExits, NamesAreApart DEF Builtins
  <2>3. ExitsOf(leads, rules[s].policy) \cap Nodes = {}
    <3>1. rules[s].policy \in Categories \ DOMAIN leads
      BY <1>3, <1>8 DEF Targets, Known, Leads, PlanGroups
    <3> HIDE DEF leads
    <3>2. ExitsOf(leads, rules[s].policy) = {}
      BY <3>1, MissingGroupsLeadNowhere
    <3> QED
      BY <3>2
  <2> QED
    BY <1>4, <1>5, <1>6, <2>1, <2>2, <2>3
<1> QED
  BY <1>7, <1>8

\* Without a local rule for a host its traffic is taken by a rule of the document for it,
\* if there is one: a rule for everything is the last.
LEMMA UpstreamComesFirst ==
    ASSUME TypeOK, NEW h \in Hosts, LocalOf(h) = {}, UpstreamOf(h) # {}
    PROVE  \E i \in UpstreamOf(h) :
              First(PlanRules(doc, edits), h) = Upstream(doc, edits, blocked)[i].policy
<1> DEFINE local == Local(doc, edits)
           upstream == Upstream(doc, edits, blocked)
           list == Listed(local, upstream)
           plan == Final(list)
           at == {p \in DOMAIN plan : plan[p].of \in {h, Match}}
           place == CHOOSE p \in at : \A q \in at \ {p} : Before(p, q)
<1>1. DOMAIN list = DOMAIN Written /\ DOMAIN Written \subseteq {1, 2} \X Nat
  BY RulesAsWritten
<1>2. \A t \in DOMAIN local : local[t].of \notin {h, Match}
  <2>1. \A t \in DOMAIN local : t \in Slots /\ Enabled(edits, t) /\ local[t].of = rules[t].of
    BY DEF Local
  <2>2. \A t \in DOMAIN local : rules[t].of \in Hosts
    BY <2>1 DEF TypeOK, Enabled, LocalRules
  <2> HIDE DEF local
  <2> QED
    BY <2>1, <2>2, RoutingPlanAssumption DEF LocalOf
<1>3. DOMAIN upstream = Kept(doc, edits, blocked)
      /\ \A i \in DOMAIN upstream : i \in DOMAIN doc.rules /\ upstream[i].of = doc.rules[i].of
  <2>1. ASSUME NEW i \in DOMAIN upstream
        PROVE  i \in DOMAIN doc.rules /\ upstream[i].of = doc.rules[i].of
    <3>1. i \in DOMAIN doc.rules /\ upstream[i] = NodeGone(doc.rules[i])
      BY DEF Upstream, Kept
    <3>2. doc.rules[i] \in Rule
      BY <3>1, DocumentsAreDocuments DEF TypeOK
    <3> QED
      BY <3>1, <3>2 DEF NodeGone, Rule
  <2> QED
    BY <2>1 DEF Upstream
<1>4. /\ DOMAIN list = ({1} \X DOMAIN local) \cup ({2} \X DOMAIN upstream)
      /\ \A t \in DOMAIN local : list[<<1, t>>] = local[t]
      /\ \A i \in DOMAIN upstream : list[<<2, i>>] = upstream[i]
  <2> HIDE DEF local, upstream
  <2> QED
    BY DEF Listed
<1>5. /\ DOMAIN list \subseteq DOMAIN plan /\ DOMAIN plan \subseteq DOMAIN list \cup {End}
      /\ \A p \in DOMAIN list : plan[p] = list[p]
  <2>1. End \notin DOMAIN list
    BY <1>1 DEF End
  <2> HIDE DEF list
  <2> QED
    BY <2>1 DEF Final
<1> HIDE DEF local, upstream, list, plan
<1>6. PICK i \in DOMAIN upstream : upstream[i].of = h
  BY <1>3 DEF UpstreamOf
<1>7. <<2, i>> \in at /\ i \in Nat
  BY <1>1, <1>4, <1>5, <1>6
<1>8. place \in at /\ \A q \in at \ {place} : Before(place, q)
  <2>1. at \subseteq Nat \X Nat /\ at # {}
    BY <1>1, <1>5, <1>7 DEF End
  <2> HIDE DEF at
  <2> QED
    BY <2>1, FirstPlaceExists
<1> HIDE DEF place
<1>9. place \in {2} \X DOMAIN upstream
  <2>1. place # End
    BY <1>7, <1>8 DEF Before, End
  <2>2. place \notin {1} \X DOMAIN local
    BY <1>2, <1>4, <1>5, <1>8
  <2> QED
    BY <1>4, <1>5, <1>8, <2>1, <2>2
<1>10. PICK j \in DOMAIN upstream : place = <<2, j>>
  BY <1>9
<1>11. plan[place] = upstream[j] /\ upstream[j].of \in {h, Match} /\ j \in Nat
  BY <1>1, <1>4, <1>5, <1>8, <1>10
<1>12. upstream[j].of = h
  <2> SUFFICES ASSUME upstream[j].of = Match PROVE FALSE
    BY <1>11
  <2>1. IsDocument(doc)
    BY RoutingPlanAssumption DEF TypeOK
  <2>2. doc.rules \in Seq(Rule) /\ j = Len(doc.rules)
    BY <1>3, <2>1 DEF IsDocument
  <2>3. i \in 1..j
    BY <1>3, <2>2
  <2>4. i # j
    BY <1>6, RoutingPlanAssumption
  <2>5. Before(<<2, j>>, <<2, i>>)
    BY <1>7, <1>8, <1>10, <2>4
  <2> QED
    BY <1>7, <1>11, <2>3, <2>5 DEF Before
<1>13. j \in UpstreamOf(h)
  BY <1>3, <1>12 DEF UpstreamOf
<1>14. First(plan, h) = plan[place].policy
  BY <1>7 DEF First, place
<1>15. PlanRules(doc, edits) = plan
  BY DEF PlanRules, plan, list, local, upstream
<1> QED
  BY <1>11, <1>13, <1>14, <1>15 DEF upstream

\* The rule sets resolved abroad, by their places.
LEMMA SetsByPlaces ==
    ASSUME TypeOK, NEW h \in Hosts \ Geo
    PROVE  h \in ForeignSets(doc, edits)
              <=> \E i \in UpstreamOf(h) :
                     ExitsOf(Leads(PlanGroups(doc, edits)),
                             Upstream(doc, edits, blocked)[i].policy) \cap Nodes # {}
<1> DEFINE upstream == Upstream(doc, edits, blocked)
           groups == PlanGroups(doc, edits)
<1>1. h \notin Geo \cup {Match}
  BY RoutingPlanAssumption
<1>2. h \in ForeignSets(doc, edits)
         <=> \E i \in DOMAIN upstream : upstream[i].of = h /\ IsForeign(groups, upstream[i].policy)
  <2> HIDE DEF upstream, groups
  <2>1. h \in {r.of : r \in {x \in Range(upstream) :
                               x.of \notin Geo \cup {Match} /\ IsForeign(groups, x.policy)}}
           <=> \E i \in DOMAIN upstream :
                  upstream[i].of = h /\ IsForeign(groups, upstream[i].policy)
    BY <1>1 DEF Range
  <2> QED
    BY <2>1 DEF ForeignSets, upstream, groups
<1>3. ASSUME NEW i \in DOMAIN upstream
      PROVE  /\ upstream[i].of = doc.rules[i].of /\ i \in Kept(doc, edits, blocked)
             /\ upstream[i].policy \in Targets
  <2>1. i \in Kept(doc, edits, blocked) /\ i \in DOMAIN doc.rules
        /\ upstream[i] = NodeGone(doc.rules[i])
    BY DEF Upstream, Kept
  <2>2. doc.rules[i] \in Rule
    BY <2>1, DocumentsAreDocuments DEF TypeOK
  <2> QED
    BY <2>1, <2>2 DEF NodeGone, Rule, Targets, Builtins
<1>4. \A i \in DOMAIN upstream :
         IsForeign(groups, upstream[i].policy)
            <=> ExitsOf(Leads(groups), upstream[i].policy) \cap Nodes # {}
  BY <1>3, ForeignIsAbroad
<1>5. DOMAIN upstream = Kept(doc, edits, blocked)
  BY DEF Upstream
<1> HIDE DEF upstream, groups
<1>6. \A i : i \in UpstreamOf(h) <=> i \in DOMAIN upstream /\ upstream[i].of = h
  BY <1>3, <1>5 DEF UpstreamOf
<1> QED
  BY <1>2, <1>4, <1>6 DEF upstream, groups

LEMMA DnsFollowsFromTypes ==
    ASSUME TypeOK, NoNodePolicies
    PROVE  DnsFollowsTraffic
<1> DEFINE upstream == Upstream(doc, edits, blocked)
           Abroad(p) == ExitsOf(Leads(PlanGroups(doc, edits)), p) \cap Nodes # {}
           first(h) == First(PlanRules(doc, edits), h)
<1>1. ASSUME NEW h \in Hosts \ Geo, LocalOf(h) = {}, UpstreamOf(h) # {}
      PROVE  /\ Abroad(first(h)) => h \in ForeignSets(doc, edits)
             /\ h \in ForeignSets(doc, edits) /\ Cardinality(UpstreamOf(h)) = 1
                   => Abroad(first(h))
  <2>1. PICK i \in UpstreamOf(h) : first(h) = upstream[i].policy
    BY <1>1, UpstreamComesFirst
  <2>2. h \in ForeignSets(doc, edits) <=> \E j \in UpstreamOf(h) : Abroad(upstream[j].policy)
    BY SetsByPlaces
  <2>3. ASSUME Cardinality(UpstreamOf(h)) = 1
        PROVE  UpstreamOf(h) = {i}
    <3>1. UpstreamOf(h) \subseteq DOMAIN doc.rules
      BY DEF UpstreamOf, Kept
    <3>2. IsDocument(doc)
      BY RoutingPlanAssumption DEF TypeOK
    <3>3. doc.rules \in Seq(Rule)
      BY <3>2 DEF IsDocument
    <3>4. IsFiniteSet(UpstreamOf(h))
      BY <3>1, <3>3, FS_Interval, FS_Subset
    <3>5. \E x : UpstreamOf(h) = {x}
      BY <2>3, <3>4, FS_Singleton
    <3> QED
      BY <3>5
  <2> HIDE DEF Abroad, first, upstream
  <2> QED
    BY <2>1, <2>2, <2>3
<1>2. ASSUME NEW h \in Hosts, Cardinality(LocalOf(h)) = 1
      PROVE  DomainForeign(doc, edits, h) <=> Abroad(first(h))
  BY <1>2, DomainsFollow DEF LocalOf
<1> QED
  BY <1>1, <1>2 DEF DnsFollowsTraffic

\* Names are resolved abroad exactly if their traffic goes abroad, after every choice,
\* edit and loss of a node: the rule sets of a document, and a host with one local
\* rule in force.
THEOREM DnsAlwaysFollowsTraffic == Spec => []DnsFollowsTraffic
<1>1. TypeOK /\ NoNodePolicies => DnsFollowsTraffic
  BY DnsFollowsFromTypes
<1> QED
  BY <1>1, PlanRowsAreTyped, NoRuleNamesANode, PTL
=============================================================================
