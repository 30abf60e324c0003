--------------------------- MODULE MCRoutingPlan ----------------------------
(***************************************************************************)
(* An instance of RoutingPlan for TLC: two categories that documents have  *)
(* and two local ones, of which a plan can have three; a node, a host and  *)
(* one of GEO data.  The documents differ in what an edit can meet: a      *)
(* chain of categories, the opposite chain with a GEO rule, a category and *)
(* a node that vanish, with a DNS that names GEO data.                     *)
(***************************************************************************)
EXTENDS RoutingPlan

CONSTANTS A, B, L, M, n, h, cn

Group(kind, members, all) == [kind |-> kind, members |-> members, all |-> all]
To(of, policy) == [of |-> of, policy |-> policy]

MCDocuments == {
    [groups |-> (A :> Group("select", <<B, n>>, FALSE)) @@ (B :> Group("auto", <<>>, TRUE)),
     rules |-> <<To(h, n), To(Match, A)>>, dns |-> "own"],
    [groups |-> (A :> Group("auto", <<Direct, n>>, FALSE)) @@ (B :> Group("select", <<A>>, FALSE)),
     rules |-> <<To(cn, A), To(h, Direct), To(h, B)>>, dns |-> "own"],
    [groups |-> A :> Group("select", <<Direct>>, TRUE),
     rules |-> <<To(h, A), To(Match, Direct)>>, dns |-> "geosite"] }

MCLists ==
    {[members |-> s, all |-> FALSE] : s \in {<<A>>, <<Direct>>, <<n, B>>}}
    \cup {[members |-> <<>>, all |-> TRUE]}

\* Neither a document nor a list names a local category.
Symmetry == Permutations({L, M})
=============================================================================
