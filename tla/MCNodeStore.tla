---------------------------- MODULE MCNodeStore -----------------------------
(***************************************************************************)
(* An instance of NodeStore for TLC: three names and identifiers, so that  *)
(* two nodes of one content can both lose their names to a third, one      *)
(* subscription with two addresses and two calls, one listener.            *)
(***************************************************************************)
EXTENDS NodeStore, TLC

CONSTANTS a, b, c3

MCRank == (a :> 1) @@ (b :> 2) @@ (c3 :> 3)

Symmetry == Permutations(NodeIds) \cup Permutations(Identities)
            \cup Permutations(Urls) \cup Permutations(Calls)

\* Bounds: a download is under way only while few nodes are stored, since what it
\* meets is the subscription and not their number; the rule engine, which refers to
\* no node, is exercised with one node and no download.
InFlight == \E c \in Calls : call[c].pc # "idle"
AtMost(k) == Cardinality({i \in NodeIds : Stored(i)}) <= k

RuleUsed == ~routing \/ \E p \in Ports : listeners[p] # Missing
                                      /\ listeners[p].mode = "rule"

Few ==
    /\ InFlight => AtMost(2)
    /\ RuleUsed => AtMost(1) /\ ~InFlight
=============================================================================
