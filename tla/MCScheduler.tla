---------------------------- MODULE MCScheduler ----------------------------
(* Instances of Scheduler: graphs as a user builds them with the API.      *)
EXTENDS Scheduler, SequencesExt

MCNodes == {"start", "end", "a", "b", "d", "c", "c2", "v", "w"}

(* The graph with the given successors (in the order of the AddEdge calls  *)
(* of each node); predecessors are listed in the order of the nodes below. *)
(* c and c2, where used, are conditional nodes, v and w virtual nodes.     *)
NodeOrder == <<"a", "b", "d", "c", "c2", "v", "w">>

Occurrences(s, x) == Len(SelectSeq(s, LAMBDA y : y = x))

PrevOf(succ, m) == FlattenSeq([i \in DOMAIN NodeOrder |->
    [j \in 1..Occurrences(succ[NodeOrder[i]], m) |-> NodeOrder[i]]])

KindOf(succ, n) ==
    CASE succ[n] = <<>>     -> "normal"
      [] n \in {"c", "c2"} -> "conditional"
      [] n \in {"v", "w"}  -> "virtual"
      [] OTHER             -> "normal"

Build(edges) ==
    LET succ == [n \in MCNodes |-> IF n \in DOMAIN edges THEN edges[n] ELSE <<>>]
    IN  [next |-> succ,
         prev |-> [m \in MCNodes |-> PrevOf(succ, m)],
         kind |-> [n \in MCNodes |-> KindOf(succ, n)],
         registered |-> {n \in MCNodes : KindOf(succ, n) # "conditional"},
         runs |-> 1]

(* A Scheduler whose owner calls Run again. *)
Twice(g) == [g EXCEPT !.runs = 2]

Fork     == Build([start |-> <<"a">>, a |-> <<"b", "d">>, b |-> <<"end">>, d |-> <<"end">>])
Join     == Build([start |-> <<"a", "b">>, a |-> <<"d">>, b |-> <<"d">>, d |-> <<"end">>])
Doubled  == Build([start |-> <<"a">>, a |-> <<"b", "b">>, b |-> <<"end">>])
Dangling == Build([start |-> <<"a", "b">>, a |-> <<"end">>, b |-> <<"d">>])
Branch   == Build([start |-> <<"c">>, c |-> <<"v", "w">>, v |-> <<"a">>, w |-> <<"b">>,
                   a |-> <<"end">>, b |-> <<"end">>])
Merge    == Build([start |-> <<"c", "b">>, c |-> <<"v", "w">>, v |-> <<"a">>, w |-> <<"a">>,
                   a |-> <<"d">>, b |-> <<"d">>, d |-> <<"end">>])
SkipFork == Build([start |-> <<"c">>, c |-> <<"v">>, v |-> <<"a">>, a |-> <<"b", "d">>,
                   b |-> <<"end">>, d |-> <<"end">>])
Nested   == Build([start |-> <<"c", "b">>, c |-> <<"v">>, v |-> <<"c2">>, c2 |-> <<"w">>,
                   w |-> <<"a">>, a |-> <<"end">>, b |-> <<"end">>])

PlainGraphs == {Twice(g) : g \in {Fork, Join, Doubled, Dangling}}

(* Every graph on the normal nodes a, b, d, alone or behind a conditional  *)
(* node with two branches, such that the end node is reachable and all it  *)
(* depends on is reachable from the start node.  (With SetExit on a node   *)
(* that is never entered, Run waits for ever.)                             *)
InOrder(S) == SelectSeq(NodeOrder \o <<"end">>, LAMBDA n : n \in S)

ReachedIn(g, k) ==
    LET R[i \in 0..k] == IF i = 0 THEN {"start"}
                         ELSE R[i - 1] \cup UNION {Members(g.next[n]) : n \in R[i - 1]}
    IN  R[k]

Healthy(g) ==
    LET R == ReachedIn(g, 6) IN
    /\ "end" \in R
    /\ \A n \in R : Members(g.prev[n]) \subseteq R

Plain(S, A, B, D) ==
    Build([start |-> InOrder(S), a |-> InOrder(A), b |-> InOrder(B), d |-> InOrder(D)])

Conditional(S, x, y, A, B, D) ==
    Build([start |-> InOrder(S \cup {"c"}), c |-> <<"v", "w">>, v |-> <<x>>, w |-> <<y>>,
           a |-> InOrder(A), b |-> InOrder(B), d |-> InOrder(D)])

Normal == {"a", "b", "d"}

Sweep == {g \in
    {Plain(S, A, B, D) : S \in SUBSET Normal, A \in SUBSET {"b", "d", "end"},
                         B \in SUBSET {"d", "end"}, D \in SUBSET {"end"}}
    \cup
    {Conditional(S, "a", y, A, B, D) : S \in SUBSET {"b"}, y \in {"a", "b"},
                         A \in SUBSET {"b", "end"}, B \in SUBSET {"d", "end"},
                         D \in SUBSET {"end"}} : Healthy(g)}

AllGraphs == PlainGraphs \cup {Branch, Merge, SkipFork, Nested} \cup Sweep

(* An instance for a disagreement between the code and its comments.       *)
BranchOnly == {Twice(Branch)}
=============================================================================
