----------------------------- MODULE TopoSort ------------------------------
(***************************************************************************)
(* ArgumentedPolyGraph.my_topo_sort: Kahn's algorithm on the begin/commit  *)
(* graph of the known edges.  The first pass adds the session order, which *)
(* Adya SI does not require; if that makes the graph cyclic, a second pass *)
(* sorts without it, and only its failure rejects the history.  The rank   *)
(* of a node in the result steers the k-bounded heuristic (KBounded).      *)
(***************************************************************************)
EXTENDS PolyGraph, Sequences

CONSTANT KnownGraphs    \* the graphs a run starts from: [edges, so] records

ASSUME KnownGraphsAssumption ==
  \A g \in KnownGraphs : /\ g.edges \subseteq ValidEdges
                         /\ g.so \subseteq (Txn \ {0}) \X (Txn \ {0})

VARIABLES
  edges,        \* self.edges, the known edges
  so,           \* self.histories, as pairs of successive transactions
  mode,         \* "session": first pass, "plain": the fallback
  tpc,          \* "start", "sorting", "sorted" or "reject"
  in_degrees,   \* node -> edges into it that are not yet relaxed
  Q,            \* queue of nodes without unrelaxed predecessor
  sorted_arr,   \* the nodes popped so far
  pending,      \* successors of Last(sorted_arr) still to be relaxed
  nid2rank      \* the result

topoVars == <<mode, tpc, in_degrees, Q, sorted_arr, pending, nid2rank>>

\* Mutant: rw edges are left out of the graph that is sorted.
GraphOf_NoRw(m) ==
  to_BC_graph_w_session_order({e \in edges : e[3] # "rw"}, IF m = "session" THEN so ELSE {})

GraphOf(m) == IF m = "session" THEN to_BC_graph_w_session_order(edges, so)
                               ELSE to_BC_graph(edges)

NodesOf(s) == {s[i] : i \in DOMAIN s}

\* [u for u in range(1, n+1) if u in S]: S in increasing order.
AscendingSeqs(S) ==
  {s \in [1..Cardinality(S) -> S] :
     /\ NodesOf(s) = S
     /\ \A i, j \in DOMAIN s : i < j => s[i] < s[j]}

TopoStart ==
  /\ mode = "session"
  /\ tpc = "start"
  /\ in_degrees = [v \in BCNodes |-> 0]
  /\ Q = << >>
  /\ sorted_arr = << >>
  /\ pending = {}
  /\ nid2rank = << >>

TopoInit ==
  /\ \E g \in KnownGraphs : edges = g.edges /\ so = g.so
  /\ TopoStart

\* Mutant: in_degrees is counted on the graph without the session order.
CountInDegrees_Plain ==
  /\ tpc = "start"
  /\ tpc' = "sorting"
  /\ in_degrees' = [v \in BCNodes |->
                      Cardinality({u \in BCNodes : <<u, v>> \in to_BC_graph(edges)})]
  /\ Q' \in AscendingSeqs({v \in BCNodes : in_degrees'[v] = 0})
  /\ sorted_arr' = << >>
  /\ pending' = {}
  /\ UNCHANGED <<edges, so, mode, nid2rank>>

\* The head of either pass: count the edges into each node, queue the rest.
CountInDegrees ==
  /\ tpc = "start"
  /\ tpc' = "sorting"
  /\ in_degrees' = [v \in BCNodes |->
                      Cardinality({u \in BCNodes : <<u, v>> \in GraphOf(mode)})]
  /\ Q' \in AscendingSeqs({v \in BCNodes : in_degrees'[v] = 0})
  /\ sorted_arr' = << >>
  /\ pending' = {}
  /\ UNCHANGED <<edges, so, mode, nid2rank>>

\* u = Q.pop(0); sorted_arr.append(u)
PopNode ==
  /\ tpc = "sorting"
  /\ pending = {}
  /\ Q # << >>
  /\ Q' = Tail(Q)
  /\ sorted_arr' = Append(sorted_arr, Head(Q))
  /\ pending' = {v \in BCNodes : <<Head(Q), v>> \in GraphOf(mode)}
  /\ UNCHANGED <<edges, so, mode, tpc, in_degrees, nid2rank>>

\* One turn of "for v in G.edges[u]"; a Python set yields its members in
\* any order.
RelaxEdge ==
  /\ tpc = "sorting"
  /\ \E v \in pending :
       /\ pending' = pending \ {v}
       /\ in_degrees' = [in_degrees EXCEPT ![v] = @ - 1]
       /\ Q' = IF in_degrees'[v] = 0 THEN Append(Q, v) ELSE Q
  /\ UNCHANGED <<edges, so, mode, tpc, sorted_arr, nid2rank>>

PassOver == tpc = "sorting" /\ pending = {} /\ Q = << >>

\* Mutant: the length is compared with the last index.
DropSessionOrder_OffByOne ==
  /\ PassOver
  /\ Len(sorted_arr) # n_nodes_bc - 1
  /\ mode = "session"
  /\ mode' = "plain"
  /\ tpc' = "start"
  /\ UNCHANGED <<edges, so, in_degrees, Q, sorted_arr, pending, nid2rank>>

\* Mutant: the second pass sorts the same graph as the first.
DropSessionOrder_SameGraph ==
  /\ PassOver
  /\ Len(sorted_arr) # n_nodes_bc
  /\ mode = "session"
  /\ tpc' = "start"
  /\ UNCHANGED <<edges, so, mode, in_degrees, Q, sorted_arr, pending, nid2rank>>

\* The session order contradicts the known edges: sort without it.
DropSessionOrder ==
  /\ PassOver
  /\ Len(sorted_arr) # n_nodes_bc
  /\ mode = "session"
  /\ mode' = "plain"
  /\ tpc' = "start"
  /\ UNCHANGED <<edges, so, in_degrees, Q, sorted_arr, pending, nid2rank>>

\* Mutant: the first pass that fails rejects.
RejectCycle_FirstPass ==
  /\ PassOver
  /\ Len(sorted_arr) # n_nodes_bc
  /\ tpc' = "reject"
  /\ UNCHANGED <<edges, so, mode, in_degrees, Q, sorted_arr, pending, nid2rank>>

\* raise RejectException: the known edges alone are cyclic.
RejectCycle ==
  /\ PassOver
  /\ Len(sorted_arr) # n_nodes_bc
  /\ mode = "plain"
  /\ tpc' = "reject"
  /\ UNCHANGED <<edges, so, mode, in_degrees, Q, sorted_arr, pending, nid2rank>>

RankNodes ==
  /\ PassOver
  /\ Len(sorted_arr) = n_nodes_bc
  /\ tpc' = "sorted"
  /\ nid2rank' = [u \in BCNodes |->
                    (CHOOSE i \in 1..n_nodes_bc : sorted_arr[i] = u) - 1]
  /\ UNCHANGED <<edges, so, mode, in_degrees, Q, sorted_arr, pending>>

TopoStep == \/ CountInDegrees \/ PopNode \/ RelaxEdge
            \/ DropSessionOrder \/ RejectCycle \/ RankNodes

TopoDone == tpc \in {"sorted", "reject"}

TopoNext == TopoStep \/ (TopoDone /\ UNCHANGED <<edges, so, topoVars>>)

TopoSpec == TopoInit /\ [][TopoNext]_<<edges, so, topoVars>>
            /\ WF_<<edges, so, topoVars>>(TopoStep)

-----------------------------------------------------------------------------
TopoTypeOK ==
  /\ edges \subseteq ValidEdges
  /\ so \subseteq (Txn \ {0}) \X (Txn \ {0})
  /\ mode \in {"session", "plain"}
  /\ tpc \in {"start", "sorting", "sorted", "reject"}
  /\ in_degrees \in [BCNodes -> Nat]
  /\ Q \in Seq(BCNodes)
  /\ sorted_arr \in Seq(BCNodes)
  /\ pending \subseteq BCNodes
  /\ tpc = "sorted" => nid2rank \in [BCNodes -> 0..n_nodes_bc - 1]

(***************************************************************************)
(* The ranks my_topo_sort returns (the assertion len(nid2rank) ==          *)
(* len(sorted_arr) and its caller's len(nid2rank) == 2 * n_nodes): every   *)
(* node has a rank of its own, and every known edge goes up in rank,       *)
(* whichever pass produced it and in whatever order the sets were walked.  *)
(***************************************************************************)
RanksAreTopological ==
  tpc = "sorted" =>
    /\ \A u, v \in BCNodes : nid2rank[u] = nid2rank[v] => u = v
    /\ \A e \in to_BC_graph(edges) : nid2rank[e[1]] < nid2rank[e[2]]

(***************************************************************************)
(* raise RejectException("") happens only when the known edges really are  *)
(* cyclic, although the first pass may fail for the session order alone.   *)
(***************************************************************************)
RejectIsCycle == tpc = "reject" => ~Acyclic(BCNodes, to_BC_graph(edges))

(***************************************************************************)
(* The fallback is taken only when it has to be: a second pass means that  *)
(* the session order is inconsistent with the known edges.                 *)
(***************************************************************************)
FallbackIsNeeded ==
  mode = "plain" => ~Acyclic(BCNodes, to_BC_graph_w_session_order(edges, so))

\* my_topo_sort returns or rejects.
TopoTerminates == <>TopoDone
=============================================================================
