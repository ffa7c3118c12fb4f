----------------------------- MODULE KBounded ------------------------------
(***************************************************************************)
(* main_algo_6_8_12 and main_algo_0_1_2_heuristic once the graph is built: *)
(* sort the known graph, then call the checker on pruned polygraphs with a *)
(* growing bound k.  Under the bound k a constraint is decided without the *)
(* solver when one of its edge sets has an edge that goes up in rank by    *)
(* more than k.  A pruned polygraph may be unsatisfiable although g is     *)
(* not; the last bound, n - 1, prunes nothing.                             *)
(*                                                                         *)
(* The two loops and the two versions of k_bounded_constraints have the    *)
(* same code but for one thing.  The one of pair_heuristic.py, whose edge  *)
(* sets are single edges, removes a decided pair from a list that          *)
(* get_4tuples has just made, so that the checker still gets the pair.     *)
(*                                                                         *)
(* k is a float, a sum of terms 0.1 n.  It is modelled in hundredths, and  *)
(* each sum may be off by one hundredth either way, which covers whatever  *)
(* the rounding of ten float additions does to the comparisons.            *)
(***************************************************************************)
EXTENDS TopoSort

CONSTANT PolyGraphs     \* the inputs: [edges, so, conn, decidedStay] records

ASSUME PolyGraphsAssumption ==
  \A g \in PolyGraphs : /\ g.edges \subseteq ValidEdges
                        /\ g.so \subseteq (Txn \ {0}) \X (Txn \ {0})
                        /\ ValidConstraints(g.conn)
                        /\ g.decidedStay \in BOOLEAN

VARIABLES
  conn,         \* the constraints of the polygraph
  decidedStay,  \* the heuristic is the one of pair_heuristic.py
  ith_k,        \* number of the bound, 0 before the loop
  k,            \* the bound, in hundredths
  verdict       \* "none", or the result that the loop returns

kvars == <<edges, so, topoVars, conn, decidedStay, ith_k, k, verdict>>

Scale == 100
FullBound == Scale * (n_nodes_bc - 1)

\* The values that the i-th partial sum of 0.1 * n_nodes_bc may have.
Rounded(i) == {10 * n_nodes_bc * i + d : d \in -1..1}

\* pick_this_es: an edge of es goes up by more than the bound x in nid2score.
pick_this_es(es, x) ==
  \E e \in es :
    Scale * nid2rank[BCEdge(e)[1]] + x < Scale * nid2rank[BCEdge(e)[2]]

\* k_bounded_constraints returns False when both sides of one are picked.
Contradiction(x) ==
  \E c \in conn : pick_this_es(c[1], x) /\ pick_this_es(c[2], x)

Decided(x) == {c \in conn : pick_this_es(c[1], x) \/ pick_this_es(c[2], x)}

\* Mutant: decided constraints are removed and their edges forgotten.
Picked_Nothing(x) == {}

\* What it adds to iter_g.
Picked(x) ==
  UNION {IF pick_this_es(c[1], x) THEN c[1] ELSE c[2] : c \in Decided(x)}

\* The constraints that are left to the solver.
Remaining(x) == IF decidedStay THEN conn ELSE conn \ Decided(x)

\* The loop body ends with result False for the bound x.  With decidedStay the
\* checker is that of algorithm 10 or 11, an Adya encoding; the satisfiability
\* of begin/commit graphs stands for it.
BoundFails(x) ==
  Contradiction(x) \/ Unsat(AddEdges(edges, Picked(x)), Remaining(x))

-----------------------------------------------------------------------------
KInit ==
  /\ \E g \in PolyGraphs : /\ edges = g.edges /\ so = g.so /\ conn = g.conn
                           /\ decidedStay = g.decidedStay
  /\ TopoStart
  /\ ith_k = 0
  /\ k = 0
  /\ verdict = "none"

\* g.my_topo_sort()
Sort == TopoStep /\ UNCHANGED <<conn, decidedStay, ith_k, k, verdict>>

\* except RejectException
SortRejects ==
  /\ tpc = "reject"
  /\ verdict = "none"
  /\ verdict' = "reject"
  /\ UNCHANGED <<edges, so, topoVars, conn, decidedStay, ith_k, k>>

\* Mutant: k is computed from 0.1 n again instead of being increased.
SetBound_Restart(x) ==
  /\ k' = 10 * n_nodes_bc
  /\ ith_k' = 1
  /\ verdict' = "none"

\* Assign k and evaluate "while not result and k < n_nodes_bc".
SetBound(x) ==
  /\ k' = x
  /\ ith_k' = ith_k + 1
  /\ verdict' = IF x < Scale * n_nodes_bc THEN "none" ELSE "reject"

\* k = n_nodes_bc * 0.1
FirstBound ==
  /\ tpc = "sorted"
  /\ ith_k = 0
  /\ \E x \in Rounded(1) : SetBound(x)
  /\ UNCHANGED <<edges, so, topoVars, conn, decidedStay>>

Looping == tpc = "sorted" /\ ith_k > 0 /\ verdict = "none"

\* The checker says True, which ends the loop.
BoundAccepts ==
  /\ Looping
  /\ ~BoundFails(k)
  /\ verdict' = "accept"
  /\ UNCHANGED <<edges, so, topoVars, conn, decidedStay, ith_k, k>>

\* Mutant: the loop gives up within ten percent of the last bound.
LastBoundRejects_Early ==
  /\ Looping
  /\ k + 10 * n_nodes_bc > FullBound
  /\ BoundFails(k)
  /\ verdict' = "reject"
  /\ UNCHANGED <<edges, so, topoVars, conn, decidedStay, ith_k, k>>

\* if k == n_nodes_bc - 1: break
LastBoundRejects ==
  /\ Looping
  /\ k = FullBound
  /\ BoundFails(k)
  /\ verdict' = "reject"
  /\ UNCHANGED <<edges, so, topoVars, conn, decidedStay, ith_k, k>>

\* Mutant: k is not clamped to n - 1.
NextBound_NoClamp ==
  /\ Looping
  /\ k # FullBound
  /\ BoundFails(k)
  /\ \E x \in Rounded(ith_k + 1) : SetBound(x)
  /\ UNCHANGED <<edges, so, topoVars, conn, decidedStay>>

\* k = k + n_nodes_bc * 0.1 if k + n_nodes_bc * 0.1 < n_nodes_bc
\*     else n_nodes_bc - 1
NextBound ==
  /\ Looping
  /\ k # FullBound
  /\ BoundFails(k)
  /\ \E x \in Rounded(ith_k + 1) :
       SetBound(IF x < Scale * n_nodes_bc THEN x ELSE FullBound)
  /\ UNCHANGED <<edges, so, topoVars, conn, decidedStay>>

KStep == \/ Sort \/ SortRejects \/ FirstBound
         \/ BoundAccepts \/ LastBoundRejects \/ NextBound

KDone == verdict # "none"

KNext == KStep \/ (KDone /\ UNCHANGED kvars)

KSpec == KInit /\ [][KNext]_kvars /\ WF_kvars(KStep)

-----------------------------------------------------------------------------
KTypeOK ==
  /\ TopoTypeOK
  /\ ValidConstraints(conn) /\ decidedStay \in BOOLEAN
  /\ ith_k \in 0..11
  /\ k \in 0..Scale * n_nodes_bc
  /\ verdict \in {"none", "accept", "reject"}

Direct == INSTANCE DirectCheck

(***************************************************************************)
(* The heuristics of main_algo_6_8_12 and main_algo_0_1_2_heuristic do not *)
(* change the verdict: whatever order the topological sort found, whatever *)
(* the bounds pruned and however k was rounded, the run ends with the      *)
(* answer that one call of the checker on the unpruned polygraph gives     *)
(* (main_algo3_5, main_algo_0_1_2_4).                                      *)
(***************************************************************************)
ImplementsDirect == Direct!DirectSpec

(***************************************************************************)
(* A rejection costs the full search: unless the known edges are cyclic,   *)
(* the loop rejects only after the bound n - 1, under which nothing is     *)
(* pruned ("k is not large enough" is never the last word).                *)
(***************************************************************************)
RejectsUnpruned ==
  (verdict = "reject" /\ tpc = "sorted") => k = FullBound /\ Decided(k) = {}
=============================================================================
