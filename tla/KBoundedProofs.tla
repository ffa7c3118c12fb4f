--------------------------- MODULE KBoundedProofs --------------------------
(***************************************************************************)
(* The heuristics of main_algo_6_8_12 and main_algo_0_1_2_heuristic do not *)
(* change the verdict, for every polygraph over any number of              *)
(* transactions.                                                           *)
(*                                                                         *)
(* Three facts carry the proof.  An assignment for a pruned polygraph      *)
(* extends to the whole one (a decided constraint takes the side that was  *)
(* picked; if it stayed, there is nothing to extend).  Under the bound     *)
(* n - 1 nothing is pruned, because ranks lie in 0..n-1.  A cycle that     *)
(* my_topo_sort finds among the known edges avoids T0, so it is also a     *)
(* cycle of the checker's graph, which has one node for T0, not two.       *)
(***************************************************************************)
EXTENDS KBounded, TopoSortProofs

-----------------------------------------------------------------------------
(* Graphs. *)

\* A graph with fewer edges has fewer cycles.
LEMMA AcyclicSubset ==
  ASSUME NEW nodes, NEW G, NEW H, G \subseteq H, Acyclic(nodes, H)
  PROVE  Acyclic(nodes, G)
<1> SUFFICES ASSUME NEW S \in SUBSET nodes, S # {}
             PROVE  \E v \in S : \A u \in S : <<u, v>> \notin G
  BY DEF Acyclic
<1>1. PICK v \in S : \A u \in S : <<u, v>> \notin H
  BY DEF Acyclic
<1> QED
  BY <1>1

LEMMA CheckerGraphMonotone ==
  ASSUME NEW E, NEW F, E \subseteq F
  PROVE  CheckerGraph(E) \subseteq CheckerGraph(F)
  BY DEF CheckerGraph

\* The edges add_edge drops change nothing for the checker.
LEMMA AddEdgesGraph ==
  ASSUME NEW E, NEW new
  PROVE  CheckerGraph(E \cup new) \subseteq CheckerGraph(AddEdges(E, new))
<1> SUFFICES ASSUME NEW e \in E \cup new
             PROVE  \E f \in AddEdges(E, new) : CheckerEdge(f) = CheckerEdge(e)
  BY DEF CheckerGraph
<1>1. CASE e \in AddEdges(E, new)
  BY <1>1
<1>2. CASE e \notin AddEdges(E, new)
  <2>1. Shadowed(E, e)
    BY <1>2 DEF AddEdges
  <2>2. e[3] # "rw"
    BY <2>1 DEF Shadowed, CbTypes
  <2>3. PICK t \in CbTypes : <<e[1], e[2], t>> \in E
    BY <2>1 DEF Shadowed
  <2>4. t # "rw"
    BY <2>3 DEF CbTypes
  <2>5. CheckerEdge(<<e[1], e[2], t>>) = CheckerEdge(e)
    BY <2>2, <2>4 DEF CheckerEdge
  <2> QED
    BY <2>3, <2>5 DEF AddEdges
<1> QED
  BY <1>1, <1>2

\* No known edge ends in T0, so begin node 1 has no predecessor, commit node
\* 2 has no other than 1, and every other edge is an edge of the checker.
LEMMA EdgeShift ==
  ASSUME NEW E \in SUBSET ValidEdges, NEW u, NEW v, <<u, v>> \in to_BC_graph(E)
  PROVE  /\ u \in BCNodes /\ v \in BCNodes
         /\ v # 1
         /\ v = 2 => u = 1
         /\ u > 2 => <<u - 2, v - 2>> \in CheckerGraph(E)
<1>1. u \in BCNodes /\ v \in BCNodes
  BY BCGraphType
<1>2. CASE <<u, v>> \in {<<si(i), ci(i)>> : i \in Txn}
  <2>1. PICK i \in Txn : u = si(i) /\ v = ci(i)
    BY <1>2
  <2>2. i \in Nat
    BY NTxnsAssumption DEF Txn
  <2>3. v # 1 /\ (v = 2 => u = 1)
    BY <2>1, <2>2 DEF si, ci
  <2>4. ASSUME u > 2 PROVE <<u - 2, v - 2>> \in CheckerGraph(E)
    <3>1. i # 0
      BY <2>1, <2>2, <2>4 DEF si
    <3>2. u - 2 = CheckerSi(i) /\ v - 2 = CheckerCi(i)
      BY <2>1, <2>2, <3>1 DEF si, ci, CheckerSi, CheckerCi
    <3> QED
      BY <3>1, <3>2 DEF CheckerGraph
  <2> QED
    BY <1>1, <2>3, <2>4
<1>3. CASE \E e \in E : <<u, v>> = BCEdge(e)
  <2>1. PICK e \in E : <<u, v>> = BCEdge(e)
    BY <1>3
  <2>2. e[1] \in Nat /\ e[2] \in Nat /\ e[2] # 0
    BY NTxnsAssumption DEF ValidEdges, Txn
  <2>3. \/ e[3] = "rw" /\ u = si(e[1]) /\ v = ci(e[2])
        \/ e[3] # "rw" /\ u = ci(e[1]) /\ v = si(e[2])
    BY <2>1 DEF BCEdge
  <2>4. v > 2
    BY <2>2, <2>3 DEF si, ci
  <2>5. ASSUME u > 2 PROVE <<u - 2, v - 2>> \in CheckerGraph(E)
    <3>1. e[1] # 0
      BY <2>2, <2>3, <2>5 DEF si, ci
    <3>2. <<u - 2, v - 2>> = CheckerEdge(e)
      BY <2>2, <2>3, <3>1 DEF si, ci, CheckerSi, CheckerCi, CheckerEdge
    <3> QED
      BY <3>2 DEF CheckerGraph
  <2> QED
    BY <1>1, <2>4, <2>5
<1> QED
  BY <1>2, <1>3 DEF to_BC_graph

\* A cycle of the known edges is a cycle of every graph the checker tries.
LEMMA CyclicKnownUnsat ==
  ASSUME NEW E \in SUBSET ValidEdges, NEW con, ~Acyclic(BCNodes, to_BC_graph(E))
  PROVE  Unsat(E, con)
<1>1. PICK S \in SUBSET BCNodes :
        S # {} /\ \A v \in S : \E u \in S : <<u, v>> \in to_BC_graph(E)
  BY DEF Acyclic
<1>2. S \subseteq Nat
  BY BCNodesType
<1>3. 1 \notin S
  BY <1>1, EdgeShift
<1>4. 2 \notin S
  BY <1>1, <1>3, EdgeShift
<1>5. \A v \in S : v \in Nat /\ v > 2 /\ v - 2 \in CheckerNodes
  <2>1. \A v \in BCNodes : v # 1 /\ v # 2 => v \in Nat /\ v > 2 /\ v - 2 \in CheckerNodes
    BY NTxnsAssumption DEF BCNodes, n_nodes_bc, n_nodes, CheckerNodes
  <2> QED
    BY <1>3, <1>4, <2>1
<1> DEFINE T == {v - 2 : v \in S}
<1>6. T \in SUBSET CheckerNodes /\ T # {}
  BY <1>1, <1>5
<1>7. ASSUME NEW w \in T PROVE \E x \in T : <<x, w>> \in CheckerGraph(E)
  <2>1. PICK v \in S : w = v - 2
    OBVIOUS
  <2>2. PICK u \in S : <<u, v>> \in to_BC_graph(E)
    BY <1>1
  <2>3. <<u - 2, v - 2>> \in CheckerGraph(E)
    BY <1>5, <2>2, EdgeShift
  <2> QED
    BY <2>1, <2>3
<1>8. ~Acyclic(CheckerNodes, CheckerGraph(E))
  BY <1>6, <1>7 DEF Acyclic
<1>9. ASSUME NEW F PROVE ~Acyclic(CheckerNodes, CheckerGraph(E \cup F))
  <2>1. CheckerGraph(E) \subseteq CheckerGraph(E \cup F)
    BY CheckerGraphMonotone
  <2> QED
    BY <1>8, <2>1, AcyclicSubset
<1> QED
  BY <1>9 DEF Unsat, Sat

-----------------------------------------------------------------------------
(* Pruning. *)

LEMMA ChosenEdges ==
  ASSUME NEW con, NEW sel, NEW e
  PROVE  e \in Chosen(con, sel) <=> \/ \E c \in sel : e \in c[1]
                                   \/ \E c \in con \ sel : e \in c[2]
<1>1. e \in UNION {c[1] : c \in sel} <=> \E c \in sel : e \in c[1]
  OBVIOUS
<1>2. e \in UNION {c[2] : c \in con \ sel} <=> \E c \in con \ sel : e \in c[2]
  OBVIOUS
<1> QED
  BY <1>1, <1>2 DEF Chosen

\* Where the decided constraints stay, only edges were added.
LEMMA WeighedSat ==
  ASSUME NEW P, Sat(AddEdges(edges, P), conn)
  PROVE  Sat(edges, conn)
<1>1. PICK sel \in SUBSET conn :
        Acyclic(CheckerNodes, CheckerGraph(AddEdges(edges, P) \cup Chosen(conn, sel)))
  BY DEF Sat
<1>2. edges \cup Chosen(conn, sel) \subseteq AddEdges(edges, P) \cup Chosen(conn, sel)
  BY DEF AddEdges
<1>3. Acyclic(CheckerNodes, CheckerGraph(edges \cup Chosen(conn, sel)))
  BY <1>1, <1>2, CheckerGraphMonotone, AcyclicSubset
<1> QED
  BY <1>3 DEF Sat

\* An assignment for the polygraph pruned under the bound x extends to the
\* whole polygraph.
LEMMA PrunedSat ==
  ASSUME NEW x, ~BoundFails(x)
  PROVE  Sat(edges, conn)
<1>0. CASE decidedStay
  BY <1>0, WeighedSat DEF BoundFails, Unsat, Remaining
<1> SUFFICES ASSUME ~decidedStay PROVE Sat(edges, conn)
  BY <1>0
<1> DEFINE D == Decided(x)
           P == Picked(x)
<1>1. PICK sel \in SUBSET (conn \ D) :
        Acyclic(CheckerNodes, CheckerGraph(AddEdges(edges, P) \cup Chosen(conn \ D, sel)))
  BY DEF BoundFails, Unsat, Sat, Remaining
<1> DEFINE all == sel \cup {c \in D : pick_this_es(c[1], x)}
<1>2. D \subseteq conn /\ all \in SUBSET conn
  BY DEF Decided
<1>3. Chosen(conn, all) \subseteq P \cup Chosen(conn \ D, sel)
  <2>1. ASSUME NEW c \in all PROVE c[1] \subseteq P \cup Chosen(conn \ D, sel)
    <3>1. CASE c \in sel
      BY <3>1, ChosenEdges
    <3>2. CASE c \in D /\ pick_this_es(c[1], x)
      BY <3>2 DEF Picked
    <3> QED
      BY <3>1, <3>2
  <2>2. ASSUME NEW c \in conn \ all PROVE c[2] \subseteq P \cup Chosen(conn \ D, sel)
    <3>1. CASE c \in D
      BY <3>1 DEF Picked
    <3>2. CASE c \notin D
      <4>1. c \in (conn \ D) \ sel
        BY <3>2
      <4> QED
        BY <4>1, ChosenEdges
    <3> QED
      BY <3>1, <3>2
  <2> HIDE DEF D, P, all
  <2> QED
    BY <2>1, <2>2, ChosenEdges
<1>4. CheckerGraph(edges \cup Chosen(conn, all))
        \subseteq CheckerGraph(AddEdges(edges, P) \cup Chosen(conn \ D, sel))
  <2> HIDE DEF D, P, all
  <2>1. CheckerGraph(edges \cup Chosen(conn, all))
          \subseteq CheckerGraph((edges \cup P) \cup Chosen(conn \ D, sel))
    BY <1>3, CheckerGraphMonotone
  <2>2. ASSUME NEW F, NEW G
        PROVE  CheckerGraph(F \cup G) = CheckerGraph(F) \cup {CheckerEdge(e) : e \in G}
    BY DEF CheckerGraph
  <2>3. CheckerGraph(edges \cup P) \subseteq CheckerGraph(AddEdges(edges, P))
    BY AddEdgesGraph
  <2>4. CheckerGraph((edges \cup P) \cup Chosen(conn \ D, sel))
          \subseteq CheckerGraph(AddEdges(edges, P) \cup Chosen(conn \ D, sel))
    <3>1. PICK F, H, G : F = edges \cup P /\ H = AddEdges(edges, P) /\ G = Chosen(conn \ D, sel)
      OBVIOUS
    <3>2. CheckerGraph(F \cup G) \subseteq CheckerGraph(H \cup G)
      <4>1. CheckerGraph(F) \subseteq CheckerGraph(H)
        BY <2>3, <3>1
      <4>2. CheckerGraph(F \cup G) = CheckerGraph(F) \cup {CheckerEdge(e) : e \in G}
        BY <2>2
      <4>3. CheckerGraph(H \cup G) = CheckerGraph(H) \cup {CheckerEdge(e) : e \in G}
        BY <2>2
      <4> QED
        BY <4>1, <4>2, <4>3
    <3> QED
      BY <3>1, <3>2
  <2> QED
    BY <2>1, <2>4
<1>5. Acyclic(CheckerNodes, CheckerGraph(edges \cup Chosen(conn, all)))
  BY <1>1, <1>4, AcyclicSubset
<1> QED
  BY <1>2, <1>5 DEF Sat

\* The last bound decides no constraint: no two ranks are further apart.
LEMMA FullBoundDecidesNothing ==
  ASSUME TopoTypeOK, tpc = "sorted", ValidConstraints(conn)
  PROVE  Decided(FullBound) = {} /\ ~Contradiction(FullBound)
<1>1. nid2rank \in [BCNodes -> 0..n_nodes_bc - 1] /\ n_nodes_bc \in Nat
  BY BCNodesType DEF TopoTypeOK
<1>2. \A i \in Txn : si(i) \in BCNodes /\ ci(i) \in BCNodes
  BY NTxnsAssumption DEF Txn, si, ci, BCNodes, n_nodes_bc, n_nodes
<1>3. ASSUME NEW es \in SUBSET ValidEdges PROVE ~pick_this_es(es, FullBound)
  <2> SUFFICES ASSUME NEW e \in es
               PROVE  ~(Scale * nid2rank[BCEdge(e)[1]] + FullBound < Scale * nid2rank[BCEdge(e)[2]])
    BY DEF pick_this_es
  <2> DEFINE a == nid2rank[BCEdge(e)[1]]
             b == nid2rank[BCEdge(e)[2]]
  <2>1. BCEdge(e)[1] \in BCNodes /\ BCEdge(e)[2] \in BCNodes
    BY <1>2 DEF ValidEdges, BCEdge
  <2>2. a \in 0..n_nodes_bc - 1 /\ b \in 0..n_nodes_bc - 1
    BY <1>1, <2>1
  <2> HIDE DEF a, b
  <2>3. ~(Scale * a + FullBound < Scale * b)
    BY <1>1, <2>2 DEF Scale, FullBound
  <2> QED
    BY <2>3 DEF a, b
<1>4. \A c \in conn : c[1] \in SUBSET ValidEdges /\ c[2] \in SUBSET ValidEdges
  BY DEF ValidConstraints
<1> QED
  BY <1>3, <1>4 DEF Decided, Contradiction

\* So the verdict under the last bound is the verdict on the whole polygraph.
LEMMA FullBoundExact ==
  ASSUME TopoTypeOK, tpc = "sorted", ValidConstraints(conn), BoundFails(FullBound)
  PROVE  Unsat(edges, conn)
<1>1. Decided(FullBound) = {} /\ ~Contradiction(FullBound)
  BY FullBoundDecidesNothing
<1>2. Picked(FullBound) = {}
  BY <1>1 DEF Picked
<1>3. Unsat(AddEdges(edges, {}), conn)
  BY <1>1, <1>2 DEF BoundFails, Remaining
<1>4. AddEdges(edges, {}) = edges
  BY DEF AddEdges
<1> QED
  BY <1>3, <1>4

-----------------------------------------------------------------------------
(* The bounds. *)

\* A bound is a natural number; the first is below n and the eleventh is not.
LEMMA RoundedFacts ==
  ASSUME NEW i \in 1..11, NEW x \in Rounded(i)
  PROVE  /\ x \in Nat
         /\ i = 1 => x < Scale * n_nodes_bc
         /\ i = 11 => ~(x < Scale * n_nodes_bc)
<1>1. n_nodes_bc \in Nat /\ n_nodes_bc >= 2
  BY NTxnsAssumption DEF n_nodes_bc, n_nodes
<1>2. PICK d \in -1..1 : x = 10 * n_nodes_bc * i + d
  BY DEF Rounded
<1>3. i \in {1, 2, 3, 4, 5, 6, 7, 8, 9, 10, 11}
  OBVIOUS
<1> QED
  BY <1>1, <1>2, <1>3 DEF Scale

\* While the loop runs, the bound is below n; it is either the last bound or
\* one of the first ten sums, so there are at most eleven bounds.
BoundInv ==
  /\ ith_k \in 0..11
  /\ k \in 0..Scale * n_nodes_bc
  /\ verdict \in {"none", "accept", "reject"}
  /\ ith_k > 0 => /\ tpc = "sorted"
                  /\ k < Scale * n_nodes_bc
                  /\ k = FullBound \/ (ith_k <= 10 /\ k \in Rounded(ith_k))
  /\ verdict # "none" => ith_k > 0 \/ tpc = "reject"

KInv == /\ TopoInv
        /\ ValidConstraints(conn) /\ decidedStay \in BOOLEAN
        /\ BoundInv
        /\ RejectsUnpruned

LEMMA FullBoundType == /\ FullBound \in 0..Scale * n_nodes_bc
                       /\ FullBound < Scale * n_nodes_bc
  BY NTxnsAssumption DEF FullBound, Scale, n_nodes_bc, n_nodes

LEMMA KStartInv ==
  ASSUME edges \subseteq ValidEdges, so \subseteq (Txn \ {0}) \X (Txn \ {0}),
         ValidConstraints(conn), decidedStay \in BOOLEAN,
         TopoStart, ith_k = 0, k = 0, verdict = "none"
  PROVE  KInv
<1>1. TopoInv
  BY TopoStartInv
<1>2. BoundInv
  BY BCNodesType DEF BoundInv, Scale
<1> QED
  BY <1>1, <1>2 DEF KInv, RejectsUnpruned

LEMMA KInitInv == KInit => KInv
<1> SUFFICES ASSUME KInit PROVE KInv
  OBVIOUS
<1>1. PICK g \in PolyGraphs : /\ edges = g.edges /\ so = g.so /\ conn = g.conn
                             /\ decidedStay = g.decidedStay
  BY DEF KInit
<1>2. /\ edges \subseteq ValidEdges /\ so \subseteq (Txn \ {0}) \X (Txn \ {0})
      /\ ValidConstraints(conn) /\ decidedStay \in BOOLEAN
  BY <1>1, PolyGraphsAssumption
<1> QED
  BY <1>2, KStartInv DEF KInit

\* my_topo_sort runs before the loop and never during it.
LEMMA SortInv == ASSUME KInv, Sort PROVE KInv'
<1>1. UNCHANGED <<conn, decidedStay, ith_k, k, verdict>> /\ TopoInv'
  BY TopoStepInv DEF Sort, KInv
<1>2. tpc \in {"start", "sorting"}
  BY DEF Sort, TopoStep, CountInDegrees, PopNode, RelaxEdge, DropSessionOrder,
         RejectCycle, RankNodes, PassOver
<1>3. ith_k = 0 /\ verdict = "none"
  BY <1>2 DEF KInv, BoundInv
<1> QED
  BY <1>1, <1>3 DEF KInv, BoundInv, RejectsUnpruned

LEMMA SetBoundInv ==
  ASSUME KInv, tpc = "sorted", UNCHANGED <<edges, so, topoVars, conn, decidedStay>>,
         NEW x \in Nat, SetBound(x), ith_k \in 0..10, x < Scale * n_nodes_bc,
         x = FullBound \/ (ith_k <= 9 /\ x \in Rounded(ith_k + 1))
  PROVE  KInv' /\ verdict' = "none"
<1>1. k' = x /\ ith_k' = ith_k + 1 /\ verdict' = "none"
  BY DEF SetBound
<1>2. TopoInv' /\ tpc' = "sorted"
  BY TopoStutterInv DEF KInv, topoVars
<1>3. BoundInv'
  BY <1>1, <1>2, BCNodesType DEF BoundInv, Rounded, FullBound, Scale
<1> QED
  BY <1>1, <1>2, <1>3 DEF KInv, RejectsUnpruned

LEMMA FirstBoundInv == ASSUME KInv, FirstBound PROVE KInv' /\ verdict' = verdict
<1>1. /\ tpc = "sorted" /\ ith_k = 0 /\ UNCHANGED <<edges, so, topoVars, conn, decidedStay>>
      /\ verdict = "none"
  BY DEF FirstBound, KInv, BoundInv
<1>2. PICK x \in Rounded(1) : SetBound(x)
  BY DEF FirstBound
<1>3. x \in Nat /\ x < Scale * n_nodes_bc
  BY RoundedFacts
<1>4. x \in Rounded(ith_k + 1) /\ ith_k \in 0..10 /\ ith_k <= 9
  BY <1>1, <1>2
<1> QED
  BY <1>1, <1>2, <1>3, <1>4, SetBoundInv

LEMMA NextBoundInv == ASSUME KInv, NextBound PROVE KInv' /\ verdict' = verdict
<1>1. /\ tpc = "sorted" /\ ith_k > 0 /\ verdict = "none" /\ k # FullBound
      /\ UNCHANGED <<edges, so, topoVars, conn, decidedStay>>
  BY DEF NextBound, Looping
<1>2. ith_k \in 1..10
  BY <1>1 DEF KInv, BoundInv
<1>3. PICK x \in Rounded(ith_k + 1) :
        SetBound(IF x < Scale * n_nodes_bc THEN x ELSE FullBound)
  BY DEF NextBound
<1>4. ith_k + 1 \in 1..11 /\ ith_k \in 0..10
  BY <1>2
<1>5. x \in Nat /\ (ith_k + 1 = 11 => ~(x < Scale * n_nodes_bc))
  BY <1>4, RoundedFacts
<1>6. CASE x < Scale * n_nodes_bc
  <2>1. SetBound(x) /\ ith_k <= 9
    BY <1>2, <1>3, <1>5, <1>6
  <2> QED
    BY <1>1, <1>3, <1>4, <1>5, <1>6, <2>1, SetBoundInv
<1>7. CASE ~(x < Scale * n_nodes_bc)
  <2>1. SetBound(FullBound) /\ FullBound \in Nat /\ FullBound < Scale * n_nodes_bc
    BY <1>3, <1>7, FullBoundType
  <2> QED
    BY <1>1, <1>4, <2>1, SetBoundInv
<1> QED
  BY <1>6, <1>7

\* The steps that end the run leave everything but the verdict alone.
LEMMA VerdictInv ==
  ASSUME KInv, SortRejects \/ BoundAccepts \/ LastBoundRejects PROVE KInv'
<1>1. UNCHANGED <<edges, so, topoVars, conn, decidedStay, ith_k, k>>
  BY DEF SortRejects, BoundAccepts, LastBoundRejects
<1>2. TopoInv' /\ UNCHANGED <<tpc, nid2rank>>
  BY <1>1, TopoStutterInv DEF KInv, topoVars
<1>3. BoundInv'
  BY <1>1, <1>2 DEF KInv, BoundInv, SortRejects, BoundAccepts, LastBoundRejects, Looping
<1>4. RejectsUnpruned'
  <2>1. CASE SortRejects
    BY <1>2, <2>1 DEF RejectsUnpruned, SortRejects
  <2>2. CASE BoundAccepts
    BY <2>2 DEF RejectsUnpruned, BoundAccepts
  <2>3. CASE LastBoundRejects
    <3>1. k = FullBound /\ tpc = "sorted"
      BY <2>3 DEF LastBoundRejects, Looping
    <3>2. Decided(k) = {}
      BY <3>1, FullBoundDecidesNothing DEF KInv, TopoInv
    <3>3. Decided(k)' = Decided(k)
      BY <1>1, <1>2 DEF Decided, pick_this_es
    <3> QED
      BY <1>1, <3>1, <3>2, <3>3 DEF RejectsUnpruned
  <2> QED
    BY <2>1, <2>2, <2>3
<1> QED
  BY <1>1, <1>2, <1>3, <1>4 DEF KInv

LEMMA KStutterInv == ASSUME KInv, UNCHANGED kvars PROVE KInv'
<1>1. TopoInv'
  BY TopoStutterInv DEF KInv, kvars, topoVars
<1> QED
  BY <1>1 DEF KInv, kvars, topoVars, BoundInv, RejectsUnpruned, Decided, pick_this_es

LEMMA KStepInv == ASSUME KInv, KStep PROVE KInv'
  BY SortInv, FirstBoundInv, NextBoundInv, VerdictInv DEF KStep

\* The inductive invariant holds in every state of main_algo_6_8_12.
THEOREM KInvariant == KSpec => []KInv
<1>1. KInv /\ [KNext]_kvars => KInv'
  BY KStepInv, KStutterInv DEF KNext
<1> QED
  BY <1>1, KInitInv, PTL DEF KSpec

(***************************************************************************)
(* The types of the loop's variables: the bound k never passes n, and      *)
(* there are at most eleven bounds however the sums are rounded.           *)
(***************************************************************************)
THEOREM KTypeTheorem == KSpec => []KTypeOK
<1>1. KInv => KTypeOK
  BY DEF KInv, TopoInv, BoundInv, KTypeOK
<1> QED
  BY <1>1, KInvariant, PTL

(***************************************************************************)
(* The loop of main_algo_6_8_12 rejects an acyclic known graph only under  *)
(* the bound n - 1, with every constraint left to the solver.              *)
(***************************************************************************)
THEOREM RejectsUnprunedTheorem == KSpec => []RejectsUnpruned
<1>1. KInv => RejectsUnpruned
  BY DEF KInv
<1> QED
  BY <1>1, KInvariant, PTL

-----------------------------------------------------------------------------
(* Refinement. *)

\* The instance of DirectCheck speaks of the same checker.
LEMMA DirectUnsat == Direct!Unsat(edges, conn) <=> Unsat(edges, conn)
  BY DEF Direct!Unsat, Unsat, Direct!Sat, Sat, Direct!Acyclic, Acyclic,
         Direct!CheckerNodes, CheckerNodes, Direct!CheckerGraph, CheckerGraph,
         Direct!CheckerEdge, CheckerEdge, Direct!CheckerSi, CheckerSi,
         Direct!CheckerCi, CheckerCi, Direct!Txn, Txn, Direct!Chosen, Chosen

LEMMA KInitRefines == KInit => Direct!DirectInit
<1> SUFFICES ASSUME KInit PROVE Direct!DirectInit
  OBVIOUS
<1>1. edges \subseteq ValidEdges /\ ValidConstraints(conn) /\ verdict = "none"
  BY KInitInv DEF KInv, TopoInv, TopoTypeOK, KInit
<1> QED
  BY <1>1 DEF Direct!DirectInit, Direct!ValidEdges, ValidEdges, Direct!ValidConstraints,
              ValidConstraints, Direct!Txn, Txn, Direct!EdgeTypes, EdgeTypes,
              Direct!CbTypes, CbTypes

LEMMA KStepRefines ==
  ASSUME KInv, KStep
  PROVE  Direct!Check \/ UNCHANGED <<edges, conn, verdict>>
<1>1. CASE Sort
  BY <1>1 DEF Sort, TopoStep, CountInDegrees, PopNode, RelaxEdge, DropSessionOrder,
              RejectCycle, RankNodes
<1>2. CASE SortRejects
  <2>1. ~Acyclic(BCNodes, to_BC_graph(edges)) /\ edges \in SUBSET ValidEdges
    BY <1>2 DEF SortRejects, KInv, TopoInv, RejectIsCycle, TopoTypeOK
  <2>2. Unsat(edges, conn)
    BY <2>1, CyclicKnownUnsat
  <2> QED
    BY <1>2, <2>2, DirectUnsat DEF SortRejects, Direct!Check, Direct!Reject
<1>3. CASE FirstBound
  BY <1>3, FirstBoundInv DEF FirstBound
<1>4. CASE BoundAccepts
  <2>1. ~Unsat(edges, conn)
    BY <1>4, PrunedSat DEF BoundAccepts, Unsat
  <2> QED
    BY <1>4, <2>1, DirectUnsat DEF BoundAccepts, Looping, Direct!Check, Direct!Accept
<1>5. CASE LastBoundRejects
  <2>1. Unsat(edges, conn)
    BY <1>5, FullBoundExact DEF LastBoundRejects, Looping, KInv, TopoInv
  <2> QED
    BY <1>5, <2>1, DirectUnsat DEF LastBoundRejects, Looping, Direct!Check, Direct!Reject
<1>6. CASE NextBound
  BY <1>6, NextBoundInv DEF NextBound
<1> QED
  BY <1>1, <1>2, <1>3, <1>4, <1>5, <1>6 DEF KStep

(***************************************************************************)
(* main_algo_6_8_12 implements main_algo3_5: the k-bounded heuristic gives *)
(* the verdict of a single check of the whole polygraph, for every         *)
(* polygraph, every topological order and every rounding of k.  So does    *)
(* the pair heuristic of main_algo_0_1_2_heuristic.                        *)
(***************************************************************************)
THEOREM HeuristicIsSound == KSpec => ImplementsDirect
<1>1. KInv /\ [KNext]_kvars => [Direct!Check]_<<edges, conn, verdict>>
  BY KStepRefines DEF KNext, kvars
<1> QED
  BY <1>1, KInitRefines, KInvariant, PTL DEF KSpec, ImplementsDirect, Direct!DirectSpec
=============================================================================
