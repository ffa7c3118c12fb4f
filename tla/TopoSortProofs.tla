--------------------------- MODULE TopoSortProofs --------------------------
(***************************************************************************)
(* my_topo_sort for every number of transactions and every known graph:    *)
(* the ranks it returns are topological, and it rejects only cycles.       *)
(*                                                                         *)
(* in_degrees[v] alone says nothing about which predecessors of v are      *)
(* still missing.  The inductive invariant ties it to the set of them,     *)
(* Unrelaxed(v), which changes one member at a time because the edges out  *)
(* of the node last popped are relaxed one by one.                         *)
(***************************************************************************)
EXTENDS TopoSort, FiniteSetTheorems, TLAPS

LastSorted == sorted_arr[Len(sorted_arr)]

\* The predecessors of v whose edge to v has not been relaxed.
Unrelaxed(v) ==
  {u \in BCNodes :
     /\ <<u, v>> \in GraphOf(mode)
     /\ u \notin NodesOf(sorted_arr) \/ (v \in pending /\ u = LastSorted)}

InDegreesCount == \A v \in BCNodes : in_degrees[v] = Cardinality(Unrelaxed(v))

NoRepeats(s) == \A i, j \in DOMAIN s : s[i] = s[j] => i = j

QueuedOnce == /\ NoRepeats(Q)
              /\ NoRepeats(sorted_arr)
              /\ NodesOf(Q) \cap NodesOf(sorted_arr) = {}

ZeroIffQueued ==
  \A v \in BCNodes : in_degrees[v] = 0 <=> v \in NodesOf(Q) \cup NodesOf(sorted_arr)

PendingOfLast ==
  pending # {} => /\ sorted_arr # << >>
                  /\ \A v \in pending : <<LastSorted, v>> \in GraphOf(mode)

PredecessorsFirst ==
  \A j \in DOMAIN sorted_arr : \A u \in BCNodes :
    <<u, sorted_arr[j]>> \in GraphOf(mode) => \E i \in 1..j-1 : sorted_arr[i] = u

PassInv == /\ InDegreesCount
           /\ QueuedOnce
           /\ ZeroIffQueued
           /\ PendingOfLast
           /\ PredecessorsFirst

TopoInv == /\ TopoTypeOK
           /\ tpc = "sorting" => PassInv
           /\ RanksAreTopological
           /\ RejectIsCycle
           /\ FallbackIsNeeded

-----------------------------------------------------------------------------
(* The begin/commit graph is a graph over BCNodes. *)

LEMMA BCNodesType == /\ n_nodes_bc \in Nat
                     /\ BCNodes \subseteq Nat
                     /\ IsFiniteSet(BCNodes)
                     /\ Cardinality(BCNodes) = n_nodes_bc
<1>1. n_nodes_bc \in Nat
  BY NTxnsAssumption DEF n_nodes_bc, n_nodes
<1>2. BCNodes \subseteq Nat
  BY <1>1 DEF BCNodes
<1>3. IsFiniteSet(BCNodes) /\ Cardinality(BCNodes) = n_nodes_bc
  BY <1>1, FS_Interval DEF BCNodes
<1> QED
  BY <1>1, <1>2, <1>3

\* Any set of nodes is finite.
LEMMA NodeSetsFinite == ASSUME NEW S \in SUBSET BCNodes
                        PROVE  IsFiniteSet(S) /\ Cardinality(S) \in Nat
  BY BCNodesType, FS_Subset, FS_CardinalityType

\* A pass walks a graph that contains the edges of to_BC_graph.
LEMMA GraphOfContains == to_BC_graph(edges) \subseteq GraphOf(mode)
  BY DEF GraphOf, to_BC_graph_w_session_order

LEMMA GraphOfPlain == mode = "plain" => GraphOf(mode) = to_BC_graph(edges)
  BY DEF GraphOf

LEMMA GraphOfSession ==
  mode = "session" => GraphOf(mode) = to_BC_graph_w_session_order(edges, so)
  BY DEF GraphOf

\* The edges of to_BC_graph join nodes.
LEMMA BCGraphType ==
  ASSUME NEW E \in SUBSET ValidEdges
  PROVE  to_BC_graph(E) \subseteq BCNodes \X BCNodes
<1>1. \A i \in Txn : si(i) \in BCNodes /\ ci(i) \in BCNodes
  BY NTxnsAssumption DEF Txn, si, ci, BCNodes, n_nodes_bc, n_nodes
<1>2. \A e \in E : e[1] \in Txn /\ e[2] \in Txn
  BY DEF ValidEdges
<1>3. \A e \in E : BCEdge(e) \in BCNodes \X BCNodes
  BY <1>1, <1>2 DEF BCEdge
<1> QED
  BY <1>1, <1>3 DEF to_BC_graph
-----------------------------------------------------------------------------
(* Sequences of distinct nodes. *)

\* A list comprehension over a range has each node it selects once.
LEMMA AscendingSeqFacts ==
  ASSUME NEW S \in SUBSET BCNodes, NEW s \in AscendingSeqs(S)
  PROVE  s \in Seq(BCNodes) /\ NodesOf(s) = S /\ NoRepeats(s)
<1> DEFINE n == Cardinality(S)
<1>1. n \in Nat
  BY NodeSetsFinite
<1> HIDE DEF n
<1>2. /\ s \in [1..n -> S]
      /\ NodesOf(s) = S
      /\ \A i, j \in DOMAIN s : i < j => s[i] < s[j]
  BY DEF AscendingSeqs, n
<1>3. s \in [1..n -> BCNodes]
  BY <1>2
<1>4. s \in Seq(BCNodes)
  BY <1>1, <1>3
<1>5. NoRepeats(s)
  <2> SUFFICES ASSUME NEW i \in 1..n, NEW j \in 1..n, s[i] = s[j], i # j
               PROVE  FALSE
    BY <1>2 DEF NoRepeats
  <2>1. i < j \/ j < i
    BY <1>1
  <2>2. s[i] \in Nat /\ s[j] \in Nat
    BY <1>3, BCNodesType
  <2>3. s[i] < s[j] \/ s[j] < s[i]
    BY <1>2, <2>1
  <2> QED
    BY <2>2, <2>3
<1> QED
  BY <1>2, <1>4, <1>5

\* Q.pop(0)
LEMMA TailFacts ==
  ASSUME NEW s \in Seq(BCNodes), s # << >>, NoRepeats(s)
  PROVE  /\ Head(s) \in BCNodes /\ Tail(s) \in Seq(BCNodes)
         /\ NodesOf(s) = NodesOf(Tail(s)) \cup {Head(s)}
         /\ Head(s) \notin NodesOf(Tail(s))
         /\ NoRepeats(Tail(s))
<1> DEFINE t == Tail(s)
           n == Len(s)
<1>1. /\ n \in Nat /\ n > 0 /\ DOMAIN s = 1..n /\ Head(s) = s[1] /\ s[1] \in BCNodes
      /\ t \in Seq(BCNodes) /\ DOMAIN t = 1..n-1 /\ \A i \in 1..n-1 : t[i] = s[i+1]
  OBVIOUS
<1> HIDE DEF t, n
<1>2. \A i \in 2..n : i - 1 \in 1..n-1 /\ t[i - 1] = s[i]
  BY <1>1
<1>3. NodesOf(s) \subseteq NodesOf(t) \cup {s[1]}
  <2> SUFFICES ASSUME NEW x \in NodesOf(s), x # s[1] PROVE x \in NodesOf(t)
    OBVIOUS
  <2>1. PICK i \in 1..n : x = s[i]
    BY <1>1 DEF NodesOf
  <2>2. i \in 2..n
    BY <1>1, <2>1
  <2>3. i - 1 \in DOMAIN t /\ t[i - 1] = x
    BY <1>1, <1>2, <2>1, <2>2
  <2> QED
    BY <2>3 DEF NodesOf
<1>4. \A i \in 1..n-1 : i + 1 \in 1..n
  BY <1>1
<1>5. NodesOf(t) \subseteq NodesOf(s) /\ s[1] \in NodesOf(s)
  BY <1>1, <1>4 DEF NodesOf
<1>6. \A i, j \in 1..n : s[i] = s[j] => i = j
  BY <1>1 DEF NoRepeats
<1>7. \A i \in 1..n-1 : t[i] # s[1]
  BY <1>1, <1>4, <1>6
<1>8. \A i, j \in 1..n-1 : t[i] = t[j] => i = j
  <2> SUFFICES ASSUME NEW i \in 1..n-1, NEW j \in 1..n-1, t[i] = t[j] PROVE i = j
    OBVIOUS
  <2>1. i + 1 = j + 1
    BY <1>1, <1>4, <1>6
  <2> QED
    BY <2>1
<1>9. NoRepeats(t) /\ s[1] \notin NodesOf(t)
  BY <1>1, <1>7, <1>8 DEF NoRepeats, NodesOf
<1> QED
  BY <1>1, <1>3, <1>5, <1>9 DEF t

\* sorted_arr.append(u) and Q.append(v)
LEMMA AppendFacts ==
  ASSUME NEW s \in Seq(BCNodes), NEW x \in BCNodes, NoRepeats(s), x \notin NodesOf(s)
  PROVE  /\ Append(s, x) \in Seq(BCNodes)
         /\ NodesOf(Append(s, x)) = NodesOf(s) \cup {x}
         /\ NoRepeats(Append(s, x))
         /\ Len(s) \in Nat /\ DOMAIN s = 1..Len(s)
         /\ Len(Append(s, x)) = Len(s) + 1 /\ DOMAIN Append(s, x) = 1..Len(s)+1
         /\ \A i \in 1..Len(s) : Append(s, x)[i] = s[i]
         /\ Append(s, x)[Len(s) + 1] = x
<1> DEFINE t == Append(s, x)
           n == Len(s)
<1>1. /\ n \in Nat /\ DOMAIN s = 1..n
      /\ t \in Seq(BCNodes) /\ Len(t) = n + 1 /\ DOMAIN t = 1..n+1
      /\ \A i \in 1..n : t[i] = s[i]
      /\ t[n + 1] = x
  OBVIOUS
<1> HIDE DEF t, n
<1>2. NodesOf(t) = NodesOf(s) \cup {x}
  <2>1. \A i \in 1..n+1 : i \in 1..n \/ i = n + 1
    BY <1>1
  <2>2. \A i \in 1..n : i \in 1..n+1
    BY <1>1
  <2>3. n + 1 \in 1..n+1
    BY <1>1
  <2> QED
    BY <1>1, <2>1, <2>2, <2>3 DEF NodesOf
<1>3. NoRepeats(t)
  <2> SUFFICES ASSUME NEW i \in 1..n+1, NEW j \in 1..n+1, t[i] = t[j] PROVE i = j
    BY <1>1 DEF NoRepeats
  <2>1. \A l \in 1..n : t[l] # x
    BY <1>1 DEF NodesOf
  <2>2. CASE i \in 1..n /\ j \in 1..n
    BY <1>1, <2>2 DEF NoRepeats
  <2>3. CASE i = n + 1 \/ j = n + 1
    BY <1>1, <2>1, <2>3
  <2> QED
    BY <1>1, <2>2, <2>3
<1> QED
  BY <1>1, <1>2, <1>3 DEF t, n

-----------------------------------------------------------------------------
(* What the end of a pass means. *)

\* A sequence without repetitions that is as long as BCNodes has them all.
LEMMA FullSequence ==
  ASSUME NEW s \in Seq(BCNodes), NoRepeats(s)
  PROVE  Len(s) = n_nodes_bc <=> NodesOf(s) = BCNodes
<1>1. s \in [1..Len(s) -> BCNodes] /\ DOMAIN s = 1..Len(s) /\ Len(s) \in Nat
  OBVIOUS
<1>2. s \in Injection(1..Len(s), BCNodes)
  BY <1>1 DEF Injection, IsInjective, NoRepeats
<1>3. IsFiniteSet(1..Len(s)) /\ Cardinality(1..Len(s)) = Len(s)
  <2>1. /\ IsFiniteSet(1..Len(s))
        /\ Cardinality(1..Len(s)) = IF 1 > Len(s) THEN 0 ELSE Len(s) - 1 + 1
    <3>1. 1 \in Int /\ Len(s) \in Int
      BY <1>1
    <3> QED
      BY <3>1, FS_Interval
  <2> QED
    BY <1>1, <2>1
<1>4. Cardinality(1..Len(s)) = Cardinality(BCNodes) <=> s \in Surjection(1..Len(s), BCNodes)
  BY <1>2, BCNodesType, FS_Injection
<1>5. s \in Surjection(1..Len(s), BCNodes) <=> NodesOf(s) = BCNodes
  BY <1>1 DEF Surjection, NodesOf
<1> QED
  BY <1>3, <1>4, <1>5, BCNodesType

\* A pass that sorts some of the nodes only leaves a cycle behind.
LEMMA ShortPassCycle ==
  ASSUME TopoTypeOK, PassInv, PassOver, Len(sorted_arr) # n_nodes_bc
  PROVE  ~Acyclic(BCNodes, GraphOf(mode))
<1> DEFINE S == BCNodes \ NodesOf(sorted_arr)
<1>1. S # {}
  <2>1. sorted_arr \in Seq(BCNodes) /\ NoRepeats(sorted_arr)
    BY DEF TopoTypeOK, PassInv, QueuedOnce
  <2>2. NodesOf(sorted_arr) # BCNodes
    BY <2>1, FullSequence
  <2>3. NodesOf(sorted_arr) \subseteq BCNodes
    BY <2>1 DEF NodesOf
  <2> QED
    BY <2>2, <2>3
<1>2. ASSUME NEW v \in S PROVE \E u \in S : <<u, v>> \in GraphOf(mode)
  <2>1. in_degrees[v] # 0
    BY DEF PassInv, ZeroIffQueued, PassOver, NodesOf
  <2>2. Unrelaxed(v) # {}
    BY <2>1, FS_EmptySet DEF PassInv, InDegreesCount
  <2>3. PICK u \in Unrelaxed(v) : TRUE
    BY <2>2
  <2>4. u \in BCNodes /\ <<u, v>> \in GraphOf(mode) /\ u \notin NodesOf(sorted_arr)
    BY <2>3 DEF Unrelaxed, PassOver
  <2> QED
    BY <2>4
<1> QED
  BY <1>1, <1>2 DEF Acyclic

\* The ranks RankNodes assigns.
PassRank == [u \in BCNodes |-> (CHOOSE i \in 1..n_nodes_bc : sorted_arr[i] = u) - 1]

\* A pass that sorts all nodes puts the source of each edge first.
LEMMA FullPassRanks ==
  ASSUME TopoTypeOK, PassInv, Len(sorted_arr) = n_nodes_bc
  PROVE  /\ PassRank \in [BCNodes -> 0..n_nodes_bc - 1]
         /\ \A u, v \in BCNodes : PassRank[u] = PassRank[v] => u = v
         /\ \A e \in to_BC_graph(edges) : PassRank[e[1]] < PassRank[e[2]]
<1> DEFINE pos(u) == CHOOSE i \in 1..n_nodes_bc : sorted_arr[i] = u
           rank == PassRank
<1>1. sorted_arr \in Seq(BCNodes) /\ NoRepeats(sorted_arr)
  BY DEF TopoTypeOK, PassInv, QueuedOnce
<1>2. DOMAIN sorted_arr = 1..n_nodes_bc /\ NodesOf(sorted_arr) = BCNodes
  BY <1>1, FullSequence
<1>3. \A u \in BCNodes : \E i \in 1..n_nodes_bc : sorted_arr[i] = u
  BY <1>2 DEF NodesOf
<1>4. \A u \in BCNodes : pos(u) \in 1..n_nodes_bc /\ sorted_arr[pos(u)] = u
  BY <1>3
<1>5. \A u \in BCNodes : rank[u] = pos(u) - 1
  BY DEF PassRank
<1> HIDE DEF pos
<1>6. rank \in [BCNodes -> 0..n_nodes_bc - 1]
  <2>1. \A u \in BCNodes : rank[u] \in 0..n_nodes_bc - 1
    BY <1>4, <1>5, BCNodesType
  <2>2. rank = [u \in BCNodes |-> rank[u]]
    BY DEF PassRank
  <2> QED
    BY <2>1, <2>2
<1>7. ASSUME NEW u \in BCNodes, NEW v \in BCNodes, rank[u] = rank[v] PROVE u = v
  <2>1. pos(u) = pos(v)
    BY <1>4, <1>5, <1>7, BCNodesType
  <2> QED
    BY <2>1, <1>4
<1>8. ASSUME NEW e \in to_BC_graph(edges) PROVE rank[e[1]] < rank[e[2]]
  <2>1. e \in BCNodes \X BCNodes
    BY BCGraphType DEF TopoTypeOK
  <2>2. PICK u \in BCNodes, v \in BCNodes : e = <<u, v>>
    BY <2>1
  <2>3. <<u, sorted_arr[pos(v)]>> \in GraphOf(mode)
    BY <1>4, <2>2, GraphOfContains
  <2>4. pos(v) \in DOMAIN sorted_arr
    BY <1>2, <1>4
  <2>5. PICK i \in 1..pos(v)-1 : sorted_arr[i] = u
    BY <2>3, <2>4 DEF PassInv, PredecessorsFirst
  <2>6. i \in 1..n_nodes_bc /\ i < pos(v)
    BY <1>4, <2>5, BCNodesType
  <2>7. i = pos(u)
    BY <1>1, <1>2, <1>4, <2>5, <2>6 DEF NoRepeats
  <2>8. rank[u] < rank[v]
    BY <1>4, <1>5, <2>6, <2>7, BCNodesType
  <2> QED
    BY <2>2, <2>8
<1> QED
  BY <1>6, <1>7, <1>8
-----------------------------------------------------------------------------
(* The invariant is inductive. *)

LEMMA TopoStartInv ==
  ASSUME edges \subseteq ValidEdges, so \subseteq (Txn \ {0}) \X (Txn \ {0}), TopoStart
  PROVE  TopoInv
  BY DEF TopoStart, TopoInv, TopoTypeOK, RanksAreTopological, RejectIsCycle, FallbackIsNeeded

LEMMA TopoInitInv == TopoInit => TopoInv
<1> SUFFICES ASSUME TopoInit PROVE TopoInv
  OBVIOUS
<1>1. PICK g \in KnownGraphs : edges = g.edges /\ so = g.so
  BY DEF TopoInit
<1>2. edges \subseteq ValidEdges /\ so \subseteq (Txn \ {0}) \X (Txn \ {0})
  BY <1>1, KnownGraphsAssumption
<1> QED
  BY <1>2, TopoStartInv DEF TopoInit

\* CountInDegrees starts a pass: every edge is unrelaxed.
LEMMA CountInDegreesInv ==
  ASSUME TopoTypeOK, CountInDegrees
  PROVE  TopoTypeOK' /\ PassInv'
<1> DEFINE Preds(v) == {u \in BCNodes : <<u, v>> \in GraphOf(mode)}
           Zero == {v \in BCNodes : in_degrees'[v] = 0}
<1>1. /\ tpc' = "sorting" /\ sorted_arr' = << >> /\ pending' = {}
      /\ UNCHANGED <<edges, so, mode, nid2rank>>
      /\ in_degrees' = [v \in BCNodes |-> Cardinality(Preds(v))]
      /\ Q' \in AscendingSeqs(Zero)
  BY DEF CountInDegrees
<1>2. GraphOf(mode)' = GraphOf(mode)
  BY <1>1 DEF GraphOf
<1>3. \A v \in BCNodes : in_degrees'[v] = Cardinality(Preds(v)) /\ in_degrees'[v] \in Nat
  BY <1>1, NodeSetsFinite
<1>4. in_degrees' \in [BCNodes -> Nat]
  BY <1>1, <1>3
<1>5. Q' \in Seq(BCNodes) /\ NodesOf(Q') = Zero /\ NoRepeats(Q')
  BY <1>1, AscendingSeqFacts
<1>6. NodesOf(sorted_arr') = {} /\ NoRepeats(sorted_arr') /\ DOMAIN sorted_arr' = {}
  BY <1>1 DEF NodesOf, NoRepeats
<1>7. TopoTypeOK'
  BY <1>1, <1>4, <1>5 DEF TopoTypeOK
<1>8. InDegreesCount'
  <2>1. \A v : Unrelaxed(v)' = Preds(v)
    BY <1>1, <1>2, <1>6 DEF Unrelaxed
  <2> QED
    BY <1>3, <2>1 DEF InDegreesCount
<1>9. QueuedOnce'
  BY <1>5, <1>6 DEF QueuedOnce
<1>10. ZeroIffQueued'
  BY <1>5, <1>6 DEF ZeroIffQueued
<1>11. PendingOfLast' /\ PredecessorsFirst'
  BY <1>1, <1>6 DEF PendingOfLast, PredecessorsFirst
<1> QED
  BY <1>7, <1>8, <1>9, <1>10, <1>11 DEF PassInv

\* PopNode moves a node all of whose predecessors are sorted; the edges out
\* of it stay unrelaxed.
LEMMA PopNodeInv ==
  ASSUME TopoTypeOK, PassInv, PopNode
  PROVE  TopoTypeOK' /\ PassInv'
<1> DEFINE h == Head(Q)
           n == Len(sorted_arr)
<1>1. /\ Q # << >> /\ pending = {}
      /\ Q' = Tail(Q) /\ sorted_arr' = Append(sorted_arr, h)
      /\ pending' = {v \in BCNodes : <<h, v>> \in GraphOf(mode)}
      /\ UNCHANGED <<edges, so, mode, tpc, in_degrees, nid2rank>>
  BY DEF PopNode
<1>2. /\ Q \in Seq(BCNodes) /\ sorted_arr \in Seq(BCNodes)
      /\ NoRepeats(Q) /\ NoRepeats(sorted_arr)
      /\ NodesOf(Q) \cap NodesOf(sorted_arr) = {}
  BY DEF TopoTypeOK, PassInv, QueuedOnce
<1>3. GraphOf(mode)' = GraphOf(mode)
  BY <1>1 DEF GraphOf
<1>4. /\ h \in BCNodes /\ Q' \in Seq(BCNodes)
      /\ NodesOf(Q) = NodesOf(Q') \cup {h} /\ h \notin NodesOf(Q')
      /\ NoRepeats(Q')
  BY <1>1, <1>2, TailFacts
<1>5. h \notin NodesOf(sorted_arr)
  BY <1>2, <1>4
<1>6. /\ sorted_arr' \in Seq(BCNodes)
      /\ NodesOf(sorted_arr') = NodesOf(sorted_arr) \cup {h}
      /\ NoRepeats(sorted_arr')
      /\ n \in Nat /\ DOMAIN sorted_arr = 1..n
      /\ Len(sorted_arr') = n + 1 /\ DOMAIN sorted_arr' = 1..n+1
      /\ \A i \in 1..n : sorted_arr'[i] = sorted_arr[i]
      /\ sorted_arr'[n + 1] = h
  BY <1>1, <1>2, <1>4, <1>5, AppendFacts
<1> HIDE DEF h, n
<1>7. TopoTypeOK'
  BY <1>1, <1>4, <1>6 DEF TopoTypeOK
<1>8. LastSorted' = h
  BY <1>6 DEF LastSorted
<1>9. InDegreesCount'
  <2>1. ASSUME NEW v \in BCNodes PROVE Unrelaxed(v)' = Unrelaxed(v)
    BY <1>1, <1>3, <1>5, <1>6, <1>8 DEF Unrelaxed
  <2> QED
    BY <1>1, <2>1 DEF InDegreesCount, PassInv
<1>10. QueuedOnce'
  BY <1>2, <1>4, <1>6 DEF QueuedOnce
<1>11. ZeroIffQueued'
  BY <1>1, <1>4, <1>6 DEF PassInv, ZeroIffQueued
<1>12. PendingOfLast'
  <2>1. sorted_arr' # << >>
    BY <1>6
  <2> QED
    BY <1>1, <1>3, <1>8, <2>1 DEF PendingOfLast
<1>13. PredecessorsFirst'
  <2> SUFFICES ASSUME NEW j \in 1..n+1, NEW u \in BCNodes,
                      <<u, sorted_arr'[j]>> \in GraphOf(mode)
               PROVE  \E i \in 1..j-1 : sorted_arr'[i] = u
    BY <1>3, <1>6 DEF PredecessorsFirst
  <2>1. CASE j \in 1..n
    <3>1. <<u, sorted_arr[j]>> \in GraphOf(mode) /\ j \in DOMAIN sorted_arr
      BY <1>6, <2>1
    <3>2. PICK i \in 1..j-1 : sorted_arr[i] = u
      BY <3>1 DEF PassInv, PredecessorsFirst
    <3>3. i \in 1..n
      BY <1>6, <2>1
    <3> QED
      BY <1>6, <3>2, <3>3
  <2>2. CASE j = n + 1
    <3>1. in_degrees[h] = 0
      BY <1>4 DEF PassInv, ZeroIffQueued
    <3>2. IsFiniteSet(Unrelaxed(h))
      BY NodeSetsFinite DEF Unrelaxed
    <3>3. Unrelaxed(h) = {}
      BY <1>4, <3>1, <3>2, FS_EmptySet DEF PassInv, InDegreesCount
    <3>4. u \in NodesOf(sorted_arr)
      BY <1>6, <2>2, <3>3 DEF Unrelaxed
    <3>5. PICK i \in 1..n : sorted_arr[i] = u
      BY <1>6, <3>4 DEF NodesOf
    <3>6. i \in 1..j-1
      BY <1>6, <2>2
    <3> QED
      BY <1>6, <3>5, <3>6
  <2> QED
    BY <1>6, <2>1, <2>2
<1> QED
  BY <1>7, <1>9, <1>10, <1>11, <1>12, <1>13 DEF PassInv

\* RelaxEdge takes one member out of one Unrelaxed set and queues its node
\* when that was the last one.
LEMMA RelaxEdgeInv ==
  ASSUME TopoTypeOK, PassInv, RelaxEdge
  PROVE  TopoTypeOK' /\ PassInv'
<1>1. PICK v \in pending :
        /\ pending' = pending \ {v}
        /\ in_degrees' = [in_degrees EXCEPT ![v] = @ - 1]
        /\ Q' = IF in_degrees'[v] = 0 THEN Append(Q, v) ELSE Q
  BY DEF RelaxEdge
<1>2. UNCHANGED <<edges, so, mode, tpc, sorted_arr, nid2rank>>
  BY DEF RelaxEdge
<1>3. GraphOf(mode)' = GraphOf(mode) /\ LastSorted' = LastSorted
  BY <1>2 DEF GraphOf, LastSorted
<1>4. /\ v \in BCNodes /\ in_degrees \in [BCNodes -> Nat]
      /\ Q \in Seq(BCNodes) /\ NoRepeats(Q)
      /\ sorted_arr # << >> /\ LastSorted \in BCNodes
      /\ <<LastSorted, v>> \in GraphOf(mode)
  <2>1. sorted_arr # << >> /\ <<LastSorted, v>> \in GraphOf(mode)
    BY DEF PassInv, PendingOfLast
  <2>2. LastSorted \in BCNodes
    BY <2>1 DEF LastSorted, TopoTypeOK
  <2> QED
    BY <2>1, <2>2 DEF TopoTypeOK, PassInv, QueuedOnce
<1>5. LastSorted \in Unrelaxed(v)
  BY <1>4 DEF Unrelaxed
<1>6. Unrelaxed(v)' = Unrelaxed(v) \ {LastSorted}
  <2>1. LastSorted \in NodesOf(sorted_arr)
    BY <1>4 DEF LastSorted, NodesOf, TopoTypeOK
  <2> QED
    BY <1>1, <1>2, <1>3, <2>1 DEF Unrelaxed
<1>7. ASSUME NEW w \in BCNodes, w # v PROVE Unrelaxed(w)' = Unrelaxed(w)
  BY <1>1, <1>2, <1>3, <1>7 DEF Unrelaxed
<1>8. IsFiniteSet(Unrelaxed(v)) /\ Cardinality(Unrelaxed(v)) \in Nat
      /\ Cardinality(Unrelaxed(v)') \in Nat
  BY NodeSetsFinite, <1>6 DEF Unrelaxed
<1>9. Cardinality(Unrelaxed(v)') = Cardinality(Unrelaxed(v)) - 1
  BY <1>5, <1>6, <1>8, FS_RemoveElement
<1>10. in_degrees[v] = Cardinality(Unrelaxed(v)) /\ in_degrees[v] # 0
  BY <1>4, <1>8, <1>9 DEF PassInv, InDegreesCount
<1>11. in_degrees'[v] = Cardinality(Unrelaxed(v)')
  BY <1>1, <1>4, <1>9, <1>10
<1>12. \A w \in BCNodes : w # v => in_degrees'[w] = in_degrees[w]
  BY <1>1, <1>4
<1>13. in_degrees' \in [BCNodes -> Nat]
  <2>1. in_degrees[v] - 1 \in Nat
    BY <1>8, <1>9, <1>10
  <2> QED
    BY <1>1, <1>4, <2>1
<1>14. v \notin NodesOf(Q) /\ v \notin NodesOf(sorted_arr)
  BY <1>4, <1>10 DEF PassInv, ZeroIffQueued
<1>15. /\ Q' \in Seq(BCNodes) /\ NoRepeats(Q')
       /\ NodesOf(Q') = IF in_degrees'[v] = 0 THEN NodesOf(Q) \cup {v} ELSE NodesOf(Q)
  <2>1. CASE in_degrees'[v] = 0
    BY <1>1, <1>4, <1>14, <2>1, AppendFacts
  <2>2. CASE in_degrees'[v] # 0
    BY <1>1, <1>4, <2>2
  <2> QED
    BY <2>1, <2>2
<1>16. TopoTypeOK'
  BY <1>1, <1>2, <1>13, <1>15 DEF TopoTypeOK
<1>17. InDegreesCount'
  <2> SUFFICES ASSUME NEW w \in BCNodes PROVE in_degrees'[w] = Cardinality(Unrelaxed(w)')
    BY DEF InDegreesCount
  <2>1. CASE w = v
    BY <1>11, <2>1
  <2>2. CASE w # v
    BY <1>7, <1>12, <2>2 DEF PassInv, InDegreesCount
  <2> QED
    BY <2>1, <2>2
<1>18. QueuedOnce'
  BY <1>2, <1>14, <1>15 DEF PassInv, QueuedOnce
<1>19. ZeroIffQueued'
  BY <1>2, <1>12, <1>14, <1>15 DEF PassInv, ZeroIffQueued
<1>20. PendingOfLast'
  BY <1>1, <1>2, <1>3 DEF PassInv, PendingOfLast
<1>21. PredecessorsFirst'
  BY <1>2, <1>3 DEF PassInv, PredecessorsFirst
<1> QED
  BY <1>16, <1>17, <1>18, <1>19, <1>20, <1>21 DEF PassInv
\* A failed first pass: the session order is inconsistent with the edges.
LEMMA DropSessionOrderInv == ASSUME TopoInv, DropSessionOrder PROVE TopoInv'
<1>1. /\ PassOver /\ Len(sorted_arr) # n_nodes_bc /\ tpc = "sorting"
      /\ mode = "session" /\ mode' = "plain" /\ tpc' = "start"
      /\ UNCHANGED <<edges, so, in_degrees, Q, sorted_arr, pending, nid2rank>>
  BY DEF DropSessionOrder, PassOver
<1>2. TopoTypeOK /\ PassInv
  BY <1>1 DEF TopoInv
<1>3. ~Acyclic(BCNodes, GraphOf(mode))
  BY <1>1, <1>2, ShortPassCycle
<1>4. ~Acyclic(BCNodes, to_BC_graph_w_session_order(edges, so))
  BY <1>1, <1>3, GraphOfSession
<1>5. FallbackIsNeeded'
  BY <1>1, <1>4 DEF FallbackIsNeeded
<1>6. TopoTypeOK'
  BY <1>1, <1>2 DEF TopoTypeOK
<1> QED
  BY <1>1, <1>5, <1>6 DEF TopoInv, RanksAreTopological, RejectIsCycle

\* A failed second pass: the edges alone are cyclic.
LEMMA RejectCycleInv == ASSUME TopoInv, RejectCycle PROVE TopoInv'
<1>1. /\ PassOver /\ Len(sorted_arr) # n_nodes_bc /\ tpc = "sorting"
      /\ mode = "plain" /\ tpc' = "reject"
      /\ UNCHANGED <<edges, so, mode, in_degrees, Q, sorted_arr, pending, nid2rank>>
  BY DEF RejectCycle, PassOver
<1>2. TopoTypeOK /\ PassInv /\ FallbackIsNeeded
  BY <1>1 DEF TopoInv
<1>3. ~Acyclic(BCNodes, GraphOf(mode))
  BY <1>1, <1>2, ShortPassCycle
<1>4. ~Acyclic(BCNodes, to_BC_graph(edges))
  BY <1>1, <1>3, GraphOfPlain
<1>5. RejectIsCycle'
  BY <1>1, <1>4 DEF RejectIsCycle
<1>6. TopoTypeOK' /\ FallbackIsNeeded'
  BY <1>1, <1>2 DEF TopoTypeOK, FallbackIsNeeded
<1> QED
  BY <1>1, <1>5, <1>6 DEF TopoInv, RanksAreTopological

\* A pass that sorted every node: its order is the ranking.
LEMMA RankNodesInv == ASSUME TopoInv, RankNodes PROVE TopoInv'
<1>1. /\ Len(sorted_arr) = n_nodes_bc /\ tpc = "sorting" /\ tpc' = "sorted"
      /\ nid2rank' = PassRank
      /\ UNCHANGED <<edges, so, mode, in_degrees, Q, sorted_arr, pending>>
  BY DEF RankNodes, PassOver, PassRank
<1>2. TopoTypeOK /\ PassInv /\ FallbackIsNeeded
  BY <1>1 DEF TopoInv
<1>3. /\ nid2rank' \in [BCNodes -> 0..n_nodes_bc - 1]
      /\ \A u, v \in BCNodes : nid2rank'[u] = nid2rank'[v] => u = v
      /\ \A e \in to_BC_graph(edges) : nid2rank'[e[1]] < nid2rank'[e[2]]
  BY <1>1, <1>2, FullPassRanks
<1>4. TopoTypeOK' /\ FallbackIsNeeded'
  BY <1>1, <1>2, <1>3 DEF TopoTypeOK, FallbackIsNeeded
<1>5. RanksAreTopological'
  BY <1>1, <1>3 DEF RanksAreTopological
<1> QED
  BY <1>1, <1>4, <1>5 DEF TopoInv, RejectIsCycle

LEMMA TopoStepInv == ASSUME TopoInv, TopoStep PROVE TopoInv'
<1>1. CASE CountInDegrees
  <2>1. TopoTypeOK' /\ PassInv' /\ UNCHANGED <<edges, so, mode>> /\ tpc' = "sorting"
    BY <1>1, CountInDegreesInv DEF TopoInv, CountInDegrees
  <2> QED
    BY <2>1 DEF TopoInv, RanksAreTopological, RejectIsCycle, FallbackIsNeeded
<1>2. CASE PopNode
  <2>1. TopoTypeOK' /\ PassInv' /\ UNCHANGED <<edges, so, mode>> /\ tpc' = "sorting"
    BY <1>2, PopNodeInv DEF TopoInv, PopNode
  <2> QED
    BY <2>1 DEF TopoInv, RanksAreTopological, RejectIsCycle, FallbackIsNeeded
<1>3. CASE RelaxEdge
  <2>1. TopoTypeOK' /\ PassInv' /\ UNCHANGED <<edges, so, mode>> /\ tpc' = "sorting"
    BY <1>3, RelaxEdgeInv DEF TopoInv, RelaxEdge
  <2> QED
    BY <2>1 DEF TopoInv, RanksAreTopological, RejectIsCycle, FallbackIsNeeded
<1> QED
  BY <1>1, <1>2, <1>3, DropSessionOrderInv, RejectCycleInv, RankNodesInv DEF TopoStep

LEMMA TopoStutterInv == ASSUME TopoInv, UNCHANGED <<edges, so, topoVars>> PROVE TopoInv'
  BY DEF TopoInv, topoVars, TopoTypeOK, PassInv, InDegreesCount, QueuedOnce, ZeroIffQueued,
         PendingOfLast, PredecessorsFirst, Unrelaxed, LastSorted, GraphOf,
         RanksAreTopological, RejectIsCycle, FallbackIsNeeded

\* The inductive invariant holds in every state of my_topo_sort.
THEOREM TopoInvariant == TopoSpec => []TopoInv
<1>1. TopoInv /\ [TopoNext]_<<edges, so, topoVars>> => TopoInv'
  BY TopoStepInv, TopoStutterInv DEF TopoNext
<1> QED
  BY <1>1, TopoInitInv, PTL DEF TopoSpec

(***************************************************************************)
(* The ranks my_topo_sort returns are a topological order of all the nodes *)
(* of the known graph, for every graph and either pass.                    *)
(***************************************************************************)
THEOREM RanksTheorem == TopoSpec => []RanksAreTopological
<1>1. TopoInv => RanksAreTopological
  BY DEF TopoInv
<1> QED
  BY <1>1, TopoInvariant, PTL

(***************************************************************************)
(* my_topo_sort raises RejectException only for a cyclic known graph.      *)
(***************************************************************************)
THEOREM RejectTheorem == TopoSpec => []RejectIsCycle
<1>1. TopoInv => RejectIsCycle
  BY DEF TopoInv
<1> QED
  BY <1>1, TopoInvariant, PTL

(***************************************************************************)
(* my_topo_sort gives up the session order only when it has to.            *)
(***************************************************************************)
THEOREM FallbackTheorem == TopoSpec => []FallbackIsNeeded
<1>1. TopoInv => FallbackIsNeeded
  BY DEF TopoInv
<1> QED
  BY <1>1, TopoInvariant, PTL

(***************************************************************************)
(* The types of my_topo_sort's variables; in particular an in-degree is    *)
(* never counted below zero.                                               *)
(***************************************************************************)
THEOREM TopoTypeTheorem == TopoSpec => []TopoTypeOK
<1>1. TopoInv => TopoTypeOK
  BY DEF TopoInv
<1> QED
  BY <1>1, TopoInvariant, PTL
=============================================================================
