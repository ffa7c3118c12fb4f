----------------------------- MODULE PolyGraph -----------------------------
(***************************************************************************)
(* The graph Viper builds from a history (class ArgumentedPolyGraph of     *)
(* utils/graphs.py), its translation to a begin/commit graph, and the      *)
(* question the SAT checker answers about it.                              *)
(*                                                                         *)
(* A transaction is a number; 0 is T0, the fictitious transaction that     *)
(* wrote the initial database.  An edge is a triple <<src, dst, type>>.    *)
(* A constraint is a pair <<ES1, ES2>> of edge sets, exactly one of which  *)
(* the checker must add to the known edges.                                *)
(***************************************************************************)
EXTENDS Integers, FiniteSets

CONSTANT NTxns      \* transactions of the history, T0 not counted

ASSUME NTxnsAssumption == NTxns \in Nat

Txn == 0..NTxns
n_nodes == NTxns + 1

CbTypes == {"wr", "ww", "cb"}
EdgeTypes == CbTypes \cup {"rw"}

\* Edges that add_edge takes (src != dst, dst != 0) between transactions of the
\* history; is_valid_node_id is meant to assert the latter and returns True
\* always, so that it is for the builders to see to it.
ValidEdges == {e \in Txn \X Txn \X EdgeTypes : e[1] # e[2] /\ e[2] # 0}

\* A set of constraints over valid edges.
ValidConstraints(con) ==
  \A c \in con : c \in (SUBSET ValidEdges) \X (SUBSET ValidEdges)

(***************************************************************************)
(* add_edge for every edge of new.  An rw edge is always added; wr, ww and *)
(* cb all say that src commits before dst begins, and an edge of one of    *)
(* these types is dropped when E has the same pair under another of them.  *)
(***************************************************************************)
Shadowed(E, e) ==
  /\ e[3] \in CbTypes
  /\ \E t \in CbTypes \ {e[3]} : <<e[1], e[2], t>> \in E

AddEdges(E, new) == E \cup {e \in new : ~Shadowed(E, e)}

-----------------------------------------------------------------------------
(***************************************************************************)
(* Begin/commit graphs.  Transaction i has a begin node and a commit node. *)
(* A commit-before edge runs from the commit of src to the begin of dst,   *)
(* an rw edge from the begin of src to the commit of dst.                  *)
(***************************************************************************)
si(i) == 2*i + 1
ci(i) == 2*i + 2

n_nodes_bc == 2 * n_nodes
BCNodes == 1..n_nodes_bc

BCEdge(e) == IF e[3] = "rw" THEN <<si(e[1]), ci(e[2])>>
                            ELSE <<ci(e[1]), si(e[2])>>

to_BC_graph(E) == {<<si(i), ci(i)>> : i \in Txn} \cup {BCEdge(e) : e \in E}

\* so holds the pairs of transactions that follow each other in a session.
to_BC_graph_w_session_order(E, so) ==
  to_BC_graph(E) \cup {<<ci(p[1]), si(p[2])>> : p \in so}

(***************************************************************************)
(* A finite directed graph has no cycle iff each non-empty set of its      *)
(* nodes has a member without a predecessor in the set.                    *)
(***************************************************************************)
Acyclic(nodes, G) ==
  \A S \in SUBSET nodes :
    S # {} => \E v \in S : \A u \in S : <<u, v>> \notin G

-----------------------------------------------------------------------------
(***************************************************************************)
(* MonoBCPolyGraphCheckerOptimized.  The checker numbers the nodes         *)
(* differently: T0 has a single node 0.                                    *)
(***************************************************************************)
CheckerSi(i) == IF i # 0 THEN 2*i - 1 ELSE 0
CheckerCi(i) == IF i # 0 THEN 2*i ELSE 0

CheckerNodes == 0..2*NTxns

CheckerEdge(e) == IF e[3] = "rw" THEN <<CheckerSi(e[1]), CheckerCi(e[2])>>
                                 ELSE <<CheckerCi(e[1]), CheckerSi(e[2])>>

CheckerGraph(E) ==
  {<<CheckerSi(i), CheckerCi(i)>> : i \in Txn \ {0}}
    \cup {CheckerEdge(e) : e \in E}

\* The edges a solver assignment turns on: ES1 of the constraints in sel,
\* ES2 of the others.
Chosen(con, sel) ==
  (UNION {c[1] : c \in sel}) \cup (UNION {c[2] : c \in con \ sel})

(***************************************************************************)
(* The verdict of check(): MonoSAT finds an assignment that makes exactly  *)
(* one edge set of every constraint true and keeps the graph acyclic.  An  *)
(* edge added twice has two literals, so the constraints do not interact   *)
(* except through acyclicity.                                              *)
(***************************************************************************)
Sat(E, con) ==
  \E sel \in SUBSET con : Acyclic(CheckerNodes, CheckerGraph(E \cup Chosen(con, sel)))

Unsat(E, con) == ~Sat(E, con)
=============================================================================
