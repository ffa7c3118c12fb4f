---------------------------- MODULE MCTopoSort -----------------------------
(* All known graphs over three transactions with at most MaxEdges edges    *)
(* besides T0's, with each of a few session orders.                        *)
EXTENDS TopoSort, FiniteSetsExt

MaxEdges == 3

T0Edges == {<<0, i, "cb">> : i \in 1..NTxns}

FreeEdges == {e \in ValidEdges : e[1] # 0 /\ e[3] \in {"wr", "rw"}}

SessionOrders == {{}, {<<1, 2>>}, {<<1, 2>>, <<2, 3>>}}

MCKnownGraphs ==
  {[edges |-> T0Edges \cup E, so |-> s] :
     E \in UNION {kSubset(n, FreeEdges) : n \in 0..MaxEdges}, s \in SessionOrders}
  \cup {[edges |-> {<<1, 2, "wr">>, <<3, 2, "rw">>}, so |-> {<<2, 3>>}]}
=============================================================================
