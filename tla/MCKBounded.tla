---------------------------- MODULE MCKBounded -----------------------------
(* Polygraphs over three transactions: T0's edges, up to two other known   *)
(* edges, and up to two constraints between pairs of writers, each with or *)
(* without a reader of either side.                                        *)
EXTENDS KBounded

T0Edges == {<<0, i, "cb">> : i \in 1..NTxns}

FreeEdges == {e \in ValidEdges : e[1] # 0 /\ e[3] \in {"wr", "rw"}}

\* The edge set "a before b" with the readers R of a's write.
Before(a, b, R) == {<<a, b, "ww">>} \cup {<<r, b, "rw">> : r \in R}

Constraints ==
  {<<Before(p[1], p[2], R1), Before(p[2], p[1], R2)>> :
     p \in {<<1, 2>>, <<2, 3>>, <<3, 1>>},
     R1 \in {{}, {1}, {3}}, R2 \in {{}, {2}, {3}}}

WellFormed(c) == c \in (SUBSET ValidEdges) \X (SUBSET ValidEdges)

Choices == {c \in Constraints : WellFormed(c)}

\* one known edge and two constraints, or two known edges and one constraint
ChainGraphs ==
  {[edges |-> T0Edges \cup E, so |-> s, conn |-> C, decidedStay |-> FALSE] :
     E \in {{}} \cup {{e} : e \in FreeEdges},
     s \in {{}, {<<1, 2>>}},
     C \in {{}} \cup {{c, d} : c \in Choices, d \in Choices}}
  \cup
  {[edges |-> T0Edges \cup {e, f}, so |-> {<<1, 2>>}, conn |-> C, decidedStay |-> FALSE] :
     e \in FreeEdges, f \in FreeEdges, C \in {{}} \cup {{c} : c \in Choices}}

\* A pair of writers, and a read of the first one's write that the second
\* one precedes or overwrites.
EdgePairs ==
  {<<{<<p[1], p[2], "ww">>}, {<<p[2], p[1], "ww">>}>> : p \in {<<1, 2>>, <<2, 3>>, <<3, 1>>}}
    \cup {<<{<<2, 1, "ww">>}, {<<3, 2, "rw">>}>>, <<{<<3, 2, "ww">>}, {<<1, 3, "rw">>}>>}

PairGraphs ==
  {[edges |-> T0Edges \cup {e, f}, so |-> {<<1, 2>>}, conn |-> C, decidedStay |-> TRUE] :
     e \in FreeEdges, f \in FreeEdges, C \in {{c, d} : c \in EdgePairs, d \in EdgePairs}}

MCPolyGraphs == ChainGraphs \cup PairGraphs
=============================================================================
