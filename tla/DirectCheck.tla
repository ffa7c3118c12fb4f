---------------------------- MODULE DirectCheck ----------------------------
(***************************************************************************)
(* main_algo3_5 once the graph is built: a single call of the checker on   *)
(* the whole polygraph decides.  It is also the abstract specification of  *)
(* main_algo_6_8_12, whose heuristic must not change the verdict.          *)
(***************************************************************************)
EXTENDS PolyGraph

VARIABLES
  edges,    \* known edges of g
  conn,     \* constraints
  verdict   \* "none", "accept" or "reject"

DirectInit == /\ edges \subseteq ValidEdges
              /\ ValidConstraints(conn)
              /\ verdict = "none"

Accept == /\ verdict = "none"
          /\ verdict' = "accept"
          /\ ~Unsat(edges, conn)
          /\ UNCHANGED <<edges, conn>>

Reject == /\ verdict = "none"
          /\ verdict' = "reject"
          /\ Unsat(edges, conn)
          /\ UNCHANGED <<edges, conn>>

\* result = checker.check(g, conn)
Check == Accept \/ Reject

DirectSpec == DirectInit /\ [][Check]_<<edges, conn, verdict>>
=============================================================================
