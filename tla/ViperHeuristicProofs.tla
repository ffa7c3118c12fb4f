----------------------- MODULE ViperHeuristicProofs ------------------------
(***************************************************************************)
(* Algorithm 6 implements algorithm 5 end to end, on every well-formed     *)
(* history: what the chain builder hands over satisfies what the sort and  *)
(* the loop over the bounds assume, and then their proof applies.          *)
(***************************************************************************)
EXTENDS ViperHeuristic, ViperAcceptProofs

KP == INSTANCE KBoundedProofs WITH KnownGraphs <- {}, PolyGraphs <- {}

-----------------------------------------------------------------------------
(* The heuristic that runs on the builder's graph is the one of KBounded.  *)

LEMMA SameCardinality == \A S : K!Cardinality(S) = KP!Cardinality(S)
  BY DEF K!Cardinality, KP!Cardinality

LEMMA SameNodes == /\ K!Txn = KP!Txn /\ K!n_nodes_bc = KP!n_nodes_bc /\ K!BCNodes = KP!BCNodes
                   /\ \A i : K!si(i) = KP!si(i) /\ K!ci(i) = KP!ci(i)
                   /\ \A e : K!BCEdge(e) = KP!BCEdge(e)
  BY DEF K!Txn, KP!Txn, K!n_nodes_bc, KP!n_nodes_bc, K!n_nodes, KP!n_nodes,
         K!BCNodes, KP!BCNodes, K!si, KP!si, K!ci, KP!ci, K!BCEdge, KP!BCEdge

LEMMA SameGraph == \A m : K!GraphOf(m) = KP!GraphOf(m)
  BY SameNodes
     DEF K!GraphOf, KP!GraphOf, K!to_BC_graph, KP!to_BC_graph,
         K!to_BC_graph_w_session_order, KP!to_BC_graph_w_session_order

LEMMA SameSeqs == \A S : K!AscendingSeqs(S) = KP!AscendingSeqs(S)
  BY SameCardinality
     DEF K!AscendingSeqs, KP!AscendingSeqs, K!NodesOf, KP!NodesOf

LEMMA SameSort == K!Sort => KP!Sort
<1>1. K!CountInDegrees => KP!CountInDegrees
  BY SameGraph, SameSeqs, SameNodes, SameCardinality DEF K!CountInDegrees, KP!CountInDegrees
<1>2. K!PopNode => KP!PopNode
  BY SameGraph, SameNodes DEF K!PopNode, KP!PopNode
<1>3. K!RelaxEdge => KP!RelaxEdge
  BY DEF K!RelaxEdge, KP!RelaxEdge
<1>4. K!DropSessionOrder => KP!DropSessionOrder
  BY SameNodes DEF K!DropSessionOrder, KP!DropSessionOrder, K!PassOver, KP!PassOver
<1>5. K!RejectCycle => KP!RejectCycle
  BY SameNodes DEF K!RejectCycle, KP!RejectCycle, K!PassOver, KP!PassOver
<1>6. K!RankNodes => KP!RankNodes
  BY SameNodes DEF K!RankNodes, KP!RankNodes, K!PassOver, KP!PassOver
<1> QED
  BY <1>1, <1>2, <1>3, <1>4, <1>5, <1>6 DEF K!Sort, KP!Sort, K!TopoStep, KP!TopoStep

LEMMA SameSat == \A E, con : K!Unsat(E, con) = KP!Unsat(E, con)
  BY DEF K!Unsat, KP!Unsat, K!Sat, KP!Sat, K!Acyclic, KP!Acyclic, K!CheckerNodes,
         KP!CheckerNodes, K!CheckerGraph, KP!CheckerGraph, K!CheckerEdge, KP!CheckerEdge,
         K!CheckerSi, KP!CheckerSi, K!CheckerCi, KP!CheckerCi, K!Txn, KP!Txn,
         K!Chosen, KP!Chosen

LEMMA SameBound == \A x : K!BoundFails(x) = KP!BoundFails(x)
<1>1. \A es, x : K!pick_this_es(es, x) = KP!pick_this_es(es, x)
  BY SameNodes DEF K!pick_this_es, KP!pick_this_es, K!Scale, KP!Scale
<1>2. \A x : K!Contradiction(x) = KP!Contradiction(x)
  BY <1>1 DEF K!Contradiction, KP!Contradiction
<1>3. \A x : K!Decided(x) = KP!Decided(x)
  BY <1>1 DEF K!Decided, KP!Decided
<1>4. \A x : K!Picked(x) = KP!Picked(x)
  BY <1>1, <1>3 DEF K!Picked, KP!Picked
<1>5. \A x : K!Remaining(x) = KP!Remaining(x)
  BY <1>3 DEF K!Remaining, KP!Remaining
<1>6. \A E, new : K!AddEdges(E, new) = KP!AddEdges(E, new)
  BY DEF K!AddEdges, KP!AddEdges, K!Shadowed, KP!Shadowed, K!CbTypes, KP!CbTypes
<1> QED
  BY <1>2, <1>4, <1>5, <1>6, SameSat DEF K!BoundFails, KP!BoundFails

LEMMA SameStep == K!KStep => KP!KStep
<1>1. K!SortRejects => KP!SortRejects
  BY DEF K!SortRejects, KP!SortRejects, K!topoVars, KP!topoVars
<1>2. K!FirstBound => KP!FirstBound
  BY SameNodes DEF K!FirstBound, KP!FirstBound, K!Rounded, KP!Rounded, K!SetBound, KP!SetBound,
     K!Scale, KP!Scale, K!topoVars, KP!topoVars
<1>3. K!BoundAccepts => KP!BoundAccepts
  BY SameBound DEF K!BoundAccepts, KP!BoundAccepts, K!Looping, KP!Looping, K!topoVars, KP!topoVars
<1>4. K!LastBoundRejects => KP!LastBoundRejects
  BY SameBound, SameNodes
     DEF K!LastBoundRejects, KP!LastBoundRejects, K!Looping, KP!Looping,
         K!FullBound, KP!FullBound, K!Scale, KP!Scale, K!topoVars, KP!topoVars
<1>5. K!NextBound => KP!NextBound
  BY SameBound, SameNodes
     DEF K!NextBound, KP!NextBound, K!Looping, KP!Looping, K!FullBound, KP!FullBound,
         K!Rounded, KP!Rounded, K!SetBound, KP!SetBound,
         K!Scale, KP!Scale, K!topoVars, KP!topoVars
<1> QED
  BY <1>1, <1>2, <1>3, <1>4, <1>5, SameSort DEF K!KStep, KP!KStep

-----------------------------------------------------------------------------
(* The invariant: until the polygraph is built the heuristic has not       *)
(* started, and there is no verdict unless the builder rejected; from then *)
(* on the invariant of KBounded holds for the builder's polygraph.         *)

Fresh == K!TopoStart /\ decidedStay = FALSE /\ ith_k = 0 /\ k = 0

HInv ==
  /\ BInv
  /\ verdict \in {"none", "accept", "reject"}
  /\ bpc = "built" => KP!KInv
  /\ bpc # "built" => Fresh /\ (bpc # "reject" => verdict = "none")

LEMMA StartInv == (BTypeOK /\ Fresh /\ verdict = "none") => KP!KInv
<1> SUFFICES ASSUME BTypeOK, Fresh, verdict = "none" PROVE KP!KInv
  OBVIOUS
<1>1. KP!TopoStart
  BY SameNodes DEF Fresh, K!TopoStart, KP!TopoStart
<1>2. /\ edges \subseteq KP!ValidEdges /\ so \subseteq (KP!Txn \ {0}) \X (KP!Txn \ {0})
      /\ KP!ValidConstraints(conn)
  BY DEF BTypeOK, ValidEdges, KP!ValidEdges, Txn, KP!Txn, ValidConstraints,
         KP!ValidConstraints, EdgeTypes, KP!EdgeTypes, CbTypes, KP!CbTypes
<1> QED
  BY <1>1, <1>2, KP!KStartInv, NTxnsAssumption DEF Fresh

LEMMA FreshUnchanged == ASSUME Fresh, UNCHANGED heuristicVars PROVE Fresh'
  BY DEF Fresh, heuristicVars, K!TopoStart

\* The heuristic leaves the polygraph alone.
LEMMA KStepFrame == ASSUME KP!KStep PROVE UNCHANGED <<edges, so, conn>>
  BY DEF KP!KStep, KP!Sort, KP!TopoStep, KP!CountInDegrees, KP!PopNode, KP!RelaxEdge,
         KP!DropSessionOrder, KP!RejectCycle, KP!RankNodes, KP!SortRejects, KP!FirstBound,
         KP!BoundAccepts, KP!LastBoundRejects, KP!NextBound

LEMMA HInitInv == HInit => HInv
  BY BInitInv DEF HInit, VInit, BInit, HInv, Fresh

LEMMA HBuildInv == ASSUME HInv, HBuild PROVE HInv'
<1>1. CASE Build
  <2>1. BStep /\ UNCHANGED <<verdict, heuristicVars>>
    BY <1>1 DEF HBuild, Build
  <2>2. BInv'
    BY <2>1, BStepInv DEF HInv, BNext
  <2>3. bpc \notin {"built", "reject", "crash"}
    BY <2>1 DEF BStep, INTReject, ParseCrash, Parse, IndexCrash, KnownStart,
       DirtyReadReject, ReadsCrash, ReadLoop, DivergeReject, WWLoop, DuplicateCrash,
       RangeReject, RangeLoop, CombineWrites, CyclicReject, InferRWEdges, Coalesce
  <2>4. Fresh' /\ verdict' = "none"
    BY <2>1, <2>3, FreshUnchanged DEF HInv
  <2>5. BTypeOK'
    BY <2>2 DEF BInv
  <2>6. KP!KInv'
    <3>1. (BTypeOK /\ Fresh /\ verdict = "none")' => KP!KInv'
      BY StartInv, PTL
    <3> QED
      BY <2>4, <2>5, <3>1
  <2> QED
    BY <2>2, <2>4, <2>6 DEF HInv
<1>2. CASE CatchReject
  <2>1. bpc = "reject" /\ verdict' = "reject" /\ UNCHANGED bvars /\ UNCHANGED heuristicVars
    BY <1>2 DEF HBuild, CatchReject
  <2>2. BInv' /\ bpc' = "reject"
    BY <2>1, BStepInv DEF HInv, bvars
  <2>3. Fresh'
    BY <2>1, FreshUnchanged DEF HInv
  <2> QED
    BY <2>1, <2>2, <2>3 DEF HInv
<1> QED
  BY <1>1, <1>2 DEF HBuild

LEMMA HeuristicInv == ASSUME HInv, Heuristic PROVE HInv'
<1>1. bpc = "built" /\ KP!KStep /\ UNCHANGED <<hist, readfrom, wwpairs, chains, bpc>>
  BY SameStep DEF Heuristic
<1>2. KP!KInv'
  BY <1>1, KP!KStepInv, NTxnsAssumption DEF HInv
<1>3. UNCHANGED bvars
  BY <1>1, KStepFrame DEF bvars
<1>4. BInv'
  BY <1>3, BStepInv DEF HInv
<1>5. verdict' \in {"none", "accept", "reject"}
  BY <1>2 DEF KP!KInv, KP!BoundInv
<1> QED
  BY <1>1, <1>2, <1>4, <1>5 DEF HInv

LEMMA HStutterInv == ASSUME HInv, UNCHANGED hvars PROVE HInv'
<1>1. UNCHANGED bvars /\ UNCHANGED <<verdict, bpc>> /\ UNCHANGED heuristicVars
  BY DEF hvars, vvars, bvars
<1>2. BInv'
  BY <1>1, BStepInv DEF HInv
<1>3. bpc = "built" => KP!KInv'
  <2>1. UNCHANGED KP!kvars
    BY <1>1 DEF bvars, heuristicVars, KP!kvars, KP!topoVars
  <2> QED
    BY <2>1, KP!KStutterInv, NTxnsAssumption DEF HInv
<1>4. bpc # "built" => Fresh'
  BY <1>1, FreshUnchanged DEF HInv
<1> QED
  BY <1>1, <1>2, <1>3, <1>4 DEF HInv

-----------------------------------------------------------------------------
(* The theorems. *)

\* The inductive invariant holds in every state of main_algo_6_8_12.
THEOREM HInvariant == HSpec => []HInv
<1>1. HInv /\ [HNext]_hvars => HInv'
  BY HBuildInv, HeuristicInv, HStutterInv DEF HNext, HStep
<1> QED
  BY <1>1, HInitInv, PTL DEF HSpec

LEMMA HeuristicRefines ==
  ASSUME HInv, Heuristic PROVE RunChecker \/ UNCHANGED vvars
<1>1. bpc = "built" /\ KP!KStep /\ UNCHANGED <<hist, readfrom, wwpairs, chains, bpc>>
  BY SameStep DEF Heuristic
<1>2. UNCHANGED bvars
  BY <1>1, KStepFrame DEF bvars
<1>3. KP!Direct!Check \/ UNCHANGED <<edges, conn, verdict>>
  BY <1>1, KP!KStepRefines, NTxnsAssumption DEF HInv
<1>4. KP!Direct!Unsat(edges, conn) <=> Direct!Unsat(edges, conn)
  BY DEF KP!Direct!Unsat, Direct!Unsat, KP!Direct!Sat, Direct!Sat, KP!Direct!Acyclic,
         Direct!Acyclic, KP!Direct!CheckerNodes, Direct!CheckerNodes,
         KP!Direct!CheckerGraph, Direct!CheckerGraph, KP!Direct!CheckerEdge,
         Direct!CheckerEdge, KP!Direct!CheckerSi, Direct!CheckerSi, KP!Direct!CheckerCi,
         Direct!CheckerCi, KP!Direct!Txn, Direct!Txn, KP!Direct!Chosen, Direct!Chosen
<1>5. KP!Direct!Check => Direct!Check
  BY <1>4 DEF KP!Direct!Check, Direct!Check, KP!Direct!Accept, Direct!Accept,
              KP!Direct!Reject, Direct!Reject
<1> QED
  BY <1>1, <1>2, <1>3, <1>5 DEF RunChecker, vvars

(***************************************************************************)
(* main_algo_6_8_12 run from the history to the verdict implements         *)
(* main_algo3_5: whatever the builder made of the history, its polygraph   *)
(* is one that the sort and the bounds decide as one call of the checker   *)
(* does, and a rejection of the builder is passed on unchanged.            *)
(***************************************************************************)
THEOREM Algorithm6ImplementsAlgorithm5 == HSpec => ImplementsAlgorithm5
<1>1. HInit => VInit
  BY DEF HInit
<1>2. HInv /\ [HNext]_hvars => [VNext]_vvars
  <2>1. ASSUME HInv, HBuild PROVE VNext
    BY <2>1 DEF HBuild, VNext, VStep
  <2>2. ASSUME HInv, Heuristic PROVE [VNext]_vvars
    BY <2>2, HeuristicRefines DEF VNext, VStep
  <2>3. UNCHANGED hvars => UNCHANGED vvars
    BY DEF hvars
  <2> QED
    BY <2>1, <2>2, <2>3 DEF HNext, HStep
<1> QED
  BY <1>1, <1>2, HInvariant, PTL DEF HSpec, ImplementsAlgorithm5, VSafety

(***************************************************************************)
(* So the rejections of main_algo_6_8_12 are right as well: neither the    *)
(* sort nor a bound makes it reject a regular history that is snapshot     *)
(* isolated.                                                               *)
(***************************************************************************)
THEOREM HeuristicRejectionTheorem == HSpec => [](Regular(hist) => RejectedIsNotSI)
  BY Algorithm6ImplementsAlgorithm5, RejectionTheorem, PTL DEF ImplementsAlgorithm5

(***************************************************************************)
(* And its acceptances: the edges that a bound decides in advance never    *)
(* make it accept a transparent history that is not snapshot isolated.     *)
(***************************************************************************)
THEOREM HeuristicAcceptanceTheorem == HSpec => [](Transparent(hist) => AcceptedIsSI)
  BY Algorithm6ImplementsAlgorithm5, AcceptanceTheorem, PTL DEF ImplementsAlgorithm5
=============================================================================
