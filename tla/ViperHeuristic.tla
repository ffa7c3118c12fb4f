--------------------------- MODULE ViperHeuristic --------------------------
(***************************************************************************)
(* Viper end to end with algorithm 6 (main_algo_6_8_12): the builder, the  *)
(* topological sort of its known graph and the loop over the bounds, on    *)
(* the same graph object.                                                  *)
(***************************************************************************)
EXTENDS Viper

VARIABLES mode, tpc, in_degrees, Q, sorted_arr, pending, nid2rank,
          decidedStay, ith_k, k

heuristicVars == <<mode, tpc, in_degrees, Q, sorted_arr, pending, nid2rank,
                   decidedStay, ith_k, k>>

hvars == <<vvars, heuristicVars>>

K == INSTANCE KBounded WITH KnownGraphs <- {}, PolyGraphs <- {}

\* The heuristic is the one of chain_heuristic.py.
HInit == VInit /\ K!TopoStart /\ decidedStay = FALSE /\ ith_k = 0 /\ k = 0

HBuild == (Build \/ CatchReject) /\ UNCHANGED heuristicVars

\* g.my_topo_sort() and what follows it
Heuristic == /\ bpc = "built"
             /\ K!KStep
             /\ UNCHANGED <<hist, readfrom, wwpairs, chains, bpc>>

HStep == HBuild \/ Heuristic

HNext == HStep \/ (VDone /\ UNCHANGED hvars)

HSpec == HInit /\ [][HNext]_hvars /\ WF_hvars(HStep)

-----------------------------------------------------------------------------
(***************************************************************************)
(* Algorithm 6 gives the verdict of algorithm 5 on every history: the run  *)
(* of main_algo_6_8_12 is one of main_algo3_5 with the sort and the        *)
(* bounds hidden.                                                          *)
(***************************************************************************)
ImplementsAlgorithm5 == VSafety
=============================================================================
