----------------------------- MODULE ViperMain -----------------------------
(***************************************************************************)
(* main_allcases.py from a directory of logs to the verdict, for the       *)
(* algorithms that need no heuristic: 5 (chains) and 1, 2 and 4 (pairs),   *)
(* which share the pair builder and differ in the checker.  It composes    *)
(* the assembly of the logs with the two builders and the checkers.        *)
(*                                                                         *)
(* The assembly makes the check_INT calls, so that the builders start with *)
(* the known graph; their own parsing actions are never enabled here.      *)
(***************************************************************************)
EXTENDS ViperPairs, Encodings, LogAssembly

CONSTANT CommandLines   \* those of a run: [algo, ww_order, sub_dir] records,
                        \* the last one the log directory itself

\* ww_order with algorithm 1 is not modelled (see Z301Sat).
ASSUME CommandLinesAssumption ==
  \A c \in CommandLines : /\ c.algo \in {1, 2, 4, 5} /\ c.ww_order \in BOOLEAN
                          /\ c.algo = 1 => ~c.ww_order

VARIABLE args           \* [algo, ww_order]

mvars == <<vvars, lvars, args>>

MInit ==
  /\ \E c \in CommandLines : /\ args = [algo |-> c.algo, ww_order |-> c.ww_order]
                             /\ LStart(c.sub_dir)
  /\ hist = [txns |-> << >>, sessions |-> {}, hasInit |-> FALSE, init |-> << >>]
  /\ edges = {} /\ so = {} /\ readfrom = {} /\ wwpairs = {}
  /\ chains = {} /\ conn = {}
  /\ bpc = "load"
  /\ verdict = "none"

\* load_func, construct_all_txns_json
Load == LStep /\ UNCHANGED <<vvars, args>>

\* The history goes to the builder; the assertion of initial_state ends it.
HandOver ==
  /\ bpc = "load"
  /\ lpc = "loaded"
  /\ hist' = Assembled
  /\ bpc' = IF InitialStateAsserts THEN "crash" ELSE "known"
  /\ UNCHANGED <<edges, so, readfrom, wwpairs, chains, conn, verdict, lvars, args>>

\* An exception of the parser passes through the builder.
LoadRaises ==
  /\ bpc = "load"
  /\ lpc \in {"reject", "crash"}
  /\ Stop(lpc)
  /\ UNCHANGED <<verdict, lvars, args>>

\* Mutant: algorithm 2 gets the pair builder's graph and ignores the pairs.
CheckerAccepts_NoPairs ==
  CASE args.algo = 1 -> Z301Sat(edges, conn)
    [] args.algo = 2 -> EdgeWeightSat(edges, {}, {})
    [] OTHER -> Sat(edges, PairConstraints)

\* checker.check(n, edges, edge_pairs, ext_writes): ext_writes is None for
\* algorithms 1 and 2 unless ww_order asks for it.
CheckerAccepts ==
  CASE args.algo = 1 -> Z301Sat(edges, conn)
    [] args.algo = 2 -> EdgeWeightSat(edges, conn, IF args.ww_order THEN WriterPairs ELSE {})
    [] OTHER -> Sat(edges, PairConstraints)

\* result = checker.check(...) of main_algo_0_1_2_4
RunPairChecker ==
  /\ bpc = "built"
  /\ verdict = "none"
  /\ verdict' = IF CheckerAccepts THEN "accept" ELSE "reject"
  /\ UNCHANGED bvars

\* get_algo: the builder and the checker of the algorithm.
Run ==
  /\ IF args.algo = 5 THEN VStep ELSE PairBuild \/ CatchReject \/ RunPairChecker
  /\ UNCHANGED <<lvars, args>>

MStep == Load \/ HandOver \/ LoadRaises \/ Run

MNext == MStep \/ (VDone /\ UNCHANGED mvars)

MSpec == MInit /\ [][MNext]_mvars /\ WF_mvars(MStep)

-----------------------------------------------------------------------------
(* The history that a directory logs, whatever order its files are listed  *)
(* in; like SnapshotIsolation no translation of code.                      *)

Positions(dir) == {p \in (DOMAIN dir) \X (1..NTxns) :
                     p[2] \in DOMAIN dir[p[1]] /\ ~dir[p[1]][p[2]].initial}

InitialTxns == UNION {{x.value : x \in {x \in ToSet(logs[f]) : x.initial}} : f \in DOMAIN logs}

InitialPairs(value) ==
  IF IsGlobalQuery(value) THEN RangeItems(value[1])
  ELSE {p \in {<<m.k, m.v>> : m \in ToSet(value)} : LastWriteIs(value, Len(value) + 1, p[1], p[2])}

LoggedHistory ==
  LET at == SetToSeq(Positions(logs))
      number(p) == CHOOSE t \in DOMAIN at : at[t] = p
      init == UNION {InitialPairs(value) : value \in InitialTxns}
  IN  [txns |-> [t \in DOMAIN at |-> logs[at[t][1]][at[t][2]].value],
       sessions |-> {[i \in DOMAIN logs[f] |-> number(<<f, i>>)] :
                       f \in {p[1] : p \in Positions(logs)}},
       hasInit |-> InitialTxns # {},
       init |-> [key \in KeysOf(init) |-> (CHOOSE p \in init : p[1] = key)[2]]]

\* The directories of NTxns transactions: one file for each session and at
\* most one for the initial state, queries that return a key once.
LogDirectory(dir) ==
  /\ InitialAlone(dir)
  /\ \A f, g \in DOMAIN dir :
       is_initial_history(dir[f]) /\ is_initial_history(dir[g]) => f = g
  /\ \A f \in DOMAIN dir : Len(dir[f]) <= NTxns \/ is_initial_history(dir[f])
  /\ IsFiniteSet(Positions(dir)) /\ Cardinality(Positions(dir)) = NTxns
  /\ \A f \in DOMAIN dir : \A i \in DOMAIN dir[f] :
       LET value == dir[f][i].value
       IN  /\ Len(value) \in Nat /\ DOMAIN value = 1..Len(value)
           /\ \A j \in DOMAIN value :
                value[j].f = "range" =>
                  /\ IsFiniteSet(RangeItems(value[j]))
                  /\ \A p, q \in RangeItems(value[j]) :
                       p = <<p[1], p[2]>> /\ (p[1] = q[1] => p[2] = q[2])

(***************************************************************************)
(* End to end: whichever way os.listdir orders the logs, and with each of  *)
(* the four algorithms, the history logged in the directory is SI if it is *)
(* accepted ...                                                            *)
(***************************************************************************)
AcceptedLogsAreSI == verdict = "accept" => IsSI(LoggedHistory, StrongSession)

(***************************************************************************)
(* ... and is not if it is rejected.                                       *)
(***************************************************************************)
RejectedLogsAreNotSI == verdict = "reject" => ~IsSI(LoggedHistory, StrongSession)
=============================================================================
