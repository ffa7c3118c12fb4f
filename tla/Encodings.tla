----------------------------- MODULE Encodings -----------------------------
(***************************************************************************)
(* The encodings of the baselines in checker/checkers.py: Z301Checker      *)
(* (algorithms 1 and 10) and MonoSAT_EdgeWeightSIChecker (2 and 11).  Both *)
(* follow Adya: every cycle of the dependency graph has two consecutive    *)
(* anti-dependencies.  They give every transaction a begin and a commit    *)
(* timestamp beside that.                                                  *)
(*                                                                         *)
(* The timestamps are distinct and only compared, so that they exist iff   *)
(* the required comparisons are acyclic and there are enough values.  An   *)
(* edge that no constraint asks for only adds cycles, so that a solution   *)
(* with the chosen edges alone exists if there is one.                     *)
(***************************************************************************)
EXTENDS PolyGraph

CONSTANT MONO_BV_WIDTH      \* bits of a timestamp of the MonoSAT encoding

ASSUME WidthAssumption == MONO_BV_WIDTH \in Nat

\* _create_time_deps of the edges, and bi < ci.
TimeDeps(F) == to_BC_graph(F)

Pairs(F, types) == {<<e[1], e[2]>> : e \in {e \in F : e[3] \in types}}

\* The least transitive relation with the pairs of D.
Closure(D) ==
  {p \in Txn \X Txn :
     \A S \in SUBSET Txn :
       (/\ \A d \in D : d[1] = p[1] => d[2] \in S
        /\ \A d \in D : d[1] \in S => d[2] \in S) => p[2] \in S}

WRWW(F) == Closure(Pairs(F, CbTypes))
RW(F) == Pairs(F, {"rw"})

\* Edge e holds in the relation of its type.
Holds(F, e) == <<e[1], e[2]>> \in (IF e[3] = "rw" THEN RW(F) ELSE WRWW(F))

\* "no cycles with exactly one anti-dependency edge", for i < j only
NoSingleRW(F) ==
  \A i, j \in Txn : i < j => ~(<<i, j>> \in WRWW(F) /\ <<j, i>> \in RW(F))

\* Z301Checker.check without ww_order: the Xor of each pair leaves one side
\* false in relations that all pairs share.  Z3 is taken to decide: the code
\* counts an answer "unknown" as a rejection.
Z301Sat(E, con) ==
  \E sel \in SUBSET con :
    LET F == E \cup Chosen(con, sel)
    IN  /\ Acyclic(BCNodes, TimeDeps(F))
        /\ \A i \in Txn : <<i, i>> \notin WRWW(F)
        /\ NoSingleRW(F)
        /\ \A c \in con : \A e1 \in c[1], e2 \in c[2] : ~(Holds(F, e1) /\ Holds(F, e2))

\* Mutant: an rw edge weighs nothing.
DistanceLeq1_Free(F) ==
  Closure(Pairs(F, EdgeTypes))

\* The pairs at a distance of at most 1, where an rw edge weighs 1.
DistanceLeq1(F) ==
  LET D0 == WRWW(F) \cup {<<i, i>> : i \in Txn}
  IN  WRWW(F) \cup
      {p \in Txn \X Txn : \E r \in RW(F) : <<p[1], r[1]>> \in D0 /\ <<r[2], p[2]>> \in D0}

\* Mutant: one more value is needed than there are timestamps.
EnoughTimestamps_Strict == n_nodes_bc < 2^MONO_BV_WIDTH

EnoughTimestamps == n_nodes_bc <= 2^MONO_BV_WIDTH

(***************************************************************************)
(* MonoSAT_EdgeWeightSIChecker.check.  Each pair has edges of its own.     *)
(* ww are the writer pairs that ww_order adds, without time dependencies.  *)
(***************************************************************************)
EdgeWeightSat(E, con, ww) ==
  /\ EnoughTimestamps
  /\ \E sel \in SUBSET con : \E ord \in SUBSET ww :
       LET T == E \cup Chosen(con, sel)
           F == T \cup Chosen(ww, ord)
       IN  /\ Acyclic(BCNodes, TimeDeps(T))
           /\ \A i, j \in Txn : i < j => ~(<<i, j>> \in WRWW(F) /\ <<j, i>> \in DistanceLeq1(F))
=============================================================================
