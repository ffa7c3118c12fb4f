----------------------------- MODULE ViperPairs ----------------------------
(***************************************************************************)
(* The pair builder of buildgraph/build_graph4adyaSI.py, shared by         *)
(* algorithms 1, 2, 4, 10 and 11.  It knows no chains: each unknown order  *)
(* of two writers of a key is a pair of ww edges, and each read adds, for  *)
(* every other writer, the choice between an older write and an            *)
(* anti-dependency.                                                        *)
(*                                                                         *)
(* Up to the loop over the reads the two builders have the same code, and  *)
(* the actions of ChainBuilder are used.  The variables readfrom, wwpairs  *)
(* and chains do not exist here and stay empty.                            *)
(***************************************************************************)
EXTENDS Viper

\* add_edge_pair
EdgePair(e1, e2) == <<{e1}, {e2}>>

\* f[3] reads f[2]'s write: another writer of the key comes before that
\* write, or after the read.
ReaderPairs ==
  UNION {{EdgePair(<<t, f[2], "ww">>, <<f[3], t, "rw">>) :
            t \in Tk_set_fn(hist, f[1], {f[2], f[3]})} :
           f \in {f \in ReadFrom : f[2] # 0}}

PairReadLoop ==
  /\ bpc = "reads"
  /\ ReadsFine
  /\ edges' = AddEdges(edges, ReadEdges)
  /\ conn' = ReaderPairs
  /\ bpc' = "ww"
  /\ UNCHANGED <<hist, so, readfrom, wwpairs, chains, verdict>>

\* What set_all_writes leaves behind.
ext_key2writes == [key \in {w[1] : w \in ext_writes(hist)} |-> k_writes_fn(hist, key)]

\* Two writers of a key, in either order.  add_edge_pair drops a pair that is
\* there the other way round; the smaller first stands for both.
WriterPairs ==
  UNION {{EdgePair(<<p[1], p[2], "ww">>, <<p[2], p[1], "ww">>) :
            p \in {p \in ext_key2writes[key] \X ext_key2writes[key] : p[1] < p[2]}} :
           key \in DOMAIN ext_key2writes}

PairWriteLoop ==
  /\ bpc = "ww"
  /\ conn' = conn \cup WriterPairs
  /\ bpc' = "range"
  /\ UNCHANGED <<hist, edges, so, readfrom, wwpairs, chains, verdict>>

\* Mutant: the transaction id is compared, as in the chain builder.
PairOwnUpsertMissed_Id(q, ins) == q[1] = ins[1] /\ q[1] >= ins[2]

\* The query does not see an earlier upsert of its own transaction.
PairOwnUpsertMissed(q, ins) == q[1] = ins[1] /\ q[2] >= ins[2]

PairDuplicateCrash ==
  /\ bpc = "range"
  /\ DuplicateUpserts(hist)
  /\ Stop("crash")
  /\ UNCHANGED verdict

PairRangeReject ==
  /\ bpc = "range"
  /\ ~DuplicateUpserts(hist)
  /\ \E m \in MissedUpserts : PairOwnUpsertMissed(m[1], m[2])
  /\ Stop("reject")
  /\ UNCHANGED verdict

PairRangeLoop ==
  /\ bpc = "range"
  /\ ~DuplicateUpserts(hist)
  /\ \A m \in MissedUpserts : ~PairOwnUpsertMissed(m[1], m[2])
  /\ edges' = AddEdges(edges, {<<m[1][1], m[2][1], "rw">> :
                                 m \in {m \in MissedUpserts : m[1][1] # m[2][1]}})
  /\ bpc' = "built"
  /\ UNCHANGED <<hist, so, readfrom, wwpairs, chains, conn, verdict>>

-----------------------------------------------------------------------------
(* The constraints that MonoBCPolyGraphChecker solves: the edge pairs, and *)
(* once more the order of the writers of each key (ext_writes).            *)
PairConstraints == conn \cup WriterPairs

\* The code that the two builders share, once the logs are parsed.
PairKnown ==
  /\ IndexCrash \/ KnownStart \/ DirtyReadReject \/ ReadsCrash
  /\ UNCHANGED verdict

PairBuild == \/ PairKnown \/ PairReadLoop \/ PairWriteLoop
             \/ PairDuplicateCrash \/ PairRangeReject \/ PairRangeLoop
=============================================================================
