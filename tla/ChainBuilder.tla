---------------------------- MODULE ChainBuilder ---------------------------
(***************************************************************************)
(* buildgraph/build_graph4adyaSI_chain.py: from a history to the known     *)
(* graph and the constraints of Viper (algorithms 3, 5, 6 and 12).         *)
(*                                                                         *)
(* Each loop of create_knowngraph only adds to its results and stops at    *)
(* the first exception, so it is one action; where different exceptions    *)
(* are possible, whichever comes first in the iteration order of the       *)
(* dictionaries wins, and the model may take either.  combine_writes       *)
(* changes the chains it looks up, and is one action per pair.             *)
(*                                                                         *)
(* bpc is the next loop to run, or how the construction ended:             *)
(*   "reject"  RejectException: the history is not SI                      *)
(*   "crash"   AssertionError, KeyError or TypeError: no verdict           *)
(***************************************************************************)
EXTENDS PolyGraph, History

CONSTANTS
  StrongSession,    \* args.strong_session
  Histories         \* the parsed histories of a run

ASSUME StrongSessionAssumption == StrongSession \in BOOLEAN
(***************************************************************************)
(* What the parser delivers: transactions numbered from 1, each a list of  *)
(* mops; sessions of transactions of which no two neighbours are the same; *)
(* queries that return a key once.                                         *)
(***************************************************************************)
WellFormed(h) ==
  /\ Ids(h) = 1..NTxns
  /\ \A t \in Ids(h) : /\ Len(h.txns[t]) \in Nat
                        /\ DOMAIN h.txns[t] = 1..Len(h.txns[t])
  /\ \A s \in h.sessions : /\ s \in Seq(1..NTxns)
                            /\ \A i \in 1..Len(s)-1 : s[i] # s[i+1]
  /\ \A t \in Ids(h) : \A j \in DOMAIN h.txns[t] :
       h.txns[t][j].f = "range" =>
         \A p, q \in RangeItems(h.txns[t][j]) :
           p = <<p[1], p[2]>> /\ (p[1] = q[1] => p[2] = q[2])

ASSUME HistoriesAssumption == \A h \in Histories : WellFormed(h)

VARIABLES
  hist,       \* full_history and histories
  edges,      \* g.edges
  so,         \* g.histories
  readfrom,   \* <<key, writer, reader>> triples
  wwpairs,    \* <<key, writer, next writer>> triples; the ones still to be
              \* combined once the chains are there
  chains,     \* <<key, sequence of writers>> pairs
  conn,       \* the constraints
  bpc

bvars == <<hist, edges, so, readfrom, wwpairs, chains, conn, bpc>>

BInit ==
  /\ hist \in Histories
  /\ edges = {} /\ so = {} /\ readfrom = {} /\ wwpairs = {}
  /\ chains = {} /\ conn = {}
  /\ bpc = "parse"

Stop(how) ==
  /\ bpc' = how
  /\ UNCHANGED <<hist, edges, so, readfrom, wwpairs, chains, conn>>

-----------------------------------------------------------------------------
(* Parsing: check_INT on each transaction. *)

INTReject == /\ bpc = "parse"
             /\ \E t \in Ids(hist) : INTError(hist.txns[t])
             /\ Stop("reject")

ParseCrash == /\ bpc = "parse"
              /\ \E t \in Ids(hist) : ParseAsserts(hist.txns[t])
              /\ Stop("crash")

Parse == /\ bpc = "parse"
         /\ \A t \in Ids(hist) : ~INTError(hist.txns[t]) /\ ~ParseAsserts(hist.txns[t])
         /\ Stop("known")

-----------------------------------------------------------------------------
(* create_knowngraph *)

SessionPairs(h) == UNION {{<<s[i], s[i+1]>> : i \in 1..Len(s)-1} : s \in h.sessions}

SessionEdges == IF StrongSession THEN {<<p[1], p[2], "cb">> : p \in SessionPairs(hist)}
                                 ELSE {}

IndexCrash == /\ bpc = "known"
              /\ \E t \in Ids(hist) : IndexAsserts(hist.txns[t])
              /\ Stop("crash")

KnownStart ==
  /\ bpc = "known"
  /\ \A t \in Ids(hist) : ~IndexAsserts(hist.txns[t])
  /\ so' = SessionPairs(hist)
  /\ edges' = AddEdges(SessionEdges, {<<0, i, "cb">> : i \in Txn \ {0}})
  /\ bpc' = "reads"
  /\ UNCHANGED <<hist, readfrom, wwpairs, chains, conn>>

\* The value is attributed to T0: nobody wrote it, and it is the initial
\* value or the initial state is unknown.
ReadsT0(key, v) ==
  /\ WritersOf(hist, key, v) = {}
  /\ hist.hasInit => key \in DOMAIN hist.init /\ hist.init[key] = v

\* Mutant: a value nobody wrote is taken for a null read.
DirtyRead_Never(key, v) == FALSE

\* Nobody wrote the value and T0 did not either.
DirtyRead(key, v) ==
  /\ WritersOf(hist, key, v) = {}
  /\ ~ReadsT0(key, v)
  /\ v # NULL_VALUE

\* <<key, writer, reader>> for each external read with a known writer
ReadFrom ==
  UNION {{<<r[1], w, r[3]>> :
            w \in WritersOf(hist, r[1], r[2]) \cup
                  (IF ReadsT0(r[1], r[2]) THEN {0} ELSE {})} :
           r \in ext_reads(hist)}

\* Mutant: the reader is not taken out of the writers.
T0ReaderEdges_Self ==
  UNION {{<<r[3], w, "rw">> : w \in k_writes_fn(hist, r[1])} :
           r \in {r \in ext_reads(hist) : ReadsT0(r[1], r[2])}}

\* A reader of T0's version begins before any writer of the key commits.
T0ReaderEdges ==
  UNION {{<<r[3], w, "rw">> : w \in k_writes_fn(hist, r[1]) \ {r[3]}} :
           r \in {r \in ext_reads(hist) : ReadsT0(r[1], r[2])}}

DirtyReadReject ==
  /\ bpc = "reads"
  /\ \E r \in ext_reads(hist) : DirtyRead(r[1], r[2])
  /\ Stop("reject")

\* Two writers of one value, or add_edge's assertion src != dst for a
\* transaction that reads its own write.
ReadsCrash ==
  /\ bpc = "reads"
  /\ \E r \in ext_reads(hist) :
       LET ws == WritersOf(hist, r[1], r[2])
       IN  Cardinality(ws) > 1 \/ r[3] \in ws
  /\ Stop("crash")

\* No external read raises an exception.
ReadsFine ==
  \A r \in ext_reads(hist) :
    LET ws == WritersOf(hist, r[1], r[2])
    IN  ~DirtyRead(r[1], r[2]) /\ Cardinality(ws) < 2 /\ r[3] \notin ws

ReadEdges == {<<f[2], f[3], "wr">> : f \in ReadFrom} \cup T0ReaderEdges

ReadLoop ==
  /\ bpc = "reads"
  /\ ReadsFine
  /\ readfrom' = ReadFrom
  /\ edges' = AddEdges(edges, ReadEdges)
  /\ bpc' = "ww"
  /\ UNCHANGED <<hist, so, wwpairs, chains, conn>>

\* Mutant: the reader need not write the key.
NextVersions_AllReaders == {f \in readfrom : f[2] # 0}

\* A transaction that reads and writes a key installs the next version.
NextVersions == {f \in readfrom : f[2] # 0 /\ f[3] \in k_writes_fn(hist, f[1])}

\* Mutant: the later writer overwrites the entry of wwpairs.
Diverges_Never == FALSE

\* Two transactions follow the same version.
Diverges == \E f, g \in NextVersions : f[1] = g[1] /\ f[2] = g[2] /\ f[3] # g[3]

DivergeReject ==
  /\ bpc = "ww"
  /\ Diverges
  /\ Stop("reject")

WWLoop ==
  /\ bpc = "ww"
  /\ ~Diverges
  /\ wwpairs' = NextVersions
  /\ bpc' = "range"
  /\ UNCHANGED <<hist, edges, so, readfrom, chains, conn>>

\* The query q does not see the upsert at position ins of its own
\* transaction (line 189 compares the transaction id with a mop index).
OwnUpsertMissed(q, ins) == q[1] = ins[1] /\ q[1] >= ins[2]

\* Mutant: the keys a query did not return are not looked at.
MissedUpserts_None == {}

\* The pairs of a query and an upsert of a key it did not return.
MissedUpserts ==
  UNION {{<<q, ins>> : ins \in UNION {k_upserts_fn(hist, key) : key \in other_keys(hist, q)}} :
           q \in get_all_range_queries(hist)}

RangeReject ==
  /\ bpc = "range"
  /\ ~DuplicateWrites(hist)
  /\ \E m \in MissedUpserts : OwnUpsertMissed(m[1], m[2])
  /\ Stop("reject")

DuplicateCrash ==
  /\ bpc = "range"
  /\ DuplicateWrites(hist)
  /\ Stop("crash")

RangeLoop ==
  /\ bpc = "range"
  /\ ~DuplicateWrites(hist)
  /\ \A m \in MissedUpserts : ~OwnUpsertMissed(m[1], m[2])
  /\ edges' = AddEdges(edges, {<<m[1][1], m[2][1], "rw">> :
                                 m \in {m \in MissedUpserts : m[1][1] # m[2][1]}})
  /\ bpc' = "combine"
  /\ chains' = {<<w[1], <<w[3]>>>> : w \in ext_writes(hist)}
  /\ UNCHANGED <<hist, so, readfrom, wwpairs, conn>>
-----------------------------------------------------------------------------
(* gen_constraints *)

First(chain) == chain[1]
Final(chain) == chain[Len(chain)]

find_chain_by_last_txn(key, t) == {c \in chains : c[1] = key /\ Final(c[2]) = t}
find_chain_by_first_txn(key, t) == {c \in chains : c[1] = key /\ First(c[2]) = t}

\* Mutant: the first chain stays beside the merged one.
CombineWrites_KeepFirst ==
  /\ bpc = "combine"
  /\ \E p \in wwpairs :
       \E c1 \in find_chain_by_last_txn(p[1], p[2]),
          c2 \in find_chain_by_first_txn(p[1], p[3]) :
         /\ c1 # c2
         /\ chains' = (chains \ {c2}) \cup {<<p[1], c1[2] \o c2[2]>>}
         /\ wwpairs' = wwpairs \ {p}
  /\ UNCHANGED <<hist, edges, so, readfrom, conn, bpc>>

\* Mutant: the chains are joined in the wrong order.
CombineWrites_Swapped ==
  /\ bpc = "combine"
  /\ \E p \in wwpairs :
       \E c1 \in find_chain_by_last_txn(p[1], p[2]),
          c2 \in find_chain_by_first_txn(p[1], p[3]) :
         /\ c1 # c2
         /\ chains' = (chains \ {c1, c2}) \cup {<<p[1], c2[2] \o c1[2]>>}
         /\ wwpairs' = wwpairs \ {p}
  /\ UNCHANGED <<hist, edges, so, readfrom, conn, bpc>>

\* One turn of the loop of combine_writes.
CombineWrites ==
  /\ bpc = "combine"
  /\ \E p \in wwpairs :
       \E c1 \in find_chain_by_last_txn(p[1], p[2]),
          c2 \in find_chain_by_first_txn(p[1], p[3]) :
         /\ c1 # c2
         /\ chains' = (chains \ {c1, c2}) \cup {<<p[1], c1[2] \o c2[2]>>}
         /\ wwpairs' = wwpairs \ {p}
  /\ UNCHANGED <<hist, edges, so, readfrom, conn, bpc>>

\* Mutant: the lengths of the chains are compared.
CyclicReject_SameLength ==
  /\ bpc = "combine"
  /\ \E p \in wwpairs :
       \E c1 \in find_chain_by_last_txn(p[1], p[2]),
          c2 \in find_chain_by_first_txn(p[1], p[3]) :
         Len(c1[2]) = Len(c2[2])
  /\ Stop("reject")

\* "cyclic dependency"
CyclicReject ==
  /\ bpc = "combine"
  /\ \E p \in wwpairs :
       find_chain_by_last_txn(p[1], p[2]) \cap find_chain_by_first_txn(p[1], p[3]) # {}
  /\ Stop("reject")

\* Mutant: infer_rw_edges is not called.
InferredEdges_None == {}

\* infer_rw_edges: who read a version begins before the next one commits.
InferredEdges ==
  UNION {UNION {{<<f[3], c[2][i+1], "rw">> :
                   f \in {f \in readfrom : f[1] = c[1] /\ f[2] = c[2][i] /\ f[3] # c[2][i+1]}} :
                  i \in 1..Len(c[2])-1} :
           c \in chains}

InferRWEdges ==
  /\ bpc = "combine"
  /\ wwpairs = {}
  /\ edges' = AddEdges(edges, InferredEdges)
  /\ bpc' = "coalesce"
  /\ UNCHANGED <<hist, so, readfrom, wwpairs, chains, conn>>

\* chain1 comes before chain2 in the version order of the key.
gen_chain2chain_edges(chain1, chain2, key) ==
  {<<Final(chain1), First(chain2), "ww">>} \cup
  {<<f[3], First(chain2), "rw">> :
     f \in {f \in readfrom : f[1] = key /\ f[2] = Final(chain1)}}

\* The order of a pair of chains depends on a set; the smaller first
\* transaction stands for it.
Coalesce ==
  /\ bpc = "coalesce"
  /\ conn' = {<<gen_chain2chain_edges(p[1][2], p[2][2], p[1][1]),
               gen_chain2chain_edges(p[2][2], p[1][2], p[1][1])>> :
                p \in {p \in chains \X chains :
                         p[1][1] = p[2][1] /\ First(p[1][2]) < First(p[2][2])}}
  /\ bpc' = "built"
  /\ UNCHANGED <<hist, edges, so, readfrom, wwpairs, chains>>

-----------------------------------------------------------------------------
BStep == \/ INTReject \/ ParseCrash \/ Parse
         \/ IndexCrash \/ KnownStart
         \/ DirtyReadReject \/ ReadsCrash \/ ReadLoop
         \/ DivergeReject \/ WWLoop
         \/ DuplicateCrash \/ RangeReject \/ RangeLoop
         \/ CombineWrites \/ CyclicReject \/ InferRWEdges \/ Coalesce

BDone == bpc \in {"built", "reject", "crash"}

BNext == BStep \/ (BDone /\ UNCHANGED bvars)

BSpec == BInit /\ [][BNext]_bvars /\ WF_bvars(BStep)
-----------------------------------------------------------------------------
BTypeOK ==
  /\ Ids(hist) = 1..NTxns
  /\ edges \subseteq ValidEdges
  /\ so \subseteq (Txn \ {0}) \X (Txn \ {0})
  /\ \A f \in readfrom : f[2] \in Txn /\ f[3] \in Txn \ {0}
  /\ wwpairs \subseteq readfrom
  /\ \A c \in chains : c[2] \in Seq(Txn \ {0}) /\ c[2] # << >>
  /\ ValidConstraints(conn)
  /\ bpc \in {"parse", "known", "reads", "ww", "range", "combine", "coalesce",
              "built", "reject", "crash"}

(***************************************************************************)
(* The assertions of find_chain_by_last_txn and find_chain_by_first_txn    *)
(* never fail: in whatever order wwpairs is walked and the chains were     *)
(* merged before, each pair still to be combined has exactly one chain     *)
(* that ends with its first transaction and one that begins with its       *)
(* second.                                                                 *)
(***************************************************************************)
FindChainSucceeds ==
  bpc = "combine" =>
    \A p \in wwpairs :
      /\ Cardinality(find_chain_by_last_txn(p[1], p[2])) = 1
      /\ Cardinality(find_chain_by_first_txn(p[1], p[3])) = 1

\* <<chain, position>> pairs at which a transaction occurs for a key.
Occurrences(key, t) ==
  UNION {{<<c, i>> : i \in {i \in DOMAIN c[2] : c[2][i] = t}} :
           c \in {c \in chains : c[1] = key}}

(***************************************************************************)
(* Merging loses and repeats no write: throughout combine_writes and at    *)
(* its end each writer of a key is in one chain of the key, once.          *)
(***************************************************************************)
ChainsPartitionWriters ==
  bpc \in {"combine", "coalesce", "built"} =>
    \A w \in ext_writes(hist) : Cardinality(Occurrences(w[1], w[3])) = 1

(***************************************************************************)
(* The chains that gen_constraints orders are the version orders that the  *)
(* reads determine: two transactions are neighbours in a chain of a key    *)
(* iff the second read the first one's write of the key and wrote it       *)
(* itself, whatever the order of the merges.                               *)
(***************************************************************************)
ChainsFollowReads ==
  bpc \in {"coalesce", "built"} =>
    NextVersions = UNION {{<<c[1], c[2][i], c[2][i+1]>> : i \in 1..Len(c[2])-1} :
                            c \in chains}

(***************************************************************************)
(* "cyclic dependency" is raised only for versions that follow each other  *)
(* in a cycle: some set of writers of one key in which each overwrites     *)
(* another one of the set.                                                 *)
(***************************************************************************)
CyclicRejectJustified ==
  [][CyclicReject =>
       \E key \in {p[1] : p \in NextVersions} : \E S \in SUBSET (Txn \ {0}) :
         S # {} /\ \A t \in S : \E u \in S : <<key, u, t>> \in NextVersions]_bvars
=============================================================================
