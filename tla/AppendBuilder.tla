--------------------------- MODULE AppendBuilder ---------------------------
(***************************************************************************)
(* Algorithm 8: histories of list appends recorded by Jepsen, from         *)
(* parse/append_parse.py and buildgraph/build_graph4append.py.  A read     *)
(* returns the whole list of its key, so it shows the order of the appends *)
(* as well as its writer; << >> is the value 'nil'.                        *)
(*                                                                         *)
(* The builder starts like create_knowngraph of the chain builder and ends *)
(* with the same constraints.  It has its own loop over the reads, fills   *)
(* wwpairs from the lists, and merges chains without the check for cycles. *)
(* The verdict is the one of a single call of the checker: that the rounds *)
(* of main_algo_6_8_12 do not change it is theorem HeuristicIsSound of     *)
(* KBoundedProofs.                                                         *)
(***************************************************************************)
EXTENDS Viper, SequencesExt

(***************************************************************************)
(* parse on the lines of a log that contain ":ok": the transactions are    *)
(* numbered in the order of the lines, and those of one process form a     *)
(* session.  A line is a record of its type, process and mops.             *)
(***************************************************************************)
parse(lines) ==
  LET ok == SelectSeq(lines, LAMBDA l : l.type = "ok")
      Thread(p) == SelectSeq([i \in DOMAIN ok |-> i], LAMBDA i : ok[i].process = p)
  IN  [txns |-> [i \in DOMAIN ok |-> ok[i].value],
       sessions |-> {Thread(ok[i].process) : i \in DOMAIN ok},
       hasInit |-> FALSE, init |-> << >>]

-----------------------------------------------------------------------------
(* create_knowngraph *)

\* ext_writes_fn: <<key, value, transaction id>> triples
AllAppends(h) ==
  UNION {{<<m.k, m.e, t>> : m \in {m \in Range(h.txns[t]) : m.f = "append"}} : t \in Ids(h)}

AppendersOf(key, v) == {w[3] : w \in {w \in AllAppends(hist) : w[1] = key /\ w[2] = v}}
Appenders(key) == {w[3] : w \in {w \in AllAppends(hist) : w[1] = key}}

\* Whom a read of the list v depends on, T0 where it is 'nil'.
LastAppenders(key, v) == IF v = << >> THEN {0} ELSE AppendersOf(key, Last(v))

\* "can't find the corresponding write"
LastUnknown(r) == Cardinality(LastAppenders(r[1], r[2])) # 1

\* add_edge's src # dst, and exactly one writer for each element
ReadAsserts(r) ==
  \/ r[3] \in LastAppenders(r[1], r[2])
  \/ \E i \in DOMAIN r[2] : Cardinality(AppendersOf(r[1], r[2][i])) # 1

AppendReadFrom ==
  UNION {{<<r[1], w, r[3]>> : w \in LastAppenders(r[1], r[2])} : r \in ext_reads(hist)}

\* Mutant: two elements of one transaction make a pair as well.
Neighbours_Same(r) ==
  {<<r[1], p[1], p[2]>> :
     p \in UNION {AppendersOf(r[1], r[2][i]) \X AppendersOf(r[1], r[2][i+1]) :
                    i \in 1..Len(r[2])-1}}

\* The appenders of neighbours in the list that a read returned.
Neighbours(r) ==
  {<<r[1], p[1], p[2]>> :
     p \in {p \in UNION {AppendersOf(r[1], r[2][i]) \X AppendersOf(r[1], r[2][i+1]) :
                           i \in 1..Len(r[2])-1} : p[1] # p[2]}}

\* A transaction that appends comes next after the list it read.
NextAppends == {f \in AppendReadFrom : f[2] # 0 /\ f[3] \in Appenders(f[1])}

\* add_wwpairs
ListOrder == NextAppends \cup UNION {Neighbours(r) : r \in ext_reads(hist)}

\* Mutant: an entry that is there already is refused, not compared.
ListsDiverge_Repeated ==
  \E r \in ext_reads(hist) : Neighbours(r) \cap NextAppends # {}

\* "versions diverge"
ListsDiverge == \E p, q \in ListOrder : p[1] = q[1] /\ p[2] = q[2] /\ p[3] # q[3]

\* Mutant: a reader may follow what it has not seen.
UnseenEdges_None == {}

\* A reader begins before the others that append what it has not seen commit.
UnseenEdges ==
  UNION {{<<r[3], w[3], "rw">> :
            w \in {w \in AllAppends(hist) :
                     /\ w[1] = r[1] /\ w[2] \notin Range(r[2])
                     /\ w[3] \notin {r[3]} \cup LastAppenders(r[1], r[2])}} :
           r \in ext_reads(hist)}

AReadReject ==
  /\ bpc = "reads"
  /\ \/ \E r \in ext_reads(hist) : LastUnknown(r)
     \/ ListsDiverge
  /\ Stop("reject")

AReadCrash ==
  /\ bpc = "reads"
  /\ \E r \in ext_reads(hist) : ~LastUnknown(r) /\ ReadAsserts(r)
  /\ Stop("crash")

AReadLoop ==
  /\ bpc = "reads"
  /\ \A r \in ext_reads(hist) : ~LastUnknown(r) /\ ~ReadAsserts(r)
  /\ ~ListsDiverge
  /\ readfrom' = AppendReadFrom
  /\ wwpairs' = ListOrder
  /\ edges' = AddEdges(edges, {<<f[2], f[3], "wr">> : f \in AppendReadFrom} \cup UnseenEdges)
  /\ chains' = {<<w[1], <<w[3]>>>> : w \in AllAppends(hist)}
  /\ bpc' = "combine"
  /\ UNCHANGED <<hist, so, conn>>

-----------------------------------------------------------------------------
(* combine_writes: a pair without its two chains fails an assertion, and   *)
(* one chain at both ends is removed twice.                                *)

Joinable(p) ==
  \E c1 \in find_chain_by_last_txn(p[1], p[2]), c2 \in find_chain_by_first_txn(p[1], p[3]) :
    c1 # c2

ACombineCrash ==
  /\ bpc = "combine"
  /\ \E p \in wwpairs : ~Joinable(p)
  /\ Stop("crash")

-----------------------------------------------------------------------------
\* construct_encoding; the log is parsed already.
AInit == /\ hist \in Histories
         /\ edges = {} /\ so = {} /\ readfrom = {} /\ wwpairs = {}
         /\ chains = {} /\ conn = {}
         /\ bpc = "known"
         /\ verdict = "none"

ABuild == \/ KnownStart
          \/ AReadReject \/ AReadCrash \/ AReadLoop
          \/ CombineWrites \/ ACombineCrash \/ InferRWEdges \/ Coalesce

AStep == \/ ABuild /\ UNCHANGED verdict
         \/ CatchReject
         \/ RunChecker

ANext == AStep \/ (VDone /\ UNCHANGED vvars)

ASpec == AInit /\ [][ANext]_vvars /\ WF_vvars(AStep)

-----------------------------------------------------------------------------
(***************************************************************************)
(* The reference: snapshot isolation of appends.  A read returns all that  *)
(* the transactions in its snapshot appended to the key, in the order of   *)
(* their commits, and then what its own transaction appended before.       *)
(***************************************************************************)
\* What the first n mops append to key.
AppendsTo(mops, n, key) ==
  FlattenSeq([j \in 1..n |->
                IF mops[j].f = "append" /\ mops[j].k = key THEN <<mops[j].e>> ELSE << >>])

AppendedKeys(t) == {m.k : m \in {m \in Range(hist.txns[t]) : m.f = "append"}}

\* The list of key in t's snapshot.
SnapshotList(tm, t, key) ==
  LET Committed(c) == hist.txns[CHOOSE u \in Ids(hist) : tm.commit[u] = c]
  IN  FlattenSeq([c \in 1..tm.begin[t] |-> AppendsTo(Committed(c), Len(Committed(c)), key)])

ExplainsLists(tm) ==
  /\ \A t, u \in Ids(hist) :
       (t # u /\ AppendedKeys(t) \cap AppendedKeys(u) # {})
         => tm.commit[t] <= tm.begin[u] \/ tm.commit[u] <= tm.begin[t]
  /\ StrongSession => SessionsOrdered(hist, tm)
  /\ \A t \in Ids(hist) : \A j \in DOMAIN hist.txns[t] :
       LET m == hist.txns[t][j]
       IN  m.f = "r" =>
             m.v = SnapshotList(tm, t, m.k) \o AppendsTo(hist.txns[t], j - 1, m.k)

AppendSI == \E tm \in Timings(NTxns) : ExplainsLists(tm)

\* What Jepsen's workload issues: reads and appends, and no value is appended
\* to a list by two transactions.
ListHistory(h) ==
  /\ \A t \in Ids(h) : \A j \in DOMAIN h.txns[t] : h.txns[t][j].f \in {"r", "append"}
  /\ \A v, w \in AllAppends(h) : (v[1] = w[1] /\ v[2] = w[2]) => v[3] = w[3]

\* The list shows the appends of each transaction once and in their order, and
\* those of the last one all.
WholeList(h, key, list) ==
  /\ list \in Seq(Range(list))
  /\ IsInjective(list)
  /\ \A u \in Ids(h) : \A i, j \in DOMAIN h.txns[u] :
       LET m == h.txns[u][i]
           n == h.txns[u][j]
       IN  (/\ m.f = "append" /\ m.k = key
            /\ n.f = "append" /\ n.k = key) =>
             /\ i < j => \A a, b \in DOMAIN list : (list[a] = m.e /\ list[b] = n.e) => a < b
             /\ (list # << >> /\ Last(list) = m.e) => n.e \in Range(list)

\* The histories in which there is nothing that the builder does not look at:
\* it takes the first read of a key only, if no append comes before, and does
\* not compare the elements of one transaction.
TransparentLists(h) ==
  \A t \in Ids(h) : \A j \in DOMAIN h.txns[t] :
    LET m == h.txns[t][j]
    IN  /\ \A i \in 1..j-1 :
             LET n == h.txns[t][i]
             IN  n.k = m.k => IF m.f = "r" THEN n.f = "r" /\ n.v = m.v
                                           ELSE n.f = "append" => n.e # m.e
        /\ m.f = "r" => WholeList(h, m.k, m.v)

(***************************************************************************)
(* Readme: Viper "checks snapshot isolation": what algorithm 8 accepts,    *)
(* some order of the commits explains with all lists that were read.       *)
(***************************************************************************)
AppendAcceptedIsSI == verdict = "accept" => AppendSI

(***************************************************************************)
(* It is, where each transaction that follows another one in a list read   *)
(* that one's append itself, as the wr edge then orders them.  (The order  *)
(* of other neighbours in a list never becomes an edge of the graph.)      *)
(***************************************************************************)
AppendAcceptedOrderIsSI ==
  (verdict = "accept" /\ ListOrder \subseteq AppendReadFrom) => AppendSI

(***************************************************************************)
(* What algorithm 8 rejects is not snapshot isolated: lists without a      *)
(* writer, lists that diverge and unsatisfiable polygraphs are violations. *)
(***************************************************************************)
AppendRejectedIsNotSI == verdict = "reject" => ~AppendSI

(***************************************************************************)
(* The histories that end it with an AssertionError or a KeyError are      *)
(* violations as well, in whatever order combine_writes walks wwpairs: no  *)
(* correct history is left without its verdict.                            *)
(***************************************************************************)
AppendCrashIsNotSI == bpc = "crash" => ~AppendSI
=============================================================================
