------------------------ MODULE ChainBuilderProofs -------------------------
(***************************************************************************)
(* The chain builder, for every set of well-formed histories over any      *)
(* number of transactions: its assertions never fail, merging loses and    *)
(* repeats no write, the chains are the version orders that the reads      *)
(* determine, and what it hands to the checker is a valid polygraph.       *)
(*                                                                         *)
(* The heart is that the pairs of neighbours in chains and the pairs still *)
(* to be combined make up NextVersions at every turn of combine_writes,    *)
(* without overlap.  A version has one successor, since the histories that *)
(* diverge were rejected, and one predecessor, since a transaction reads a *)
(* key once; hence a pair still to be combined begins with the last        *)
(* transaction of a chain and ends with the first one of a chain.          *)
(***************************************************************************)
EXTENDS ChainBuilder, FiniteSetTheorems, SequenceTheorems, TLAPS

-----------------------------------------------------------------------------
(* Sequences of whatever elements. *)

IsSeq(a) == Len(a) \in Nat /\ a = [i \in 1..Len(a) |-> a[i]]

LEMMA FunctionIsSeq ==
  ASSUME NEW n \in Nat, NEW a, a = [i \in 1..n |-> a[i]]
  PROVE  IsSeq(a) /\ Len(a) = n /\ DOMAIN a = 1..n /\ a \in Seq({a[i] : i \in 1..n})
<1> DEFINE S == {a[i] : i \in 1..n}
<1>1. a \in [1..n -> S]
  <2>1. \A i \in 1..n : a[i] \in S
    OBVIOUS
  <2> HIDE DEF S
  <2> QED
    BY <2>1
<1> HIDE DEF S
<1>2. a \in Seq(S)
  BY <1>1, SeqDef
<1>3. Len(a) \in Nat /\ DOMAIN a = 1..Len(a) /\ DOMAIN a = 1..n
  BY <1>1, <1>2, LenProperties
<1>4. Len(a) = n
  <2>1. 1..Len(a) = 1..n
    BY <1>3
  <2>2. n = 0 \/ n \in 1..Len(a)
    BY <2>1
  <2>3. Len(a) = 0 \/ Len(a) \in 1..n
    BY <1>3, <2>1
  <2> QED
    BY <1>3, <2>1, <2>2, <2>3
<1> QED
  BY <1>2, <1>3, <1>4 DEF IsSeq, S

LEMMA SeqIsFunction ==
  ASSUME NEW S, NEW a \in Seq(S)
  PROVE  IsSeq(a) /\ DOMAIN a = 1..Len(a)
<1>1. Len(a) \in Nat /\ a \in [1..Len(a) -> S] /\ DOMAIN a = 1..Len(a)
  BY LenProperties
<1> QED
  BY <1>1 DEF IsSeq

LEMMA ConcatIsSeq ==
  ASSUME NEW a, IsSeq(a), NEW b, IsSeq(b)
  PROVE  /\ IsSeq(a \o b) /\ Len(a \o b) = Len(a) + Len(b)
         /\ DOMAIN (a \o b) = 1..Len(a) + Len(b)
         /\ \A i \in 1..Len(a) : (a \o b)[i] = a[i]
         /\ \A i \in 1..Len(b) : (a \o b)[Len(a) + i] = b[i]
<1> DEFINE A == {a[i] : i \in 1..Len(a)}
           B == {b[i] : i \in 1..Len(b)}
<1>1. Len(a) \in Nat /\ Len(b) \in Nat
  BY DEF IsSeq
<1>2. a \in Seq(A) /\ b \in Seq(B)
  BY FunctionIsSeq DEF IsSeq
<1> HIDE DEF A, B
<1>3. a \in Seq(A \cup B) /\ b \in Seq(A \cup B)
  <2>1. a \in Seq(A \cup B)
    BY <1>2, SeqMonotonic
  <2>2. b \in Seq(A \cup B)
    BY <1>2, SeqMonotonic
  <2> QED
    BY <2>1, <2>2
<1>4. /\ a \o b \in Seq(A \cup B) /\ Len(a \o b) = Len(a) + Len(b)
      /\ \A i \in 1..Len(a) + Len(b) : (a \o b)[i] = IF i <= Len(a) THEN a[i] ELSE b[i - Len(a)]
  BY <1>3, ConcatProperties
<1>5. IsSeq(a \o b) /\ DOMAIN (a \o b) = 1..Len(a) + Len(b)
  BY <1>4, SeqIsFunction
<1>6. \A i \in 1..Len(a) : (a \o b)[i] = a[i]
  BY <1>1, <1>4
<1>7. ASSUME NEW i \in 1..Len(b) PROVE (a \o b)[Len(a) + i] = b[i]
  <2>1. /\ Len(a) + i \in 1..Len(a) + Len(b) /\ ~(Len(a) + i <= Len(a))
        /\ (Len(a) + i) - Len(a) = i
    BY <1>1
  <2> QED
    BY <1>4, <2>1
<1> QED
  BY <1>4, <1>5, <1>6, <1>7

LEMMA AppendIsSeq ==
  ASSUME NEW a, IsSeq(a), NEW x
  PROVE  /\ IsSeq(Append(a, x)) /\ DOMAIN Append(a, x) = 1..Len(a) + 1
         /\ DOMAIN a = 1..Len(a)
         /\ Len(Append(a, x)) = Len(a) + 1
         /\ \A i \in 1..Len(a) : Append(a, x)[i] = a[i]
         /\ Append(a, x)[Len(a) + 1] = x
<1> DEFINE A == {a[i] : i \in 1..Len(a)}
<1>1. Len(a) \in Nat
  BY DEF IsSeq
<1>2. a \in Seq(A) /\ DOMAIN a = 1..Len(a)
  BY FunctionIsSeq DEF IsSeq
<1> HIDE DEF A
<1>3. a \in Seq(A \cup {x}) /\ x \in A \cup {x}
  BY <1>2, SeqMonotonic
<1>4. /\ Append(a, x) \in Seq(A \cup {x}) /\ Len(Append(a, x)) = Len(a) + 1
      /\ \A i \in 1..Len(a) : Append(a, x)[i] = a[i]
      /\ Append(a, x)[Len(a) + 1] = x
  BY <1>3, AppendProperties
<1>5. IsSeq(Append(a, x)) /\ DOMAIN Append(a, x) = 1..Len(a) + 1
  BY <1>4, SeqIsFunction
<1> QED
  BY <1>2, <1>4, <1>5

-----------------------------------------------------------------------------
(* What the extraction functions return. *)

LEMMA ExtWritesFacts ==
  ASSUME NEW h, NEW w
  PROVE  w \in ext_writes(h) <=>
           \E t \in Ids(h) : \E p \in ext_writes_fn(h.txns[t]) : w = <<p[1], p[2], t>>
  BY DEF ext_writes

LEMMA ExtReadsFacts ==
  ASSUME NEW h, NEW r
  PROVE  r \in ext_reads(h) <=>
           \E t \in Ids(h) : \E p \in ext_reads_fn(h.txns[t]) : r = <<p[1], p[2], t>>
  BY DEF ext_reads

LEMMA KWritesFacts ==
  ASSUME NEW h, NEW key, NEW t
  PROVE  t \in k_writes_fn(h, key) <=> \E w \in ext_writes(h) : w[1] = key /\ w[3] = t
  BY DEF k_writes_fn

LEMMA WritersOfFacts ==
  ASSUME NEW h, NEW key, NEW v, NEW t
  PROVE  t \in WritersOf(h, key, v)
           <=> \E w \in ext_writes(h) : w[1] = key /\ w[2] = v /\ w[3] = t
  BY DEF WritersOf

LEMMA WritersAreIds ==
  ASSUME NEW h, NEW key
  PROVE  /\ k_writes_fn(h, key) \subseteq Ids(h)
         /\ \A v : WritersOf(h, key, v) \subseteq k_writes_fn(h, key)
<1>1. \A w \in ext_writes(h) : w[3] \in Ids(h)
  BY ExtWritesFacts
<1>2. k_writes_fn(h, key) \subseteq Ids(h)
  BY <1>1 DEF k_writes_fn
<1>3. \A v : WritersOf(h, key, v) \subseteq k_writes_fn(h, key)
  BY DEF WritersOf, k_writes_fn
<1> QED
  BY <1>2, <1>3

LEMMA IdsFacts ==
  ASSUME NEW h, WellFormed(h)
  PROVE  /\ Ids(h) = 1..NTxns
         /\ \A t \in Ids(h) : t \in Txn /\ t # 0
         /\ IsFiniteSet(Ids(h))
<1>1. Ids(h) = 1..NTxns
  BY DEF WellFormed
<1>2. IsFiniteSet(1..NTxns)
  BY NTxnsAssumption, FS_Interval
<1> QED
  BY <1>1, <1>2, NTxnsAssumption DEF Txn

\* A transaction reads a key from outside at most once.
LEMMA OneReadPerKey ==
  ASSUME NEW h, WellFormed(h), NEW r \in ext_reads(h), NEW s \in ext_reads(h),
         r[1] = s[1], r[3] = s[3]
  PROVE  r[2] = s[2]
<1>a. PICK t \in Ids(h) : \E p \in ext_reads_fn(h.txns[t]) : r = <<p[1], p[2], t>>
  BY ExtReadsFacts
<1>1. PICK p \in ext_reads_fn(h.txns[t]) : r = <<p[1], p[2], t>>
  BY <1>a
<1>b. PICK u \in Ids(h) : \E q \in ext_reads_fn(h.txns[u]) : s = <<q[1], q[2], u>>
  BY ExtReadsFacts
<1>2. PICK q \in ext_reads_fn(h.txns[u]) : s = <<q[1], q[2], u>>
  BY <1>b
<1>3. u = t /\ q[1] = p[1]
  BY <1>1, <1>2
<1> DEFINE txn == h.txns[t]
<1>4. Len(txn) \in Nat /\ DOMAIN txn = 1..Len(txn)
  BY DEF WellFormed
<1>5. PICK i \in DOMAIN txn :
        p \in Observed(txn[i]) /\ \A l \in 1..i-1 : p[1] \notin Ignored(txn[l])
  BY DEF ext_reads_fn
<1>6. PICK j \in DOMAIN txn :
        q \in Observed(txn[j]) /\ \A l \in 1..j-1 : q[1] \notin Ignored(txn[l])
  BY <1>3 DEF ext_reads_fn
<1>7. p[1] \in Ignored(txn[i]) /\ q[1] \in Ignored(txn[j])
  BY <1>5, <1>6 DEF Ignored, KeysOf
<1> HIDE DEF txn
<1>8. i \in Int /\ j \in Int /\ i >= 1 /\ j >= 1
  BY <1>4
<1>9. i = j
  <2>1. ~(i < j)
    BY <1>3, <1>6, <1>7, <1>8
  <2>2. ~(j < i)
    BY <1>3, <1>5, <1>7, <1>8
  <2> QED
    BY <1>8, <2>1, <2>2
<1>10. CASE txn[i].f = "range"
  <2>1. p \in RangeItems(txn[i]) /\ q \in RangeItems(txn[i])
    BY <1>5, <1>6, <1>9, <1>10 DEF Observed
  <2> QED
    BY <1>1, <1>2, <1>3, <1>10, <2>1 DEF WellFormed, txn
<1>11. CASE txn[i].f # "range"
  <2>1. p = q
    BY <1>5, <1>6, <1>9, <1>11 DEF Observed
  <2> QED
    BY <1>1, <1>2, <2>1
<1> QED
  BY <1>10, <1>11

\* A read-from triple comes from an external read, and its writer, unless it
\* is T0, wrote the value.
LEMMA ReadFromFacts ==
  ASSUME NEW f
  PROVE  f \in ReadFrom <=>
           \E r \in ext_reads(hist) : \E w :
             /\ f = <<r[1], w, r[3]>>
             /\ \/ w \in WritersOf(hist, r[1], r[2])
                \/ w = 0 /\ ReadsT0(r[1], r[2])
<1>1. \A r : \A w : w \in WritersOf(hist, r[1], r[2]) \cup (IF ReadsT0(r[1], r[2]) THEN {0} ELSE {})
                <=> \/ w \in WritersOf(hist, r[1], r[2])
                    \/ w = 0 /\ ReadsT0(r[1], r[2])
  OBVIOUS
<1> QED
  BY <1>1 DEF ReadFrom

\* A transaction is not its own predecessor, and not T0's.
LEMMA ReadFromTypes ==
  ASSUME WellFormed(hist), ReadsFine, NEW f \in ReadFrom
  PROVE  /\ f = <<f[1], f[2], f[3]>>
         /\ f[2] \in Txn /\ f[3] \in Txn \ {0} /\ f[2] # f[3]
<1>1. PICK r \in ext_reads(hist) : \E w :
             /\ f = <<r[1], w, r[3]>>
             /\ \/ w \in WritersOf(hist, r[1], r[2])
                \/ w = 0 /\ ReadsT0(r[1], r[2])
  BY ReadFromFacts
<1>2. r[3] \in Txn \ {0}
  BY ExtReadsFacts, IdsFacts
<1>3. r[3] \notin WritersOf(hist, r[1], r[2])
  BY DEF ReadsFine
<1>4. \A w \in WritersOf(hist, r[1], r[2]) : w \in Txn
  BY WritersAreIds, IdsFacts
<1> QED
  BY <1>1, <1>2, <1>3, <1>4, NTxnsAssumption DEF Txn

\* A value has at most one writer where ReadLoop goes on.
LEMMA OneWriter ==
  ASSUME WellFormed(hist), ReadsFine, NEW r \in ext_reads(hist),
         NEW t \in WritersOf(hist, r[1], r[2]), NEW u \in WritersOf(hist, r[1], r[2])
  PROVE  t = u
<1> DEFINE ws == WritersOf(hist, r[1], r[2])
<1>1. ws \in SUBSET Ids(hist)
  BY WritersAreIds
<1>2. IsFiniteSet(ws) /\ Cardinality(ws) \in Nat
  BY <1>1, IdsFacts, FS_Subset, FS_CardinalityType
<1>3. Cardinality(ws) < 2
  BY DEF ReadsFine
<1>4. Cardinality(ws) # 0
  BY <1>2, FS_EmptySet
<1>5. Cardinality(ws) = 1
  BY <1>2, <1>3, <1>4
<1>6. \E x : ws = {x}
  BY <1>2, <1>5, FS_Singleton
<1> QED
  BY <1>6

\* A version has one predecessor.
LEMMA OnePredecessor ==
  ASSUME WellFormed(hist), ReadsFine, readfrom = ReadFrom,
         NEW f \in NextVersions, NEW g \in NextVersions, f[1] = g[1], f[3] = g[3]
  PROVE  f[2] = g[2]
<1>1. f \in ReadFrom /\ g \in ReadFrom /\ f[2] # 0 /\ g[2] # 0
  BY DEF NextVersions
<1>2. PICK r \in ext_reads(hist) :
        r[1] = f[1] /\ r[3] = f[3] /\ f[2] \in WritersOf(hist, r[1], r[2])
  BY <1>1, ReadFromFacts
<1>3. PICK s \in ext_reads(hist) :
        s[1] = g[1] /\ s[3] = g[3] /\ g[2] \in WritersOf(hist, s[1], s[2])
  BY <1>1, ReadFromFacts
<1>4. r[2] = s[2]
  BY <1>2, <1>3, OneReadPerKey
<1> QED
  BY <1>2, <1>3, <1>4, OneWriter

\* The transactions of NextVersions write the key.
LEMMA NextVersionsTypes ==
  ASSUME WellFormed(hist), ReadsFine, readfrom = ReadFrom, NEW f \in NextVersions
  PROVE  /\ f = <<f[1], f[2], f[3]>>
         /\ f[2] \in Txn \ {0} /\ f[3] \in Txn \ {0} /\ f[2] # f[3]
         /\ f[2] \in k_writes_fn(hist, f[1]) /\ f[3] \in k_writes_fn(hist, f[1])
<1>1. f \in ReadFrom /\ f[2] # 0 /\ f[3] \in k_writes_fn(hist, f[1])
  BY DEF NextVersions
<1>2. PICK r \in ext_reads(hist) : r[1] = f[1] /\ f[2] \in WritersOf(hist, r[1], r[2])
  BY <1>1, ReadFromFacts
<1> QED
  BY <1>1, <1>2, ReadFromTypes, WritersAreIds

-----------------------------------------------------------------------------
(* The inductive invariant. *)

\* Neighbours in the chains of C.
LinksOf(C) ==
  UNION {{<<c[1], c[2][i], c[2][i+1]>> : i \in 1..Len(c[2])-1} : c \in C}

Linked == LinksOf(chains)

\* A chain is a sequence of writers of its key.
ChainsOfWriters ==
  \A c \in chains :
    /\ c = <<c[1], c[2]>>
    /\ c[2] \in Seq(Txn \ {0}) /\ c[2] # << >>
    /\ \A i \in DOMAIN c[2] : c[2][i] \in k_writes_fn(hist, c[1])

\* Every writer is in a chain ...
WritersInChains ==
  \A w \in ext_writes(hist) :
    \E c \in chains : c[1] = w[1] /\ \E i \in DOMAIN c[2] : c[2][i] = w[3]

\* ... and in no other place of the chains of the key.
Distinct(C) ==
  \A c, d \in C : \A i \in DOMAIN c[2], j \in DOMAIN d[2] :
    (c[1] = d[1] /\ c[2][i] = d[2][j]) => c = d /\ i = j

NoRepetition == Distinct(chains)

ChainInv ==
  /\ ChainsOfWriters
  /\ WritersInChains
  /\ NoRepetition
  /\ NextVersions = Linked \cup wwpairs
  /\ Linked \cap wwpairs = {}

HasReads == bpc \in {"ww", "range", "combine", "coalesce", "built"}
HasOrder == bpc \in {"range", "combine", "coalesce", "built"}
HasChains == bpc \in {"combine", "coalesce", "built"}

BInv ==
  /\ WellFormed(hist)
  /\ BTypeOK
  /\ HasReads => ReadsFine /\ readfrom = ReadFrom
  /\ HasOrder => ~Diverges
  /\ bpc \in {"parse", "known", "reads", "ww", "coalesce", "built"} => wwpairs = {}
  /\ bpc = "range" => wwpairs = NextVersions
  /\ HasChains => ChainInv

-----------------------------------------------------------------------------
(* The steps before combine_writes. *)

LEMMA ValidEdge ==
  ASSUME NEW a \in Txn, NEW b \in Txn, b # 0, a # b, NEW t \in EdgeTypes
  PROVE  <<a, b, t>> \in ValidEdges
  BY DEF ValidEdges

LEMMA AddEdgesValid ==
  ASSUME NEW E \in SUBSET ValidEdges, NEW new \in SUBSET ValidEdges
  PROVE  AddEdges(E, new) \subseteq ValidEdges
  BY DEF AddEdges

LEMMA BInitInv == BInit => BInv
<1> SUFFICES ASSUME BInit PROVE BInv
  OBVIOUS
<1>1. WellFormed(hist) /\ Ids(hist) = 1..NTxns
  BY HistoriesAssumption, IdsFacts DEF BInit
<1> QED
  BY <1>1 DEF BInit, BInv, BTypeOK, ValidConstraints, HasReads, HasOrder, HasChains

LEMMA StopInv ==
  ASSUME BInv, NEW how \in {"known", "reject", "crash"}, Stop(how),
         how = "known" => bpc = "parse"
  PROVE  BInv'
  BY DEF Stop, BInv, BTypeOK, ValidConstraints, HasReads, HasOrder, HasChains

LEMMA KnownEdgesValid ==
  ASSUME WellFormed(hist)
  PROVE  /\ SessionPairs(hist) \subseteq (Txn \ {0}) \X (Txn \ {0})
         /\ SessionEdges \in SUBSET ValidEdges
         /\ {<<0, i, "cb">> : i \in Txn \ {0}} \in SUBSET ValidEdges
<1>1. SessionPairs(hist) \subseteq (Txn \ {0}) \X (Txn \ {0})
  <2> SUFFICES ASSUME NEW s \in hist.sessions, NEW i \in 1..Len(s)-1
               PROVE  s[i] \in Txn \ {0} /\ s[i+1] \in Txn \ {0}
    BY DEF SessionPairs
  <2>1. s \in Seq(1..NTxns)
    BY DEF WellFormed
  <2>2. Len(s) \in Nat /\ s \in [1..Len(s) -> 1..NTxns]
    BY <2>1, LenProperties
  <2>3. i \in 1..Len(s) /\ i + 1 \in 1..Len(s)
    BY <2>2
  <2>4. s[i] \in 1..NTxns /\ s[i+1] \in 1..NTxns
    BY <2>2, <2>3
  <2> QED
    BY <2>4, NTxnsAssumption DEF Txn
<1>2. \A p \in SessionPairs(hist) : p[1] # p[2]
  BY DEF WellFormed, SessionPairs
<1>3. SessionEdges \in SUBSET ValidEdges
  BY <1>1, <1>2, ValidEdge DEF SessionEdges, EdgeTypes, CbTypes
<1>4. {<<0, i, "cb">> : i \in Txn \ {0}} \in SUBSET ValidEdges
  <2>1. 0 \in Txn /\ "cb" \in EdgeTypes
    BY NTxnsAssumption DEF Txn, EdgeTypes, CbTypes
  <2> QED
    BY <2>1, ValidEdge
<1> QED
  BY <1>1, <1>3, <1>4

LEMMA KnownStartInv == ASSUME BInv, KnownStart PROVE BInv'
<1>1. /\ SessionPairs(hist) \subseteq (Txn \ {0}) \X (Txn \ {0})
      /\ SessionEdges \in SUBSET ValidEdges
      /\ {<<0, i, "cb">> : i \in Txn \ {0}} \in SUBSET ValidEdges
  BY KnownEdgesValid DEF BInv
<1>2. edges' \subseteq ValidEdges
  BY <1>1, AddEdgesValid DEF KnownStart
<1> QED
  BY <1>1, <1>2 DEF KnownStart, BInv, BTypeOK, ValidConstraints, HasReads, HasOrder, HasChains

LEMMA ReadEdgesValid ==
  ASSUME WellFormed(hist), ReadsFine
  PROVE  ReadEdges \in SUBSET ValidEdges
<1>1. \A f \in ReadFrom : f[2] \in Txn /\ f[3] \in Txn \ {0} /\ f[2] # f[3]
  BY ReadFromTypes
<1>2. {<<f[2], f[3], "wr">> : f \in ReadFrom} \subseteq ValidEdges
  BY <1>1, ValidEdge DEF EdgeTypes, CbTypes
<1>3. T0ReaderEdges \subseteq ValidEdges
  <2> SUFFICES ASSUME NEW r \in ext_reads(hist), NEW w \in k_writes_fn(hist, r[1]) \ {r[3]}
               PROVE  <<r[3], w, "rw">> \in ValidEdges
    BY DEF T0ReaderEdges
  <2>1. r[3] \in Ids(hist) /\ w \in Ids(hist) /\ w # r[3]
    BY ExtReadsFacts, WritersAreIds
  <2> QED
    BY <2>1, IdsFacts, ValidEdge DEF EdgeTypes
<1> QED
  BY <1>2, <1>3 DEF ReadEdges

LEMMA ReadLoopInv == ASSUME BInv, ReadLoop PROVE BInv'
<1>1. WellFormed(hist) /\ ReadsFine /\ hist' = hist /\ wwpairs' = wwpairs /\ bpc' = "ww"
      /\ readfrom' = ReadFrom
  BY DEF BInv, ReadLoop
<1>2. \A f \in ReadFrom : f[2] \in Txn /\ f[3] \in Txn \ {0}
  BY <1>1, ReadFromTypes
<1>3. ReadEdges \in SUBSET ValidEdges
  BY <1>1, ReadEdgesValid
<1>5. edges' \subseteq ValidEdges
  BY <1>3, AddEdgesValid DEF ReadLoop, BInv, BTypeOK
<1>6. ReadsFine' /\ readfrom' = ReadFrom'
  BY <1>1 DEF ReadsFine, ReadFrom, DirtyRead, ReadsT0
<1>7. wwpairs = {}
  BY DEF BInv, ReadLoop
<1> QED
  BY <1>1, <1>2, <1>5, <1>6, <1>7 DEF ReadLoop, BInv, BTypeOK, ValidConstraints, HasReads, HasOrder, HasChains

\* What the reads determine stays as it is while the chains are built.
LEMMA OrderUnchanged ==
  ASSUME hist' = hist, readfrom' = readfrom
  PROVE  /\ ReadsFine' = ReadsFine
         /\ ReadFrom' = ReadFrom
         /\ NextVersions' = NextVersions
         /\ Diverges' = Diverges
  BY DEF ReadsFine, ReadFrom, DirtyRead, ReadsT0, NextVersions, Diverges

LEMMA WWLoopInv == ASSUME BInv, WWLoop PROVE BInv'
<1>1. /\ bpc = "ww" /\ ~Diverges /\ wwpairs' = NextVersions /\ bpc' = "range"
      /\ UNCHANGED <<hist, edges, so, readfrom, chains, conn>>
  BY DEF WWLoop
<1>2. NextVersions \subseteq readfrom
  BY DEF NextVersions
<1> QED
  BY <1>1, <1>2, OrderUnchanged
     DEF BInv, BTypeOK, ValidConstraints, HasReads, HasOrder, HasChains

LEMMA MissedUpsertsTypes ==
  ASSUME NEW m \in MissedUpserts
  PROVE  m[1][1] \in Ids(hist) /\ m[2][1] \in Ids(hist)
<1>1. PICK q \in get_all_range_queries(hist) :
        \E ins \in UNION {k_upserts_fn(hist, key) : key \in other_keys(hist, q)} : m = <<q, ins>>
  BY DEF MissedUpserts
<1>2. PICK ins \in UNION {k_upserts_fn(hist, key) : key \in other_keys(hist, q)} : m = <<q, ins>>
  BY <1>1
<1>3. q[1] \in Ids(hist)
  BY DEF get_all_range_queries
<1>4. PICK key \in other_keys(hist, q) : ins \in k_upserts_fn(hist, key)
  BY <1>2
<1>5. ins[1] \in Ids(hist)
  BY <1>4 DEF k_upserts_fn
<1> QED
  BY <1>2, <1>3, <1>5

LEMMA MissedEdgesValid ==
  ASSUME WellFormed(hist)
  PROVE  {<<m[1][1], m[2][1], "rw">> : m \in {m \in MissedUpserts : m[1][1] # m[2][1]}}
           \in SUBSET ValidEdges
  BY MissedUpsertsTypes, IdsFacts, ValidEdge DEF EdgeTypes

LEMMA RangeLoopInv == ASSUME BInv, RangeLoop PROVE BInv'
<1>1. /\ bpc = "range" /\ bpc' = "combine"
      /\ chains' = {<<w[1], <<w[3]>>>> : w \in ext_writes(hist)}
      /\ UNCHANGED <<hist, so, readfrom, wwpairs, conn>>
  BY DEF RangeLoop
<1>2. /\ WellFormed(hist) /\ ReadsFine /\ readfrom = ReadFrom /\ ~Diverges
      /\ wwpairs = NextVersions
  BY <1>1 DEF BInv, HasReads, HasOrder
<1>3. edges' \subseteq ValidEdges
  <2> DEFINE new == {<<m[1][1], m[2][1], "rw">> :
                       m \in {m \in MissedUpserts : m[1][1] # m[2][1]}}
  <2>1. new \subseteq ValidEdges
    BY <1>2, MissedEdgesValid
  <2> QED
    BY <2>1, AddEdgesValid DEF RangeLoop, BInv, BTypeOK
<1>4. \A w \in ext_writes(hist) : w[3] \in Txn \ {0} /\ w[3] \in k_writes_fn(hist, w[1])
  BY <1>2, ExtWritesFacts, IdsFacts, KWritesFacts
<1>5. \A x : Len(<<x>>) = 1 /\ DOMAIN <<x>> = {1} /\ <<x>>[1] = x /\ <<x>> # << >>
  OBVIOUS
<1>6. ChainsOfWriters'
  <2> SUFFICES ASSUME NEW w \in ext_writes(hist), NEW c, c = <<w[1], <<w[3]>>>>
               PROVE  /\ c = <<c[1], c[2]>>
                      /\ c[2] \in Seq(Txn \ {0}) /\ c[2] # << >>
                      /\ \A i \in DOMAIN c[2] : c[2][i] \in k_writes_fn(hist, c[1])
    BY <1>1 DEF ChainsOfWriters
  <2>1. c[1] = w[1] /\ c[2] = <<w[3]>> /\ c[2] \in Seq(Txn \ {0})
    BY <1>4
  <2> QED
    BY <1>4, <1>5, <2>1
<1>7. WritersInChains'
  <2> SUFFICES ASSUME NEW w \in ext_writes(hist)
               PROVE  \E c \in chains' : c[1] = w[1] /\ \E i \in DOMAIN c[2] : c[2][i] = w[3]
    BY <1>1 DEF WritersInChains
  <2> DEFINE c == <<w[1], <<w[3]>>>>
  <2>1. c \in chains' /\ c[1] = w[1] /\ c[2] = <<w[3]>>
    BY <1>1
  <2> QED
    BY <1>5, <2>1
<1>8. NoRepetition'
  BY <1>1, <1>5 DEF NoRepetition, Distinct
<1>9. Linked' = {}
  BY <1>1, <1>5 DEF Linked, LinksOf
<1>10. ChainInv'
  BY <1>1, <1>2, <1>6, <1>7, <1>8, <1>9, OrderUnchanged DEF ChainInv
<1>11. \A c \in chains' : c[2] \in Seq(Txn \ {0}) /\ c[2] # << >>
  BY <1>6 DEF ChainsOfWriters
<1> QED
  BY <1>1, <1>2, <1>3, <1>10, <1>11, OrderUnchanged
     DEF BInv, BTypeOK, ValidConstraints, HasReads, HasOrder, HasChains

LEMMA InferRWEdgesInv == ASSUME BInv, InferRWEdges PROVE BInv'
<1>1. /\ bpc = "combine" /\ bpc' = "coalesce" /\ wwpairs = {}
      /\ edges' = AddEdges(edges, InferredEdges)
      /\ UNCHANGED <<hist, so, readfrom, wwpairs, chains, conn>>
  BY DEF InferRWEdges
<1>2. ChainInv /\ BTypeOK
  BY <1>1 DEF BInv, HasChains
<1>3. InferredEdges \subseteq ValidEdges
  <2> SUFFICES ASSUME NEW c \in chains, NEW i \in 1..Len(c[2])-1, NEW f \in readfrom,
                      f[3] # c[2][i+1]
               PROVE  <<f[3], c[2][i+1], "rw">> \in ValidEdges
    BY DEF InferredEdges
  <2>1. c[2] \in Seq(Txn \ {0}) /\ f[3] \in Txn
    BY <1>2 DEF BTypeOK
  <2>2. c[2][i+1] \in Txn \ {0}
    BY <2>1
  <2> QED
    BY <2>1, <2>2, ValidEdge DEF EdgeTypes
<1>4. edges' \subseteq ValidEdges
  BY <1>1, <1>2, <1>3, AddEdgesValid DEF BTypeOK
<1>5. ChainInv'
  BY <1>1, <1>2, OrderUnchanged
     DEF ChainInv, ChainsOfWriters, WritersInChains, NoRepetition, Linked
<1> QED
  BY <1>1, <1>4, <1>5, OrderUnchanged
     DEF BInv, BTypeOK, ValidConstraints, HasReads, HasOrder, HasChains

-----------------------------------------------------------------------------
(* combine_writes *)

\* A sequence of transactions, its ends and its concatenation.
LEMMA ChainFacts ==
  ASSUME NEW a \in Seq(Txn \ {0}), a # << >>
  PROVE  /\ Len(a) \in Nat /\ Len(a) >= 1 /\ DOMAIN a = 1..Len(a)
         /\ 1 \in DOMAIN a /\ Len(a) \in DOMAIN a
         /\ First(a) = a[1] /\ Final(a) = a[Len(a)]
<1>1. Len(a) \in Nat /\ DOMAIN a = 1..Len(a)
  BY LenProperties
<1>2. Len(a) \in Nat \ {0}
  BY EmptySeq
<1> QED
  BY <1>1, <1>2 DEF First, Final

LEMMA ConcatFacts ==
  ASSUME NEW a \in Seq(Txn \ {0}), a # << >>, NEW b \in Seq(Txn \ {0}), b # << >>
  PROVE  /\ a \o b \in Seq(Txn \ {0}) /\ a \o b # << >>
         /\ Len(a \o b) = Len(a) + Len(b)
         /\ DOMAIN (a \o b) = 1..Len(a) + Len(b)
         /\ \A i \in DOMAIN a : i \in DOMAIN (a \o b) /\ (a \o b)[i] = a[i]
         /\ \A i \in DOMAIN b : Len(a) + i \in DOMAIN (a \o b) /\ (a \o b)[Len(a) + i] = b[i]
         /\ \A i \in DOMAIN (a \o b) : \/ i \in DOMAIN a
                                       \/ i > Len(a) /\ i - Len(a) \in DOMAIN b
<1> DEFINE ab == a \o b
<1>1. /\ ab \in Seq(Txn \ {0}) /\ Len(ab) = Len(a) + Len(b)
      /\ \A i \in 1..Len(a) + Len(b) : ab[i] = IF i <= Len(a) THEN a[i] ELSE b[i - Len(a)]
  BY ConcatProperties
<1>2. DOMAIN ab = 1..Len(ab)
  BY <1>1, LenProperties
<1>3. Len(a) \in Nat /\ Len(b) \in Nat /\ Len(a) >= 1 /\ DOMAIN a = 1..Len(a) /\ DOMAIN b = 1..Len(b)
  BY ChainFacts
<1> HIDE DEF ab
<1>4. ab # << >>
  BY <1>1, <1>3, EmptySeq
<1>5. \A i \in DOMAIN a : i \in DOMAIN ab /\ ab[i] = a[i]
  BY <1>1, <1>2, <1>3
<1>6. \A i \in DOMAIN b : Len(a) + i \in DOMAIN ab /\ ab[Len(a) + i] = b[i]
  <2> TAKE i \in DOMAIN b
  <2>1. Len(a) + i \in 1..Len(a) + Len(b) /\ ~(Len(a) + i <= Len(a)) /\ (Len(a) + i) - Len(a) = i
    BY <1>3
  <2> QED
    BY <1>1, <1>2, <2>1
<1>7. \A i \in DOMAIN ab : i \in DOMAIN a \/ (i > Len(a) /\ i - Len(a) \in DOMAIN b)
  BY <1>1, <1>2, <1>3
<1> QED
  BY <1>1, <1>2, <1>4, <1>5, <1>6, <1>7 DEF ab

LEMMA LinksFacts ==
  ASSUME NEW C, NEW x
  PROVE  x \in LinksOf(C) <=>
           \E c \in C : \E i \in 1..Len(c[2])-1 : x = <<c[1], c[2][i], c[2][i+1]>>
  BY DEF LinksOf

LEMMA LinksBound ==
  ASSUME NEW C, NEW S,
         \A c \in C : \A i \in 1..Len(c[2])-1 : <<c[1], c[2][i], c[2][i+1]>> \in S
  PROVE  LinksOf(C) \subseteq S
<1> SUFFICES ASSUME NEW x \in LinksOf(C) PROVE x \in S
  OBVIOUS
<1>1. PICK c \in C : \E i \in 1..Len(c[2])-1 : x = <<c[1], c[2][i], c[2][i+1]>>
  BY LinksFacts
<1>2. PICK i \in 1..Len(c[2])-1 : x = <<c[1], c[2][i], c[2][i+1]>>
  BY <1>1
<1> QED
  BY <1>2

\* The state in which a pair is combined.
Combining ==
  /\ WellFormed(hist) /\ ReadsFine /\ readfrom = ReadFrom /\ ~Diverges
  /\ ChainInv

\* The first transaction of a pair still to be combined ends a chain ...
LEMMA PairEndsChain ==
  ASSUME Combining, NEW p \in wwpairs
  PROVE  \E c \in chains : find_chain_by_last_txn(p[1], p[2]) = {c}
<1>1. p \in NextVersions /\ p \notin Linked
  BY DEF Combining, ChainInv
<1>2. p = <<p[1], p[2], p[3]>> /\ p[2] \in k_writes_fn(hist, p[1])
  BY <1>1, NextVersionsTypes DEF Combining
<1>3. PICK w \in ext_writes(hist) : w[1] = p[1] /\ w[3] = p[2]
  BY <1>2, KWritesFacts
<1>4. PICK c \in chains : c[1] = p[1] /\ \E i \in DOMAIN c[2] : c[2][i] = p[2]
  BY <1>3 DEF Combining, ChainInv, WritersInChains
<1>5. PICK i \in DOMAIN c[2] : c[2][i] = p[2]
  BY <1>4
<1>6. c[2] \in Seq(Txn \ {0}) /\ c[2] # << >>
  BY DEF Combining, ChainInv, ChainsOfWriters
<1>7. Len(c[2]) \in Nat /\ DOMAIN c[2] = 1..Len(c[2]) /\ Final(c[2]) = c[2][Len(c[2])]
  BY <1>6, ChainFacts
<1>8. i = Len(c[2])
  <2> SUFFICES ASSUME i # Len(c[2]) PROVE FALSE
    OBVIOUS
  <2> DEFINE x == <<c[1], c[2][i], c[2][i+1]>>
  <2>1. i \in 1..Len(c[2])-1
    BY <1>7
  <2>2. x \in Linked
    BY <2>1, LinksFacts DEF Linked
  <2>3. x \in NextVersions
    BY <2>2 DEF Combining, ChainInv
  <2>4. x[1] = p[1] /\ x[2] = p[2] /\ x[3] = c[2][i+1]
    BY <1>4, <1>5
  <2> HIDE DEF x
  <2>5. x[3] = p[3]
    BY <1>1, <2>3, <2>4 DEF Combining, Diverges
  <2>6. x = p
    BY <1>2, <1>4, <1>5, <2>4, <2>5 DEF x
  <2> QED
    BY <1>1, <2>2, <2>6
<1>9. c \in find_chain_by_last_txn(p[1], p[2])
  BY <1>4, <1>5, <1>7, <1>8 DEF find_chain_by_last_txn
<1>10. ASSUME NEW d \in find_chain_by_last_txn(p[1], p[2]) PROVE d = c
  <2>1. d \in chains /\ d[1] = c[1] /\ Final(d[2]) = p[2]
    BY <1>4 DEF find_chain_by_last_txn
  <2>2. Len(d[2]) \in DOMAIN d[2] /\ d[2][Len(d[2])] = p[2]
    BY <2>1, ChainFacts DEF Combining, ChainInv, ChainsOfWriters
  <2> QED
    BY <1>5, <2>1, <2>2 DEF Combining, ChainInv, NoRepetition, Distinct
<1> QED
  BY <1>9, <1>10

\* ... and the second one begins a chain.
LEMMA PairBeginsChain ==
  ASSUME Combining, NEW p \in wwpairs
  PROVE  \E c \in chains : find_chain_by_first_txn(p[1], p[3]) = {c}
<1>1. p \in NextVersions /\ p \notin Linked
  BY DEF Combining, ChainInv
<1>2. p = <<p[1], p[2], p[3]>> /\ p[3] \in k_writes_fn(hist, p[1])
  BY <1>1, NextVersionsTypes DEF Combining
<1>3. PICK w \in ext_writes(hist) : w[1] = p[1] /\ w[3] = p[3]
  BY <1>2, KWritesFacts
<1>4. PICK c \in chains : c[1] = p[1] /\ \E i \in DOMAIN c[2] : c[2][i] = p[3]
  BY <1>3 DEF Combining, ChainInv, WritersInChains
<1>5. PICK i \in DOMAIN c[2] : c[2][i] = p[3]
  BY <1>4
<1>6. c[2] \in Seq(Txn \ {0}) /\ c[2] # << >>
  BY DEF Combining, ChainInv, ChainsOfWriters
<1>7. Len(c[2]) \in Nat /\ DOMAIN c[2] = 1..Len(c[2]) /\ First(c[2]) = c[2][1]
  BY <1>6, ChainFacts
<1>8. i = 1
  <2> SUFFICES ASSUME i # 1 PROVE FALSE
    OBVIOUS
  <2> DEFINE x == <<c[1], c[2][i-1], c[2][(i-1)+1]>>
  <2>1. i - 1 \in 1..Len(c[2])-1 /\ (i-1)+1 = i
    BY <1>7
  <2>2. x \in Linked
    BY <2>1, LinksFacts DEF Linked
  <2>3. x \in NextVersions
    BY <2>2 DEF Combining, ChainInv
  <2>4. x[1] = p[1] /\ x[3] = p[3] /\ x[2] = c[2][i-1]
    BY <1>4, <1>5, <2>1
  <2> HIDE DEF x
  <2>5. x[2] = p[2]
    BY <1>1, <2>3, <2>4, OnePredecessor DEF Combining
  <2>6. x = p
    BY <1>2, <1>4, <1>5, <2>1, <2>4, <2>5 DEF x
  <2> QED
    BY <1>1, <2>2, <2>6
<1>9. c \in find_chain_by_first_txn(p[1], p[3])
  BY <1>4, <1>5, <1>7, <1>8 DEF find_chain_by_first_txn
<1>10. ASSUME NEW d \in find_chain_by_first_txn(p[1], p[3]) PROVE d = c
  <2>1. d \in chains /\ d[1] = c[1] /\ First(d[2]) = p[3]
    BY <1>4 DEF find_chain_by_first_txn
  <2>2. 1 \in DOMAIN d[2] /\ d[2][1] = p[3]
    BY <2>1, ChainFacts DEF Combining, ChainInv, ChainsOfWriters
  <2> QED
    BY <1>5, <2>1, <2>2 DEF Combining, ChainInv, NoRepetition, Distinct
<1> QED
  BY <1>9, <1>10

\* Two places of different chains or two places of one chain differ.
LEMMA DistinctFacts ==
  ASSUME NEW C, Distinct(C), NEW c \in C, NEW d \in C,
         NEW i \in DOMAIN c[2], NEW j \in DOMAIN d[2], c[1] = d[1], c[2][i] = d[2][j]
  PROVE  c = d /\ i = j
  BY DEF Distinct

\* What combine_writes makes of the chains.
Joined(C, c1, c2) == (C \ {c1, c2}) \cup {<<c1[1], c1[2] \o c2[2]>>}

\* Joining two chains of a key: every place of the new chains is a place of
\* one old chain, and the pair at the joint is the only new link.
LEMMA JoinChains ==
  ASSUME NEW C, Distinct(C), NEW c1 \in C, NEW c2 \in C, c1 # c2, c1[1] = c2[1],
         c1[2] \in Seq(Txn \ {0}), c1[2] # << >>, c2[2] \in Seq(Txn \ {0}), c2[2] # << >>
  PROVE  /\ Distinct(Joined(C, c1, c2))
         /\ LinksOf(Joined(C, c1, c2)) =
              LinksOf(C) \cup {<<c1[1], Final(c1[2]), First(c2[2])>>}
<1> PICK D, key : D = Joined(C, c1, c2) /\ key = c1[1]
  OBVIOUS
<1> DEFINE a == c1[2]
           b == c2[2]
           ab == a \o b
           new == <<key, ab>>
           n == Len(a)
           p == <<key, Final(a), First(b)>>
<1>2. a \in Seq(Txn \ {0}) /\ a # << >> /\ b \in Seq(Txn \ {0}) /\ b # << >>
  OBVIOUS
<1>3. /\ n \in Nat /\ n >= 1 /\ DOMAIN a = 1..n /\ Final(a) = a[n]
      /\ Len(b) \in Nat /\ Len(b) >= 1 /\ DOMAIN b = 1..Len(b) /\ First(b) = b[1]
  BY <1>2, ChainFacts
<1>4. /\ ab \in Seq(Txn \ {0}) /\ ab # << >>
      /\ Len(ab) = n + Len(b)
      /\ DOMAIN ab = 1..n + Len(b)
      /\ \A i \in DOMAIN a : i \in DOMAIN ab /\ ab[i] = a[i]
      /\ \A i \in DOMAIN b : n + i \in DOMAIN ab /\ ab[n + i] = b[i]
      /\ \A i \in DOMAIN ab : i \in DOMAIN a \/ (i > n /\ i - n \in DOMAIN b)
  BY <1>2, ConcatFacts
<1>5. new[1] = key /\ new[2] = ab /\ new \in D
  BY DEF Joined
<1>6. \A c \in D : c = new \/ (c \in C /\ c # c1 /\ c # c2)
  BY DEF Joined
<1>7. \A c \in C : c = c1 \/ c = c2 \/ c \in D
  BY DEF Joined
<1>8. /\ DOMAIN c1[2] = DOMAIN a /\ \A i : c1[2][i] = a[i]
      /\ DOMAIN c2[2] = DOMAIN b /\ \A i : c2[2][i] = b[i]
      /\ Len(c1[2]) = n /\ Len(c2[2]) = Len(b)
  OBVIOUS
<1>9. p = <<key, a[n], b[1]>>
  BY <1>3
<1> HIDE DEF a, b, ab, new, n, p
<1>n. \A i \in DOMAIN ab : i > n => ab[i] = b[i - n] /\ i - n \in DOMAIN b
  <2> SUFFICES ASSUME NEW i \in DOMAIN ab, i > n PROVE ab[i] = b[i - n] /\ i - n \in DOMAIN b
    OBVIOUS
  <2>1. i - n \in DOMAIN b /\ n + (i - n) = i
    BY <1>3, <1>4
  <2> QED
    BY <1>4, <2>1
<1>12. Distinct(D)
  <2>1. ASSUME NEW i \in DOMAIN ab
        PROVE  \/ i \in DOMAIN a /\ ab[i] = a[i]
               \/ i > n /\ i - n \in DOMAIN b /\ ab[i] = b[i - n]
    BY <1>4, <1>n
  <2>2. ASSUME NEW d \in C, d # c1, d # c2, d[1] = key,
               NEW i \in DOMAIN ab, NEW j \in DOMAIN d[2], ab[i] = d[2][j]
        PROVE  FALSE
    <3>1. ASSUME NEW l \in DOMAIN a PROVE a[l] # d[2][j]
      BY <1>8, <2>2, <3>1, DistinctFacts
    <3>2. ASSUME NEW l \in DOMAIN b PROVE b[l] # d[2][j]
      BY <1>8, <2>2, <3>2, DistinctFacts
    <3> QED
      BY <2>1, <2>2, <3>1, <3>2
  <2>3. ASSUME NEW i \in DOMAIN ab, NEW j \in DOMAIN ab, ab[i] = ab[j]
        PROVE  i = j
    <3>1. i \in Int /\ j \in Int /\ n \in Int
      BY <1>3, <1>4
    <3>2. ASSUME NEW x \in DOMAIN a, NEW y \in DOMAIN a, a[x] = a[y] PROVE x = y
      BY <1>8, <3>2, DistinctFacts
    <3>3. ASSUME NEW x \in DOMAIN a, NEW y \in DOMAIN b PROVE a[x] # b[y]
      BY <1>8, <3>3, DistinctFacts
    <3>4. ASSUME NEW x \in DOMAIN b, NEW y \in DOMAIN b, b[x] = b[y] PROVE x = y
      BY <1>8, <3>4, DistinctFacts
    <3>5. CASE i \in DOMAIN a /\ j \in DOMAIN a
      BY <1>4, <2>3, <3>2, <3>5
    <3>6. CASE i \in DOMAIN a /\ j > n
      BY <1>4, <1>n, <2>3, <3>3, <3>6
    <3>7. CASE i > n /\ j \in DOMAIN a
      BY <1>4, <1>n, <2>3, <3>3, <3>7
    <3>8. CASE i > n /\ j > n
      <4>1. b[i - n] = b[j - n] /\ i - n \in DOMAIN b /\ j - n \in DOMAIN b
        BY <1>n, <2>3, <3>8
      <4>2. i - n = j - n
        BY <3>4, <4>1
      <4> QED
        BY <3>1, <4>2
    <3> QED
      BY <1>4, <3>5, <3>6, <3>7, <3>8
  <2> SUFFICES \A c, d \in D : \A i \in DOMAIN c[2], j \in DOMAIN d[2] :
                 (c[1] = d[1] /\ c[2][i] = d[2][j]) => c = d /\ i = j
    BY DEF Distinct
  <2> TAKE c, d \in D
  <2> TAKE i \in DOMAIN c[2], j \in DOMAIN d[2]
  <2> HAVE c[1] = d[1] /\ c[2][i] = d[2][j]
  <2>4. CASE c = new /\ d = new
    <3>1. i = j
      BY <1>5, <2>3, <2>4
    <3> QED
      BY <2>4, <3>1
  <2>5. CASE c # new /\ d # new
    <3>1. c \in C /\ d \in C
      BY <1>6, <2>5
    <3> QED
      BY <3>1, DistinctFacts
  <2>6. CASE c = new /\ d # new
    BY <1>5, <1>6, <2>2, <2>6
  <2>7. CASE c # new /\ d = new
    BY <1>5, <1>6, <2>2, <2>7
  <2> QED
    BY <2>4, <2>5, <2>6, <2>7
<1>13. LinksOf(D) \subseteq LinksOf(C) \cup {p}
  <2> SUFFICES ASSUME NEW c \in D, NEW i \in 1..Len(c[2])-1
               PROVE  <<c[1], c[2][i], c[2][i+1]>> \in LinksOf(C) \cup {p}
    <3> HIDE DEF LinksOf
    <3> QED
      BY LinksBound, Zenon
  <2>1. CASE c # new
    BY <1>6, <2>1, LinksFacts
  <2>2. CASE c = new
    <3>1. i \in 1..(n + Len(b))-1 /\ c[1] = key /\ c[2] = ab
      BY <1>4, <1>5, <2>2
    <3>2. i \in Int /\ i >= 1 /\ i \in DOMAIN ab /\ i + 1 \in DOMAIN ab
      BY <1>3, <1>4, <3>1
    <3>3. CASE i < n
      <4>1. i \in DOMAIN a /\ i + 1 \in DOMAIN a /\ i \in 1..Len(c1[2])-1
        BY <1>3, <3>2, <3>3 DEF n, a
      <4>2. <<c1[1], c1[2][i], c1[2][i+1]>> \in LinksOf(C)
        BY <4>1, LinksFacts
      <4> QED
        BY <1>4, <3>1, <4>1, <4>2 DEF a
    <3>4. CASE i = n
      <4>1. i \in DOMAIN a /\ ab[i] = a[n]
        BY <1>3, <1>4, <3>4 DEF a
      <4>2. 1 \in DOMAIN b /\ ab[i + 1] = b[1]
        BY <1>3, <1>4, <3>4 DEF b
      <4> QED
        BY <1>9, <3>1, <4>1, <4>2
    <3>5. CASE i > n
      <4> DEFINE j == i - n
      <4>1. ab[i] = b[j] /\ ab[i + 1] = b[(i + 1) - n] /\ (i + 1) - n = j + 1
        BY <1>3, <1>n, <3>2, <3>5
      <4>2. j \in 1..Len(c2[2])-1
        BY <1>3, <3>1, <3>2, <3>5 DEF b
      <4> HIDE DEF j
      <4>3. <<c2[1], c2[2][j], c2[2][j+1]>> \in LinksOf(C)
        BY <4>2, LinksFacts
      <4> QED
        BY <3>1, <4>1, <4>3 DEF b
    <3> QED
      BY <1>3, <3>2, <3>3, <3>4, <3>5
  <2> QED
    BY <2>1, <2>2
<1>14. LinksOf(C) \cup {p} \subseteq LinksOf(D)
  <2>0. ASSUME NEW i \in 1..Len(ab)-1 PROVE <<key, ab[i], ab[i+1]>> \in LinksOf(D)
    BY <1>5, <2>0, LinksFacts
  <2>1. p \in LinksOf(D)
    <3>1. n \in 1..Len(ab)-1
      BY <1>3, <1>4
    <3>2. ab[n] = a[n] /\ ab[n + 1] = b[1]
      <4>1. n \in DOMAIN a /\ 1 \in DOMAIN b
        BY <1>3
      <4> QED
        BY <1>4, <4>1
    <3>3. <<key, ab[n], ab[n + 1]>> \in LinksOf(D)
      BY <2>0, <3>1
    <3> QED
      BY <1>9, <3>2, <3>3
  <2>2. ASSUME NEW c \in C, NEW i \in 1..Len(c[2])-1
        PROVE  <<c[1], c[2][i], c[2][i+1]>> \in LinksOf(D)
    <3>1. CASE c = c1
      <4>1. i \in DOMAIN a /\ i + 1 \in DOMAIN a /\ i \in 1..Len(ab)-1
        BY <1>3, <1>4, <2>2, <3>1 DEF n, a
      <4>2. ab[i] = a[i] /\ ab[i + 1] = a[i + 1]
        BY <1>4, <4>1
      <4> QED
        BY <2>0, <3>1, <4>1, <4>2 DEF a
    <3>2. CASE c = c2
      <4>1. i \in 1..Len(b)-1
        BY <3>2 DEF b
      <4>2. i \in DOMAIN b /\ i + 1 \in DOMAIN b /\ n + i \in 1..Len(ab)-1 /\ (n + i) + 1 = n + (i + 1)
        BY <1>3, <1>4, <4>1
      <4>3. ab[n + i] = b[i] /\ ab[(n + i) + 1] = b[i + 1]
        BY <1>4, <4>2
      <4> QED
        BY <2>0, <3>2, <4>2, <4>3 DEF b
    <3>3. CASE c \in D
      BY <2>2, <3>3, LinksFacts
    <3> QED
      BY <1>7, <3>1, <3>2, <3>3
  <2>3. LinksOf(C) \subseteq LinksOf(D)
    BY <2>2, LinksBound, Zenon
  <2> QED
    BY <2>1, <2>3
<1>15. LinksOf(D) = LinksOf(C) \cup {p}
  BY <1>13, <1>14
<1> QED
  BY <1>12, <1>15, Zenon DEF p, a, b

\* Combining a pair keeps the invariant.
LEMMA JoinInv ==
  ASSUME Combining, NEW p \in wwpairs,
         NEW c1 \in chains, NEW c2 \in chains, c1 # c2, c1[1] = p[1], c2[1] = p[1],
         Final(c1[2]) = p[2], First(c2[2]) = p[3],
         chains' = (chains \ {c1, c2}) \cup {<<p[1], c1[2] \o c2[2]>>},
         wwpairs' = wwpairs \ {p}, UNCHANGED <<hist, readfrom>>
  PROVE  ChainInv'
<1> DEFINE a == c1[2]
           b == c2[2]
           ab == a \o b
           new == <<p[1], ab>>
           n == Len(a)
<1>1. ChainsOfWriters /\ WritersInChains /\ NoRepetition
      /\ NextVersions = Linked \cup wwpairs /\ Linked \cap wwpairs = {}
  BY DEF Combining, ChainInv
<1>2. a \in Seq(Txn \ {0}) /\ a # << >> /\ b \in Seq(Txn \ {0}) /\ b # << >>
  BY <1>1 DEF ChainsOfWriters
<1>3. /\ n \in Nat /\ n >= 1 /\ DOMAIN a = 1..n /\ Final(a) = a[n]
      /\ Len(b) \in Nat /\ Len(b) >= 1 /\ DOMAIN b = 1..Len(b) /\ First(b) = b[1]
  BY <1>2, ChainFacts
<1>4. /\ ab \in Seq(Txn \ {0}) /\ ab # << >>
      /\ Len(ab) = n + Len(b)
      /\ DOMAIN ab = 1..n + Len(b)
      /\ \A i \in DOMAIN a : i \in DOMAIN ab /\ ab[i] = a[i]
      /\ \A i \in DOMAIN b : n + i \in DOMAIN ab /\ ab[n + i] = b[i]
      /\ \A i \in DOMAIN ab : i \in DOMAIN a \/ (i > n /\ i - n \in DOMAIN b)
  BY <1>2, ConcatFacts
<1>5. new[1] = p[1] /\ new[2] = ab /\ new \in chains'
  OBVIOUS
<1>6. \A c \in chains' : c = new \/ (c \in chains /\ c # c1 /\ c # c2)
  OBVIOUS
<1>7. \A c \in chains : c = c1 \/ c = c2 \/ c \in chains'
  OBVIOUS
<1>8. p \in NextVersions
  BY <1>1
<1>9. p = <<p[1], p[2], p[3]>>
  BY <1>8, NextVersionsTypes DEF Combining
<1> HIDE DEF a, b, ab, new, n
<1>n. \A i \in DOMAIN ab : i > n => ab[i] = b[i - n] /\ i - n \in DOMAIN b
  <2> SUFFICES ASSUME NEW i \in DOMAIN ab, i > n PROVE ab[i] = b[i - n] /\ i - n \in DOMAIN b
    OBVIOUS
  <2>1. i - n \in DOMAIN b /\ n + (i - n) = i
    BY <1>3, <1>4
  <2> QED
    BY <1>4, <2>1
<1>10. ChainsOfWriters'
  <2> SUFFICES ASSUME NEW c \in chains'
               PROVE  /\ c = <<c[1], c[2]>>
                      /\ c[2] \in Seq(Txn \ {0}) /\ c[2] # << >>
                      /\ \A i \in DOMAIN c[2] : c[2][i] \in k_writes_fn(hist, c[1])
    BY DEF ChainsOfWriters
  <2>1. CASE c = new
    <3>1. ASSUME NEW i \in DOMAIN ab PROVE ab[i] \in k_writes_fn(hist, p[1])
      <4>1. CASE i \in DOMAIN a
        BY <1>1, <1>4, <4>1 DEF ChainsOfWriters, a
      <4>2. CASE i > n /\ i - n \in DOMAIN b
        BY <1>1, <1>n, <4>2 DEF ChainsOfWriters, b
      <4> QED
        BY <1>4, <4>1, <4>2
    <3>2. new = <<new[1], new[2]>>
      BY <1>5 DEF new
    <3> QED
      BY <1>4, <1>5, <2>1, <3>1, <3>2
  <2>2. CASE c \in chains
    BY <1>1, <2>2 DEF ChainsOfWriters
  <2> QED
    BY <1>6, <2>1, <2>2
<1>11. WritersInChains'
  <2> SUFFICES ASSUME NEW w \in ext_writes(hist)
               PROVE  \E c \in chains' : c[1] = w[1] /\ \E i \in DOMAIN c[2] : c[2][i] = w[3]
    BY DEF WritersInChains
  <2>1. PICK c \in chains : c[1] = w[1] /\ \E i \in DOMAIN c[2] : c[2][i] = w[3]
    BY <1>1 DEF WritersInChains
  <2>2. PICK i \in DOMAIN c[2] : c[2][i] = w[3]
    BY <2>1
  <2>3. CASE c = c1
    <3>1. i \in DOMAIN a /\ a[i] = w[3]
      BY <2>2, <2>3 DEF a
    <3>2. i \in DOMAIN new[2] /\ new[2][i] = w[3]
      BY <1>4, <1>5, <3>1
    <3> QED
      BY <1>5, <2>1, <2>3, <3>2
  <2>4. CASE c = c2
    <3>1. i \in DOMAIN b /\ b[i] = w[3]
      BY <2>2, <2>4 DEF b
    <3>2. n + i \in DOMAIN new[2] /\ new[2][n + i] = w[3]
      BY <1>4, <1>5, <3>1
    <3> QED
      BY <1>5, <2>1, <2>4, <3>2
  <2>5. CASE c \in chains'
    BY <2>1, <2>5
  <2> QED
    BY <1>7, <2>3, <2>4, <2>5
<1>12. p = <<p[1], Final(a), First(b)>>
  BY <1>9 DEF a, b
<1>13. NoRepetition' /\ Linked' = Linked \cup {p}
  <2>1. /\ Distinct(chains')
        /\ LinksOf(chains') = LinksOf(chains) \cup {<<p[1], Final(c1[2]), First(c2[2])>>}
    <3>1. Distinct(chains)
      BY <1>1 DEF NoRepetition
    <3>2. /\ c1[2] \in Seq(Txn \ {0}) /\ c1[2] # << >>
          /\ c2[2] \in Seq(Txn \ {0}) /\ c2[2] # << >>
      BY <1>2 DEF a, b
    <3>3. chains' = Joined(chains, c1, c2)
      BY DEF Joined
    <3> PICK C : C = chains
      OBVIOUS
    <3>4. c1 \in C /\ c2 \in C /\ c1 # c2 /\ c1[1] = c2[1] /\ Distinct(C)
      BY <3>1
    <3>5. /\ Distinct(Joined(C, c1, c2))
          /\ LinksOf(Joined(C, c1, c2)) =
               LinksOf(C) \cup {<<c1[1], Final(c1[2]), First(c2[2])>>}
      BY ONLY <3>2, <3>4, JoinChains
    <3> QED
      BY <3>3, <3>5
  <2> QED
    BY <2>1, <1>12 DEF NoRepetition, Linked, a, b
<1> QED
  BY <1>1, <1>8, <1>10, <1>11, <1>13, OrderUnchanged DEF ChainInv

LEMMA CombineWritesInv == ASSUME BInv, CombineWrites PROVE BInv'
<1>1. bpc = "combine" /\ UNCHANGED <<hist, edges, so, readfrom, conn, bpc>>
  BY DEF CombineWrites
<1>2. Combining
  BY <1>1 DEF BInv, Combining, HasReads, HasOrder, HasChains
<1>3. PICK p \in wwpairs :
        \E c1 \in find_chain_by_last_txn(p[1], p[2]),
           c2 \in find_chain_by_first_txn(p[1], p[3]) :
          /\ c1 # c2
          /\ chains' = (chains \ {c1, c2}) \cup {<<p[1], c1[2] \o c2[2]>>}
          /\ wwpairs' = wwpairs \ {p}
  BY DEF CombineWrites
<1>4. PICK c1 \in find_chain_by_last_txn(p[1], p[2]),
           c2 \in find_chain_by_first_txn(p[1], p[3]) :
          /\ c1 # c2
          /\ chains' = (chains \ {c1, c2}) \cup {<<p[1], c1[2] \o c2[2]>>}
          /\ wwpairs' = wwpairs \ {p}
  BY <1>3
<1>5. /\ c1 \in chains /\ c1[1] = p[1] /\ Final(c1[2]) = p[2]
      /\ c2 \in chains /\ c2[1] = p[1] /\ First(c2[2]) = p[3]
  BY DEF find_chain_by_last_txn, find_chain_by_first_txn
<1>6. ChainInv'
  BY <1>1, <1>2, <1>4, <1>5, JoinInv
<1>7. \A c \in chains' : c[2] \in Seq(Txn \ {0}) /\ c[2] # << >>
  BY <1>6 DEF ChainInv, ChainsOfWriters
<1>8. wwpairs' \subseteq readfrom
  BY <1>4 DEF BInv, BTypeOK
<1> QED
  BY <1>1, <1>6, <1>7, <1>8, OrderUnchanged
     DEF BInv, BTypeOK, ValidConstraints, HasReads, HasOrder, HasChains

-----------------------------------------------------------------------------
(* Coalesce *)

\* The last transaction of a chain is not overwritten by the first one of
\* a chain of the same key.
LEMMA ChainEndsOpen ==
  ASSUME Combining, wwpairs = {}, NEW c \in chains, NEW d \in chains, c[1] = d[1]
  PROVE  <<c[1], Final(c[2]), First(d[2])>> \notin readfrom
<1> DEFINE x == <<c[1], Final(c[2]), First(d[2])>>
<1> SUFFICES ASSUME x \in readfrom PROVE FALSE
  OBVIOUS
<1>1. /\ Len(c[2]) \in Nat /\ Len(c[2]) \in DOMAIN c[2] /\ Final(c[2]) = c[2][Len(c[2])]
      /\ 1 \in DOMAIN d[2] /\ First(d[2]) = d[2][1]
  BY ChainFacts DEF Combining, ChainInv, ChainsOfWriters
<1>2. x[1] = c[1] /\ x[2] = c[2][Len(c[2])] /\ x[3] = d[2][1]
  BY <1>1
<1>3. x[3] \in k_writes_fn(hist, x[1]) /\ x[2] # 0
  BY <1>1, <1>2, WritersAreIds, IdsFacts DEF Combining, ChainInv, ChainsOfWriters
<1> HIDE DEF x
<1>4. x \in Linked
  BY <1>3 DEF Combining, ChainInv, NextVersions
<1>5. PICK e \in chains : \E i \in 1..Len(e[2])-1 : x = <<e[1], e[2][i], e[2][i+1]>>
  BY <1>4, LinksFacts DEF Linked
<1>6. PICK i \in 1..Len(e[2])-1 : x = <<e[1], e[2][i], e[2][i+1]>>
  BY <1>5
<1>7. Len(e[2]) \in Nat /\ DOMAIN e[2] = 1..Len(e[2])
  BY ChainFacts DEF Combining, ChainInv, ChainsOfWriters
<1>8. i \in DOMAIN e[2] /\ i # Len(e[2])
  BY <1>7
<1>9. e[1] = c[1] /\ e[2][i] = c[2][Len(c[2])]
  BY <1>2, <1>6
<1>10. e = c /\ i = Len(c[2])
  BY <1>1, <1>8, <1>9, DistinctFacts DEF Combining, ChainInv, NoRepetition
<1> QED
  BY <1>8, <1>10

LEMMA Chain2ChainValid ==
  ASSUME Combining, wwpairs = {}, \A f \in readfrom : f[2] \in Txn /\ f[3] \in Txn \ {0},
         NEW c \in chains, NEW d \in chains, c # d, c[1] = d[1]
  PROVE  gen_chain2chain_edges(c[2], d[2], c[1]) \subseteq ValidEdges
<1>1. /\ c[2] \in Seq(Txn \ {0}) /\ c[2] # << >>
      /\ d[2] \in Seq(Txn \ {0}) /\ d[2] # << >>
  BY DEF Combining, ChainInv, ChainsOfWriters
<1>2. /\ Len(c[2]) \in DOMAIN c[2] /\ Final(c[2]) = c[2][Len(c[2])]
      /\ 1 \in DOMAIN d[2] /\ First(d[2]) = d[2][1]
  BY <1>1, ChainFacts
<1>3. Final(c[2]) \in Txn \ {0} /\ First(d[2]) \in Txn \ {0}
  BY <1>1, <1>2, ElementOfSeq, LenProperties
<1>4. Final(c[2]) # First(d[2])
  BY <1>2, DistinctFacts DEF Combining, ChainInv, NoRepetition
<1>5. <<Final(c[2]), First(d[2]), "ww">> \in ValidEdges
  BY <1>3, <1>4, ValidEdge DEF EdgeTypes, CbTypes
<1>6. ASSUME NEW f \in readfrom, f[1] = c[1], f[2] = Final(c[2])
      PROVE  <<f[3], First(d[2]), "rw">> \in ValidEdges
  <2>1. f = <<f[1], f[2], f[3]>>
    BY ReadFromTypes DEF Combining
  <2>2. f[3] # First(d[2])
    BY <1>6, <2>1, ChainEndsOpen
  <2> QED
    BY <1>3, <2>2, ValidEdge DEF EdgeTypes
<1> QED
  BY <1>5, <1>6 DEF gen_chain2chain_edges

LEMMA CoalesceInv == ASSUME BInv, Coalesce PROVE BInv'
<1>1. /\ bpc = "coalesce" /\ bpc' = "built"
      /\ UNCHANGED <<hist, edges, so, readfrom, wwpairs, chains>>
  BY DEF Coalesce
<1>2. Combining /\ wwpairs = {} /\ \A f \in readfrom : f[2] \in Txn /\ f[3] \in Txn \ {0}
  BY <1>1
     DEF BInv, BTypeOK, Combining, HasReads, HasOrder, HasChains
<1>3. ASSUME NEW c \in chains, NEW d \in chains, c[1] = d[1], First(c[2]) < First(d[2])
      PROVE  /\ gen_chain2chain_edges(c[2], d[2], c[1]) \subseteq ValidEdges
             /\ gen_chain2chain_edges(d[2], c[2], c[1]) \subseteq ValidEdges
  <2>1. c # d
    <3>1. First(c[2]) \in Txn \ {0}
      <4>1. c[2] \in Seq(Txn \ {0}) /\ c[2] # << >>
        BY <1>2 DEF Combining, ChainInv, ChainsOfWriters
      <4> QED
        BY <4>1, ChainFacts, ElementOfSeq
    <3> QED
      BY <1>3, <3>1, NTxnsAssumption DEF Txn
  <2> QED
    BY <1>2, <1>3, <2>1, Chain2ChainValid
<1>4. ValidConstraints(conn')
  BY <1>3 DEF Coalesce, ValidConstraints
<1>5. ChainInv' /\ ReadsFine' /\ readfrom' = ReadFrom' /\ ~Diverges'
  BY <1>1, <1>2, OrderUnchanged
     DEF Combining, ChainInv, ChainsOfWriters, WritersInChains, NoRepetition, Linked
<1> QED
  BY <1>1, <1>2, <1>4, <1>5 DEF BInv, BTypeOK, HasReads, HasOrder, HasChains

-----------------------------------------------------------------------------
(* The theorems. *)

LEMMA BStepInv == ASSUME BInv, [BNext]_bvars PROVE BInv'
<1>1. CASE BStep
  <2>1. CASE INTReject \/ ParseCrash \/ Parse
    BY <2>1, StopInv DEF INTReject, ParseCrash, Parse
  <2>2. CASE IndexCrash \/ DirtyReadReject \/ ReadsCrash \/ DivergeReject
    BY <2>2, StopInv DEF IndexCrash, DirtyReadReject, ReadsCrash, DivergeReject
  <2>3. CASE DuplicateCrash \/ RangeReject \/ CyclicReject
    BY <2>3, StopInv DEF DuplicateCrash, RangeReject, CyclicReject
  <2>4. CASE KnownStart
    BY <2>4, KnownStartInv
  <2>5. CASE ReadLoop
    BY <2>5, ReadLoopInv
  <2>6. CASE WWLoop
    BY <2>6, WWLoopInv
  <2>7. CASE RangeLoop
    BY <2>7, RangeLoopInv
  <2>8. CASE CombineWrites
    BY <2>8, CombineWritesInv
  <2>9. CASE InferRWEdges
    BY <2>9, InferRWEdgesInv
  <2>10. CASE Coalesce
    BY <2>10, CoalesceInv
  <2> QED
    BY <1>1, <2>1, <2>2, <2>3, <2>4, <2>5, <2>6, <2>7, <2>8, <2>9, <2>10 DEF BStep
<1>2. CASE UNCHANGED bvars
  <2>1. UNCHANGED <<hist, edges, so, readfrom, wwpairs, chains, conn, bpc>>
    BY <1>2 DEF bvars
  <2>2. HasChains => ChainInv'
    BY <2>1, OrderUnchanged
       DEF BInv, ChainInv, ChainsOfWriters, WritersInChains, NoRepetition, Linked
  <2> QED
    BY <2>1, <2>2, OrderUnchanged
       DEF BInv, BTypeOK, ValidConstraints, HasReads, HasOrder, HasChains
<1> QED
  BY <1>1, <1>2 DEF BNext

(***************************************************************************)
(* The inductive invariant: the types, and from the loop on that computes  *)
(* it, what the reads, the version order and the chains are.               *)
(***************************************************************************)
THEOREM BInvariant == BSpec => []BInv
<1>1. BInit => BInv
  BY BInitInv
<1>2. BInv /\ [BNext]_bvars => BInv'
  BY BStepInv
<1> QED
  BY <1>1, <1>2, PTL DEF BSpec

(***************************************************************************)
(* Every edge that add_edge receives satisfies its assertions, in the      *)
(* known graph and in the constraints, for any well-formed history.        *)
(***************************************************************************)
THEOREM BTypeTheorem == BSpec => []BTypeOK
<1>1. BInv => BTypeOK
  BY DEF BInv
<1> QED
  BY <1>1, BInvariant, PTL

(***************************************************************************)
(* The assertions of find_chain_by_last_txn and find_chain_by_first_txn    *)
(* hold at every turn of combine_writes, in whatever order it takes the    *)
(* pairs and however many transactions and keys there are.                 *)
(***************************************************************************)
THEOREM FindChainTheorem == BSpec => []FindChainSucceeds
<1>1. BInv => FindChainSucceeds
  <2> SUFFICES ASSUME BInv, bpc = "combine", NEW p \in wwpairs
               PROVE  /\ Cardinality(find_chain_by_last_txn(p[1], p[2])) = 1
                      /\ Cardinality(find_chain_by_first_txn(p[1], p[3])) = 1
    BY DEF FindChainSucceeds
  <2>1. Combining
    BY DEF BInv, Combining, HasReads, HasOrder, HasChains
  <2>2. PICK c : find_chain_by_last_txn(p[1], p[2]) = {c}
    BY <2>1, PairEndsChain
  <2>3. PICK d : find_chain_by_first_txn(p[1], p[3]) = {d}
    BY <2>1, PairBeginsChain
  <2> QED
    BY <2>2, <2>3, FS_Singleton
<1> QED
  BY <1>1, BInvariant, PTL

(***************************************************************************)
(* Merging chains loses and repeats no write of a key.                     *)
(***************************************************************************)
THEOREM PartitionTheorem == BSpec => []ChainsPartitionWriters
<1>1. BInv => ChainsPartitionWriters
  <2> SUFFICES ASSUME BInv, bpc \in {"combine", "coalesce", "built"},
                      NEW w \in ext_writes(hist)
               PROVE  Cardinality(Occurrences(w[1], w[3])) = 1
    BY DEF ChainsPartitionWriters
  <2>1. ChainInv
    BY DEF BInv, HasChains
  <2>2. PICK c \in chains : c[1] = w[1] /\ \E i \in DOMAIN c[2] : c[2][i] = w[3]
    BY <2>1 DEF ChainInv, WritersInChains
  <2>3. PICK i \in DOMAIN c[2] : c[2][i] = w[3]
    BY <2>2
  <2>4. <<c, i>> \in Occurrences(w[1], w[3])
    BY <2>2, <2>3 DEF Occurrences
  <2>5. ASSUME NEW o \in Occurrences(w[1], w[3]) PROVE o = <<c, i>>
    <3>1. PICK d \in chains : d[1] = w[1] /\ \E j \in DOMAIN d[2] : d[2][j] = w[3] /\ o = <<d, j>>
      BY DEF Occurrences
    <3>2. PICK j \in DOMAIN d[2] : d[2][j] = w[3] /\ o = <<d, j>>
      BY <3>1
    <3>3. d = c /\ j = i
      BY <2>1, <2>2, <2>3, <3>1, <3>2, DistinctFacts DEF ChainInv, NoRepetition
    <3> QED
      BY <3>2, <3>3
  <2>6. Occurrences(w[1], w[3]) = {<<c, i>>}
    BY <2>4, <2>5
  <2> QED
    BY <2>6, FS_Singleton
<1> QED
  BY <1>1, BInvariant, PTL

(***************************************************************************)
(* Once combine_writes is through, the neighbours in the chains are        *)
(* exactly the pairs of versions of which the reads say that the second    *)
(* one overwrote the first.                                                *)
(***************************************************************************)
THEOREM ChainsFollowReadsTheorem == BSpec => []ChainsFollowReads
<1>1. BInv => ChainsFollowReads
  BY DEF BInv, HasChains, ChainInv, Linked, LinksOf, ChainsFollowReads
<1> QED
  BY <1>1, BInvariant, PTL

\* The chain whose last transaction a pair would put before its first is a
\* cycle of versions.
LEMMA CyclicJustified ==
  ASSUME BInv, CyclicReject
  PROVE  \E key \in {p[1] : p \in NextVersions} : \E S \in SUBSET (Txn \ {0}) :
           S # {} /\ \A t \in S : \E u \in S : <<key, u, t>> \in NextVersions
<1>1. bpc = "combine"
  BY DEF CyclicReject
<1>2. Combining
  BY <1>1 DEF BInv, Combining, HasReads, HasOrder, HasChains
<1>3. PICK p \in wwpairs :
        find_chain_by_last_txn(p[1], p[2]) \cap find_chain_by_first_txn(p[1], p[3]) # {}
  BY DEF CyclicReject
<1>4. PICK c \in chains : c[1] = p[1] /\ Final(c[2]) = p[2] /\ First(c[2]) = p[3]
  BY <1>3 DEF find_chain_by_last_txn, find_chain_by_first_txn
<1>5. c[2] \in Seq(Txn \ {0}) /\ c[2] # << >>
  BY <1>2 DEF Combining, ChainInv, ChainsOfWriters
<1>6. /\ Len(c[2]) \in Nat /\ DOMAIN c[2] = 1..Len(c[2])
      /\ 1 \in DOMAIN c[2] /\ Len(c[2]) \in DOMAIN c[2]
      /\ First(c[2]) = c[2][1] /\ Final(c[2]) = c[2][Len(c[2])]
  BY <1>5, ChainFacts
<1> DEFINE S == {c[2][i] : i \in DOMAIN c[2]}
<1>7. S \in SUBSET (Txn \ {0}) /\ S # {}
  <2>1. \A i \in DOMAIN c[2] : c[2][i] \in Txn \ {0}
    BY <1>5, <1>6, ElementOfSeq
  <2>2. c[2][1] \in S
    BY <1>6
  <2> QED
    BY <2>1, <2>2
<1>8. p \in NextVersions /\ p = <<p[1], p[2], p[3]>>
  BY <1>2, NextVersionsTypes DEF Combining, ChainInv
<1>9. ASSUME NEW i \in DOMAIN c[2] PROVE \E u \in S : <<p[1], u, c[2][i]>> \in NextVersions
  <2>1. CASE i = 1
    <3>1. <<p[1], p[2], c[2][i]>> \in NextVersions
      BY <1>4, <1>6, <1>8, <2>1
    <3>2. p[2] \in S
      BY <1>4, <1>6
    <3> QED
      BY <3>1, <3>2
  <2>2. CASE i # 1
    <3> DEFINE j == i - 1
    <3>1. j \in 1..Len(c[2])-1 /\ j + 1 = i /\ j \in DOMAIN c[2]
      BY <1>6, <2>2
    <3> HIDE DEF j
    <3>2. <<c[1], c[2][j], c[2][j+1]>> \in Linked
      BY <3>1, LinksFacts DEF Linked
    <3>3. <<p[1], c[2][j], c[2][i]>> \in NextVersions
      BY <1>2, <1>4, <3>1, <3>2 DEF Combining, ChainInv
    <3> QED
      BY <3>1, <3>3
  <2> QED
    BY <2>1, <2>2
<1>10. \A t \in S : \E u \in S : <<p[1], u, t>> \in NextVersions
  BY <1>9
<1> HIDE DEF S
<1> QED
  BY <1>7, <1>8, <1>10

(***************************************************************************)
(* "cyclic dependency" is raised only where versions of a key overwrite    *)
(* each other in a cycle: the transactions of the chain whose last one a   *)
(* pair would put before its first.                                        *)
(***************************************************************************)
THEOREM CyclicRejectTheorem == BSpec => CyclicRejectJustified
<1> DEFINE Justified ==
      \E key \in {p[1] : p \in NextVersions} : \E S \in SUBSET (Txn \ {0}) :
         S # {} /\ \A t \in S : \E u \in S : <<key, u, t>> \in NextVersions
<1>1. ASSUME BInv, CyclicReject PROVE Justified
  BY <1>1, CyclicJustified
<1>2. BInv /\ [BNext]_bvars => [CyclicReject => Justified]_bvars
  BY <1>1
<1> QED
  BY <1>2, BInvariant, PTL DEF BSpec, CyclicRejectJustified
=============================================================================
