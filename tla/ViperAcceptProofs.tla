------------------------- MODULE ViperAcceptProofs -------------------------
(***************************************************************************)
(* What Viper accepts is snapshot isolated, if the history is transparent, *)
(* however many transactions and keys it has.                              *)
(*                                                                         *)
(* The checker's assignment makes an acyclic graph.  Its nodes can be put  *)
(* in a linear order, from which begin and commit times are read off under *)
(* which all its edges point forward.  The chains and the constraints then *)
(* order the writers of every key, the inferred edges and the ones between *)
(* chains put each reader before the next writer, and so each transaction  *)
(* reads the last visible version.                                         *)
(***************************************************************************)
EXTENDS ViperProofs

-----------------------------------------------------------------------------
(* A finite acyclic graph has a topological order. *)

\* The order ord of m of the nodes 0..M, with each node its predecessors.
OrdersPrefix(G, M, S, ord, m) ==
  /\ S \in SUBSET (0..M) /\ Cardinality(S) = m
  /\ ord \in [S -> 1..m]
  /\ \A u, v \in S : u # v => ord[u] # ord[v]
  /\ \A v \in S : \A u \in 0..M : <<u, v>> \in G => u \in S /\ ord[u] < ord[v]

\* An order of some of the nodes can be continued.
LEMMA LongerPrefix ==
  ASSUME NEW M \in Nat, NEW G, Acyclic(0..M, G),
         NEW S, NEW ord, NEW m \in Nat, OrdersPrefix(G, M, S, ord, m), S # 0..M
  PROVE  \E T, ord2 : OrdersPrefix(G, M, T, ord2, m + 1)
<1>1. S \in SUBSET (0..M) /\ Cardinality(S) = m /\ ord \in [S -> 1..m]
  BY DEF OrdersPrefix
<1>2. (0..M) \ S \in SUBSET (0..M) /\ (0..M) \ S # {}
  BY <1>1
<1>3. PICK v \in (0..M) \ S : \A u \in (0..M) \ S : <<u, v>> \notin G
  BY <1>2 DEF Acyclic
<1> DEFINE T == S \cup {v}
           ord2 == [x \in T |-> IF x = v THEN m + 1 ELSE ord[x]]
<1>4. \A x \in S : x # v /\ x \in T /\ ord2[x] = ord[x] /\ ord[x] \in 1..m
  BY <1>1, <1>3
<1>5. v \in T /\ ord2[v] = m + 1
  OBVIOUS
<1>6. T \in SUBSET (0..M) /\ Cardinality(T) = m + 1
  <2>1. IsFiniteSet(0..M)
    BY FS_Interval
  <2>2. IsFiniteSet(S)
    BY <1>1, <2>1, FS_Subset
  <2>3. Cardinality(S \cup {v}) = Cardinality(S) + 1
    BY <1>3, <2>2, FS_AddElement
  <2> QED
    BY <1>1, <1>3, <2>3
<1>7. ord2 \in [T -> 1..m+1]
  <2>1. \A x \in T : (IF x = v THEN m + 1 ELSE ord[x]) \in 1..m+1
    BY <1>4
  <2> QED
    BY <2>1
<1> HIDE DEF ord2, T
<1>t. \A x \in T : x \in S \/ x = v
  BY DEF T
<1>8. ASSUME NEW x \in T, NEW y \in T, x # y PROVE ord2[x] # ord2[y]
  <2>1. x \in S /\ y \in S => ord[x] # ord[y]
    BY <1>8 DEF OrdersPrefix
  <2> QED
    BY <1>4, <1>5, <1>8, <1>t, <2>1
<1>9. ASSUME NEW x \in T, NEW u \in 0..M, <<u, x>> \in G PROVE u \in T /\ ord2[u] < ord2[x]
  <2>1. CASE x \in S
    <3>1. u \in S /\ ord[u] < ord[x]
      BY <1>9, <2>1 DEF OrdersPrefix
    <3> QED
      BY <1>4, <2>1, <3>1
  <2>2. CASE x = v
    <3>1. u \in S
      BY <1>3, <1>9, <2>2
    <3> QED
      BY <1>4, <1>5, <2>2, <3>1
  <2> QED
    BY <1>t, <2>1, <2>2
<1>10. OrdersPrefix(G, M, T, ord2, m + 1)
  BY <1>6, <1>7, <1>8, <1>9 DEF OrdersPrefix
<1> QED
  BY <1>10

LEMMA TopologicalOrder ==
  ASSUME NEW M \in Nat, NEW G, Acyclic(0..M, G)
  PROVE  \E ord \in [0..M -> Nat] :
           /\ \A u, v \in 0..M : u # v => ord[u] # ord[v]
           /\ \A u, v \in 0..M : <<u, v>> \in G => ord[u] < ord[v]
<1> DEFINE A == {m \in 0..M+1 : \E S, ord : OrdersPrefix(G, M, S, ord, m)}
<1>1. 0 \in A
  <2> DEFINE none == [x \in {} |-> 0]
  <2>1. none \in [{} -> 1..0]
    OBVIOUS
  <2>2. Cardinality({}) = 0
    BY FS_EmptySet
  <2> HIDE DEF none
  <2>3. OrdersPrefix(G, M, {}, none, 0)
    BY <2>1, <2>2 DEF OrdersPrefix
  <2> QED
    BY <2>3
<1>2. \A m \in A : m \in 0..M+1 /\ \E S, ord : OrdersPrefix(G, M, S, ord, m)
  BY Zenon
<1>a. \A m \in 0..M+1 : (\E S, ord : OrdersPrefix(G, M, S, ord, m)) => m \in A
  BY Zenon
<1> HIDE DEF A
<1>b. A \in SUBSET (0..M+1) /\ A # {} /\ M + 1 \in Nat
  BY <1>1, <1>2
<1>3. PICK m \in A : \A y \in A : y <= m
  BY <1>b, GreatestNat
<1>4. PICK S, ord : OrdersPrefix(G, M, S, ord, m)
  BY <1>2, <1>3
<1>5. S \in SUBSET (0..M) /\ Cardinality(S) = m /\ ord \in [S -> 1..m] /\ m \in Nat
  BY <1>2, <1>3, <1>4 DEF OrdersPrefix
<1>6. S = 0..M
  <2> SUFFICES ASSUME S # 0..M PROVE FALSE
    OBVIOUS
  <2>1. PICK T, ord2 : OrdersPrefix(G, M, T, ord2, m + 1)
    BY <1>4, <1>5, LongerPrefix
  <2>2. m + 1 <= M + 1
    <3>1. T \in SUBSET (0..M) /\ Cardinality(T) = m + 1
      BY <2>1 DEF OrdersPrefix
    <3>2. IsFiniteSet(0..M) /\ Cardinality(0..M) = M + 1
      BY FS_Interval
    <3> QED
      BY <3>1, <3>2, FS_Subset
  <2>3. m + 1 \in A
    <3>1. m + 1 \in 0..M+1
      BY <1>5, <2>2
    <3> QED
      BY <1>a, <2>1, <3>1
  <2> QED
    BY <1>3, <1>5, <2>3
<1>7. ord \in [0..M -> Nat]
  BY <1>5, <1>6
<1>8. /\ \A u, v \in 0..M : u # v => ord[u] # ord[v]
      /\ \A u, v \in 0..M : <<u, v>> \in G => ord[u] < ord[v]
  BY <1>4, <1>6 DEF OrdersPrefix
<1> QED
  BY <1>7, <1>8

-----------------------------------------------------------------------------
(* The times are counted off the order. *)

LEMMA SmallerSubset ==
  ASSUME NEW n \in Nat, NEW S \in SUBSET (1..n), NEW T \in SUBSET (1..n)
  PROVE  /\ Cardinality(S) \in 0..n /\ Cardinality(T) \in 0..n
         /\ S \subseteq T => Cardinality(S) <= Cardinality(T)
         /\ (S \subseteq T /\ S # T) => Cardinality(S) < Cardinality(T)
<1>1. IsFiniteSet(1..n) /\ Cardinality(1..n) = n
  BY FS_Interval
<1>a. IsFiniteSet(S) /\ Cardinality(S) <= Cardinality(1..n)
  BY <1>1, FS_Subset
<1>b. IsFiniteSet(T) /\ Cardinality(T) <= Cardinality(1..n)
  BY <1>1, FS_Subset
<1>2. /\ IsFiniteSet(S) /\ IsFiniteSet(T) /\ Cardinality(S) <= n /\ Cardinality(T) <= n
  BY <1>1, <1>a, <1>b
<1>3. Cardinality(S) \in Nat /\ Cardinality(T) \in Nat
  BY <1>2, FS_CardinalityType
<1>4. S \subseteq T => Cardinality(S) <= Cardinality(T) /\ (Cardinality(T) = Cardinality(S) => T = S)
  BY <1>2, FS_Subset
<1> QED
  BY <1>2, <1>3, <1>4

LEMMA CountedTimes ==
  ASSUME NEW n \in Nat, NEW C \in [1..n -> Nat], NEW B \in [1..n -> Nat],
         \A t, u \in 1..n : t # u => C[t] # C[u],
         \A t \in 1..n : B[t] < C[t],
         \A t, u \in 1..n : C[u] # B[t]
  PROVE  \E tm \in Timings(n) : \A t, u \in 1..n : tm.commit[u] <= tm.begin[t] <=> C[u] < B[t]
<1> DEFINE Upto(t) == {w \in 1..n : C[w] <= C[t]}
           Below(t) == {w \in 1..n : C[w] < B[t]}
           commit == [t \in 1..n |-> Cardinality(Upto(t))]
           begin == [t \in 1..n |-> Cardinality(Below(t))]
           tm == [commit |-> commit, begin |-> begin]
<1>1. ASSUME NEW t \in 1..n
      PROVE  C[t] \in Int /\ B[t] \in Int /\ Upto(t) \in SUBSET (1..n) /\ Below(t) \in SUBSET (1..n)
  OBVIOUS
<1>2. ASSUME NEW t \in 1..n
      PROVE  /\ commit[t] = Cardinality(Upto(t)) /\ begin[t] = Cardinality(Below(t))
             /\ tm.commit = commit /\ tm.begin = begin
  OBVIOUS
<1>3. ASSUME NEW t \in 1..n, NEW u \in 1..n, C[u] < B[t]
      PROVE  Cardinality(Upto(u)) <= Cardinality(Below(t))
  <2>1. Upto(u) \subseteq Below(t)
    BY <1>1, <1>3
  <2> HIDE DEF Upto, Below
  <2> QED
    BY <1>1, <2>1, SmallerSubset
<1>4. ASSUME NEW t \in 1..n, NEW u \in 1..n, ~(C[u] < B[t])
      PROVE  Cardinality(Below(t)) < Cardinality(Upto(u))
  <2>1. B[t] < C[u]
    BY <1>1, <1>4
  <2>2. Below(t) \subseteq Upto(u)
    BY <1>1, <2>1
  <2>3. u \in Upto(u) /\ u \notin Below(t)
    BY <1>1, <1>4
  <2> HIDE DEF Upto, Below
  <2> QED
    BY <1>1, <2>2, <2>3, SmallerSubset
<1>5. ASSUME NEW t \in 1..n
      PROVE  Cardinality(Upto(t)) \in 1..n /\ Cardinality(Below(t)) \in 0..n-1
  <2>a. ~(C[t] < B[t])
    BY <1>1
  <2>1. Cardinality(Below(t)) < Cardinality(Upto(t))
    <3> HIDE DEF Upto, Below
    <3> QED
      BY <1>4, <2>a
  <2>2. Cardinality(Below(t)) \in 0..n /\ Cardinality(Upto(t)) \in 0..n
    <3> HIDE DEF Upto, Below
    <3> QED
      BY <1>1, SmallerSubset
  <2> HIDE DEF Upto, Below
  <2> QED
    BY <2>1, <2>2
<1>6. ASSUME NEW t \in 1..n, NEW u \in 1..n, C[t] < C[u]
      PROVE  Cardinality(Upto(t)) < Cardinality(Upto(u))
  <2>1. Upto(t) \subseteq Upto(u)
    BY <1>1, <1>6
  <2>2. u \in Upto(u) /\ u \notin Upto(t)
    BY <1>1, <1>6
  <2> HIDE DEF Upto
  <2> QED
    BY <1>1, <2>1, <2>2, SmallerSubset
<1>7. ASSUME NEW t \in 1..n, NEW u \in 1..n, t # u
      PROVE  Cardinality(Upto(t)) # Cardinality(Upto(u))
  <2>1. C[t] < C[u] \/ C[u] < C[t]
    BY <1>1, <1>7
  <2>2. Cardinality(Upto(t)) \in 1..n /\ Cardinality(Upto(u)) \in 1..n
    BY <1>5
  <2>3. Cardinality(Upto(t)) < Cardinality(Upto(u)) \/ Cardinality(Upto(u)) < Cardinality(Upto(t))
    BY <1>6, <2>1
  <2> HIDE DEF Upto
  <2> QED
    BY <2>2, <2>3
<1> HIDE DEF Upto, Below
<1>8. commit \in CommitOrders(n)
  <2>1. commit \in [1..n -> 1..n]
    BY <1>5
  <2>2. \A t, u \in 1..n : t # u => commit[t] # commit[u]
    BY <1>7
  <2> QED
    BY <2>1, <2>2 DEF CommitOrders
<1>9. begin \in [1..n -> 0..n-1]
  BY <1>5
<1>10. ASSUME NEW t \in 1..n PROVE begin[t] < commit[t]
  <2>1. ~(C[t] < B[t])
    BY <1>1
  <2> QED
    BY <1>4, <2>1
<1>11. tm \in Timings(n)
  <2>1. tm \in [commit : CommitOrders(n), begin : [1..n -> 0..n-1]]
    BY <1>8, <1>9
  <2> QED
    BY <1>10, <2>1 DEF Timings
<1>12. ASSUME NEW t \in 1..n, NEW u \in 1..n
       PROVE  tm.commit[u] <= tm.begin[t] <=> C[u] < B[t]
  <2>1. Cardinality(Upto(u)) \in 1..n /\ Cardinality(Below(t)) \in 0..n-1
    BY <1>5
  <2>2. Cardinality(Upto(u)) <= Cardinality(Below(t)) <=> C[u] < B[t]
    <3>1. CASE C[u] < B[t]
      BY <1>3, <3>1
    <3>2. CASE ~(C[u] < B[t])
      <4>1. Cardinality(Below(t)) < Cardinality(Upto(u))
        BY <1>4, <3>2
      <4> QED
        BY <2>1, <3>2, <4>1
    <3> QED
      BY <3>1, <3>2
  <2> QED
    BY <2>2
<1> HIDE DEF tm
<1> QED
  BY <1>11, <1>12

-----------------------------------------------------------------------------
(* Times under which the edges of an accepted polygraph point forward. *)

LEMMA AcyclicForward ==
  ASSUME NEW E \in SUBSET ValidEdges, Acyclic(CheckerNodes, CheckerGraph(E))
  PROVE  \E tm \in Timings(NTxns) : \A e \in E : Forward(tm, e)
<1>1. 2 * NTxns \in Nat /\ NTxns \in Nat
  BY NTxnsAssumption
<1>2. PICK ord \in [CheckerNodes -> Nat] :
           /\ \A u, v \in CheckerNodes : u # v => ord[u] # ord[v]
           /\ \A u, v \in CheckerNodes : <<u, v>> \in CheckerGraph(E) => ord[u] < ord[v]
  BY <1>1, TopologicalOrder DEF CheckerNodes
<1> DEFINE C == [t \in 1..NTxns |-> ord[2*t]]
           B == [t \in 1..NTxns |-> ord[2*t - 1]]
<1>3. ASSUME NEW t \in 1..NTxns PROVE 2*t \in CheckerNodes /\ 2*t - 1 \in CheckerNodes
  BY <1>1 DEF CheckerNodes
<1>4. C \in [1..NTxns -> Nat] /\ B \in [1..NTxns -> Nat]
  BY <1>3
<1>5. \A t, u \in 1..NTxns : t # u => C[t] # C[u]
  <2> SUFFICES ASSUME NEW t \in 1..NTxns, NEW u \in 1..NTxns, t # u PROVE ord[2*t] # ord[2*u]
    OBVIOUS
  <2>1. 2*t # 2*u
    BY <1>1
  <2> QED
    BY <1>2, <1>3, <2>1
<1>6. \A t \in 1..NTxns : B[t] < C[t]
  <2> SUFFICES ASSUME NEW t \in 1..NTxns PROVE ord[2*t - 1] < ord[2*t]
    OBVIOUS
  <2>1. t \in Txn \ {0} /\ CheckerSi(t) = 2*t - 1 /\ CheckerCi(t) = 2*t
    BY <1>1 DEF Txn, CheckerSi, CheckerCi
  <2>2. <<2*t - 1, 2*t>> \in CheckerGraph(E)
    BY <2>1 DEF CheckerGraph
  <2> QED
    BY <1>2, <1>3, <2>2
<1>7. \A t, u \in 1..NTxns : C[u] # B[t]
  <2> SUFFICES ASSUME NEW t \in 1..NTxns, NEW u \in 1..NTxns PROVE ord[2*u] # ord[2*t - 1]
    OBVIOUS
  <2>1. 2*u # 2*t - 1
    BY <1>1
  <2> QED
    BY <1>2, <1>3, <2>1
<1>8. PICK tm \in Timings(NTxns) :
        \A t, u \in 1..NTxns : tm.commit[u] <= tm.begin[t] <=> C[u] < B[t]
  <2> HIDE DEF C, B
  <2> QED
    BY <1>1, <1>4, <1>5, <1>6, <1>7, CountedTimes
<1>9. ASSUME NEW e \in E PROVE Forward(tm, e)
  <2>1. e[1] \in Txn /\ e[2] \in Txn /\ e[2] # 0 /\ CheckerEdge(e) \in CheckerGraph(E)
    BY DEF ValidEdges, CheckerGraph
  <2> PICK a, b : a = e[1] /\ b = e[2]
    OBVIOUS
  <2>2. CASE a = 0
    BY <2>2 DEF Forward
  <2>3. CASE a # 0
    <3>1. a \in 1..NTxns /\ b \in 1..NTxns
      BY <1>1, <2>1, <2>3 DEF Txn
    <3>n. /\ 2*a \in CheckerNodes /\ 2*a - 1 \in CheckerNodes
          /\ 2*b \in CheckerNodes /\ 2*b - 1 \in CheckerNodes
      BY <1>3, <3>1
    <3>2. CASE e[3] = "rw"
      <4>1. CheckerEdge(e) = <<2*a - 1, 2*b>>
        BY <2>1, <2>3, <3>2 DEF CheckerEdge, CheckerSi, CheckerCi
      <4>2. ord[2*a - 1] < ord[2*b]
        BY <1>2, <2>1, <3>n, <4>1
      <4>3. ~(C[b] < B[a])
        <5>1. ord[2*a - 1] \in Nat /\ ord[2*b] \in Nat
          BY <3>n
        <5>2. C[b] = ord[2*b] /\ B[a] = ord[2*a - 1]
          BY <3>1
        <5> QED
          BY <4>2, <5>1, <5>2
      <4>4. ~(tm.commit[b] <= tm.begin[a])
        BY <1>8, <3>1, <4>3
      <4>5. tm.commit[b] \in Int /\ tm.begin[a] \in Int
        <5>1. tm.commit \in [1..NTxns -> 1..NTxns] /\ tm.begin \in [1..NTxns -> 0..NTxns-1]
          BY DEF Timings, CommitOrders
        <5>2. tm.commit[b] \in 1..NTxns
          BY <3>1, <5>1
        <5>3. tm.begin[a] \in 0..NTxns-1
          BY <3>1, <5>1
        <5> QED
          BY <1>1, <5>2, <5>3
      <4> QED
        BY <3>2, <4>4, <4>5 DEF Forward
    <3>3. CASE e[3] # "rw"
      <4>1. CheckerEdge(e) = <<2*a, 2*b - 1>>
        BY <2>1, <2>3, <3>3 DEF CheckerEdge, CheckerSi, CheckerCi
      <4>2. ord[2*a] < ord[2*b - 1]
        BY <1>2, <2>1, <3>n, <4>1
      <4>3. C[a] < B[b]
        BY <3>1, <4>2
      <4> QED
        BY <1>8, <3>1, <3>3, <4>3 DEF Forward, Precedes
    <3> QED
      BY <3>2, <3>3
  <2> QED
    BY <2>2, <2>3
<1> QED
  BY <1>8, <1>9

LEMMA SatForward ==
  ASSUME NEW E \in SUBSET ValidEdges, NEW con, ValidConstraints(con), ~Unsat(E, con)
  PROVE  \E tm \in Timings(NTxns) :
           /\ \A e \in E : Forward(tm, e)
           /\ \A c \in con : (\A e \in c[1] : Forward(tm, e)) \/ (\A e \in c[2] : Forward(tm, e))
<1>1. PICK sel \in SUBSET con :
        Acyclic(CheckerNodes, CheckerGraph(E \cup Chosen(con, sel)))
  BY DEF Unsat, Sat
<1>2. \A c \in con : c[1] \subseteq ValidEdges /\ c[2] \subseteq ValidEdges
  BY DEF ValidConstraints
<1>3. Chosen(con, sel) \subseteq ValidEdges
  BY <1>2 DEF Chosen
<1>4. PICK tm \in Timings(NTxns) : \A e \in E \cup Chosen(con, sel) : Forward(tm, e)
  BY <1>1, <1>3, AcyclicForward
<1>5. ASSUME NEW c \in con
      PROVE  (\A e \in c[1] : Forward(tm, e)) \/ (\A e \in c[2] : Forward(tm, e))
  <2>1. CASE c \in sel
    BY <1>4, <2>1 DEF Chosen
  <2>2. CASE c \notin sel
    BY <1>4, <2>2 DEF Chosen
  <2> QED
    BY <2>1, <2>2
<1> QED
  BY <1>4, <1>5

-----------------------------------------------------------------------------
(* Forward edges order the writers of a key. *)

LEMMA Times ==
  ASSUME NEW tm \in Timings(NTxns)
  PROVE  /\ \A t \in 1..NTxns : /\ tm.commit[t] \in Int /\ tm.begin[t] \in Int
                                /\ tm.begin[t] < tm.commit[t]
         /\ \A t, u \in 1..NTxns : t # u => tm.commit[t] # tm.commit[u]
<1>1. /\ tm.commit \in [1..NTxns -> 1..NTxns] /\ tm.begin \in [1..NTxns -> 0..NTxns-1]
      /\ \A t \in 1..NTxns : tm.begin[t] < tm.commit[t]
      /\ \A t, u \in 1..NTxns : t # u => tm.commit[t] # tm.commit[u]
  BY DEF Timings, CommitOrders
<1>2. ASSUME NEW t \in 1..NTxns PROVE tm.commit[t] \in Int /\ tm.begin[t] \in Int
  <2>1. tm.commit[t] \in 1..NTxns
    BY <1>1
  <2>2. tm.begin[t] \in 0..NTxns-1
    BY <1>1
  <2> QED
    BY <2>1, <2>2, NTxnsAssumption
<1> QED
  BY <1>1, <1>2

LEMMA PrecedesFacts ==
  ASSUME NEW tm \in Timings(NTxns), NEW x \in 1..NTxns, NEW y \in 1..NTxns, Precedes(tm, x, y)
  PROVE  /\ tm.commit[x] < tm.commit[y]
         /\ ~Precedes(tm, y, x)
         /\ \A z \in 1..NTxns : Precedes(tm, y, z) => Precedes(tm, x, z)
<1>1. /\ tm.commit[x] \in Int /\ tm.begin[x] \in Int /\ tm.begin[x] < tm.commit[x]
      /\ tm.commit[y] \in Int /\ tm.begin[y] \in Int /\ tm.begin[y] < tm.commit[y]
  BY Times
<1>2. ASSUME NEW z \in 1..NTxns, Precedes(tm, y, z) PROVE Precedes(tm, x, z)
  <2>1. tm.begin[z] \in Int
    BY Times
  <2> QED
    BY <1>1, <1>2, <2>1 DEF Precedes
<1> QED
  BY <1>1, <1>2 DEF Precedes

\* Transactions in a row each of which precedes the next.
LEMMA PrecedesAlong ==
  ASSUME NEW tm \in Timings(NTxns), NEW s, NEW n \in Nat, \A l \in 1..n : s[l] \in 1..NTxns,
         \A l \in 1..n-1 : Precedes(tm, s[l], s[l+1]), NEW i \in 1..n, NEW j \in 1..n, i < j
  PROVE  Precedes(tm, s[i], s[j])
<1> DEFINE X == {l \in i+1..n : ~Precedes(tm, s[i], s[l])}
<1>1. X = {}
  <2> SUFFICES ASSUME X # {} PROVE FALSE
    OBVIOUS
  <2>1. X \in SUBSET Nat
    OBVIOUS
  <2>2. PICK l \in X : \A y \in X : l <= y
    BY <2>1, LeastNat
  <2> DEFINE o == l - 1
  <2>3. o + 1 = l /\ o \in 1..n-1 /\ o \in i..n /\ ~(l <= o)
    BY <2>2
  <2> HIDE DEF o
  <2>4. Precedes(tm, s[o], s[l])
    BY <2>3
  <2>5. CASE o = i
    BY <2>2, <2>4, <2>5
  <2>6. CASE o # i
    <3>1. o \notin X /\ o \in i+1..n
      BY <2>2, <2>3, <2>6
    <3>2. Precedes(tm, s[i], s[o])
      BY <3>1
    <3>3. o \in 1..n /\ l \in 1..n
      BY <2>2, <2>3
    <3>4. s[i] \in 1..NTxns /\ s[o] \in 1..NTxns /\ s[l] \in 1..NTxns
      BY <3>3
    <3>5. Precedes(tm, s[i], s[l])
      BY <2>4, <3>2, <3>4, PrecedesFacts
    <3> QED
      BY <2>2, <3>5
  <2> QED
    BY <2>5, <2>6
<1>2. j \in i+1..n
  OBVIOUS
<1> QED
  BY <1>1, <1>2

\* What every accepted polygraph says about the times: sessions and reads are
\* in order, and a query begins before what it missed commits.
ReadTimed(tm) ==
  /\ tm \in Timings(NTxns)
  /\ WellFormed(hist) /\ ReadsFine
  /\ \A e \in SessionEdges \cup ReadEdges : Forward(tm, e)
  /\ \A m \in MissedUpserts : m[1][1] # m[2][1] => tm.begin[m[1][1]] < tm.commit[m[2][1]]

\* The times also order the versions of each key, and put a reader before the
\* versions that follow the one it read.
Timed(tm) ==
  /\ ReadTimed(tm)
  /\ \A key : \A x, y \in k_writes_fn(hist, key) :
       x # y => Precedes(tm, x, y) \/ Precedes(tm, y, x)
  /\ \A f \in ReadFrom : \A x \in k_writes_fn(hist, f[1]) :
       (f[2] # 0 /\ Precedes(tm, f[2], x)) => tm.begin[f[3]] < tm.commit[x]

\* How the chain builder says so: the chains are complete and tm respects them.
ChainTimed(tm) ==
  /\ ReadTimed(tm)
  /\ Combining /\ wwpairs = {}
  /\ \A e \in InferredEdges : Forward(tm, e)
  /\ \A c, d \in chains :
       (c # d /\ c[1] = d[1])
         => \/ \A e \in gen_chain2chain_edges(c[2], d[2], c[1]) : Forward(tm, e)
            \/ \A e \in gen_chain2chain_edges(d[2], c[2], c[1]) : Forward(tm, e)

LEMMA TimedFacts ==
  ASSUME NEW tm, ReadTimed(tm)
  PROVE  /\ tm \in Timings(NTxns) /\ WellFormed(hist) /\ Ids(hist) = 1..NTxns /\ ReadsFine
         /\ \A key : \A x \in k_writes_fn(hist, key) : x \in 1..NTxns /\ x # 0
<1>1. tm \in Timings(NTxns) /\ WellFormed(hist) /\ ReadsFine
  BY DEF ReadTimed
<1>2. Ids(hist) = 1..NTxns
  BY <1>1, IdsFacts
<1>3. ASSUME NEW key, NEW x \in k_writes_fn(hist, key) PROVE x \in 1..NTxns /\ x # 0
  <2>1. x \in Ids(hist)
    BY WritersAreIds
  <2> QED
    BY <1>2, <2>1
<1> QED
  BY <1>1, <1>2, <1>3

LEMMA ChainTimedFacts ==
  ASSUME NEW tm, ChainTimed(tm)
  PROVE  /\ tm \in Timings(NTxns) /\ WellFormed(hist) /\ Ids(hist) = 1..NTxns
         /\ ReadsFine /\ readfrom = ReadFrom /\ NextVersions = Linked /\ NextVersions \subseteq ReadFrom
         /\ \A key : \A x \in k_writes_fn(hist, key) : x \in 1..NTxns /\ x # 0
<1>1. readfrom = ReadFrom /\ NextVersions = Linked
  BY DEF ChainTimed, Combining, ChainInv
<1>2. NextVersions \subseteq ReadFrom
  BY <1>1 DEF NextVersions
<1> QED
  BY <1>1, <1>2, TimedFacts DEF ChainTimed

\* The writer of a read commits before the reader begins.
LEMMA ReadForward ==
  ASSUME NEW tm, ReadTimed(tm), NEW f \in ReadFrom, f[2] # 0
  PROVE  f[2] \in 1..NTxns /\ f[3] \in 1..NTxns /\ Precedes(tm, f[2], f[3])
<1>1. f[2] \in Txn /\ f[3] \in Txn \ {0}
  BY TimedFacts, ReadFromTypes
<1>2. f[2] \in 1..NTxns /\ f[3] \in 1..NTxns
  BY <1>1, NTxnsAssumption DEF Txn
<1> PICK e : e = <<f[2], f[3], "wr">>
  OBVIOUS
<1>3. e \in ReadEdges
  BY DEF ReadEdges
<1>4. Forward(tm, e)
  BY <1>3 DEF ReadTimed
<1>5. e[1] = f[2] /\ e[2] = f[3] /\ e[3] = "wr"
  OBVIOUS
<1> QED
  BY <1>2, <1>4, <1>5 DEF Forward

\* A chain is in the order of time.
LEMMA ChainForward ==
  ASSUME NEW tm, ChainTimed(tm), NEW c \in chains, NEW i \in DOMAIN c[2], NEW j \in DOMAIN c[2], i < j
  PROVE  Precedes(tm, c[2][i], c[2][j])
<1>1. /\ Len(c[2]) \in Nat /\ DOMAIN c[2] = 1..Len(c[2])
      /\ \A l \in DOMAIN c[2] : c[2][l] \in k_writes_fn(hist, c[1])
  BY ChainEnds DEF ChainTimed
<1>2. \A l \in DOMAIN c[2] : c[2][l] \in 1..NTxns /\ c[2][l] # 0
  BY <1>1, ChainTimedFacts
<1>3. ASSUME NEW l \in 1..Len(c[2])-1 PROVE Precedes(tm, c[2][l], c[2][l+1])
  <2> PICK f : f = <<c[1], c[2][l], c[2][l+1]>>
    OBVIOUS
  <2>1. f \in Linked
    BY LinksFacts DEF Linked
  <2>2. f \in ReadFrom /\ ReadTimed(tm)
    BY <2>1, ChainTimedFacts DEF ChainTimed
  <2>3. f[2] = c[2][l] /\ f[3] = c[2][l+1] /\ l \in DOMAIN c[2]
    BY <1>1
  <2> QED
    BY <1>2, <2>2, <2>3, ReadForward
<1>4. tm \in Timings(NTxns)
  BY ChainTimedFacts
<1> QED
  BY <1>1, <1>2, <1>3, <1>4, PrecedesAlong

\* The transactions of a chain, and its ends.
LEMMA ChainTimes ==
  ASSUME NEW tm, ChainTimed(tm), NEW c \in chains, NEW i \in DOMAIN c[2]
  PROVE  /\ c[2][i] \in 1..NTxns /\ c[2][i] # 0
         /\ First(c[2]) \in 1..NTxns /\ Final(c[2]) \in 1..NTxns
         /\ c[2][i] = First(c[2]) \/ Precedes(tm, First(c[2]), c[2][i])
         /\ c[2][i] = Final(c[2]) \/ Precedes(tm, c[2][i], Final(c[2]))
<1>1. /\ Len(c[2]) \in Nat /\ DOMAIN c[2] = 1..Len(c[2])
      /\ 1 \in DOMAIN c[2] /\ Len(c[2]) \in DOMAIN c[2]
      /\ First(c[2]) = c[2][1] /\ Final(c[2]) = c[2][Len(c[2])]
      /\ \A l \in DOMAIN c[2] : c[2][l] \in k_writes_fn(hist, c[1])
  BY ChainEnds DEF ChainTimed
<1>2. \A l \in DOMAIN c[2] : c[2][l] \in 1..NTxns /\ c[2][l] # 0
  BY <1>1, ChainTimedFacts
<1>3. (i = 1 \/ 1 < i) /\ (i = Len(c[2]) \/ i < Len(c[2]))
  BY <1>1
<1>4. i = 1 \/ Precedes(tm, c[2][1], c[2][i])
  BY <1>1, <1>3, ChainForward
<1>5. i = Len(c[2]) \/ Precedes(tm, c[2][i], c[2][Len(c[2])])
  BY <1>1, <1>3, ChainForward
<1> QED
  BY <1>1, <1>2, <1>4, <1>5

\* If a constraint puts c before d, all of c comes before all of d.
LEMMA ChainAcross ==
  ASSUME NEW tm, ChainTimed(tm), NEW c \in chains, NEW d \in chains,
         \A e \in gen_chain2chain_edges(c[2], d[2], c[1]) : Forward(tm, e),
         NEW i \in DOMAIN c[2], NEW j \in DOMAIN d[2]
  PROVE  Precedes(tm, Final(c[2]), First(d[2])) /\ Precedes(tm, c[2][i], d[2][j])
<1> PICK x, y, a, b : x = c[2][i] /\ y = Final(c[2]) /\ a = First(d[2]) /\ b = d[2][j]
  OBVIOUS
<1>1. /\ x \in 1..NTxns /\ y \in 1..NTxns /\ a \in 1..NTxns /\ b \in 1..NTxns
      /\ x = y \/ Precedes(tm, x, y)
      /\ b = a \/ Precedes(tm, a, b)
  BY ChainTimes
<1>2. y # 0
  BY <1>1, NTxnsAssumption
<1> PICK e : e = <<y, a, "ww">>
  OBVIOUS
<1>3. e \in gen_chain2chain_edges(c[2], d[2], c[1])
  BY DEF gen_chain2chain_edges
<1>4. Forward(tm, e) /\ e[1] = y /\ e[2] = a /\ e[3] = "ww"
  BY <1>3
<1>5. Precedes(tm, y, a)
  BY <1>2, <1>4 DEF Forward
<1>6. tm \in Timings(NTxns)
  BY ChainTimedFacts
<1>7. Precedes(tm, x, a)
  BY <1>1, <1>5, <1>6, PrecedesFacts
<1>8. Precedes(tm, x, b)
  BY <1>1, <1>6, <1>7, PrecedesFacts
<1> QED
  BY <1>5, <1>8

\* Every writer of a key has a place in a chain.
LEMMA WriterPlace ==
  ASSUME NEW tm, ChainTimed(tm), NEW key, NEW x \in k_writes_fn(hist, key)
  PROVE  \E c \in chains : c[1] = key /\ \E i \in DOMAIN c[2] : c[2][i] = x
<1>1. PICK w \in ext_writes(hist) : w[1] = key /\ w[3] = x
  BY KWritesFacts
<1> QED
  BY <1>1 DEF ChainTimed, Combining, ChainInv, WritersInChains

LEMMA VersionsOrdered ==
  ASSUME NEW tm, ChainTimed(tm), NEW key,
         NEW x \in k_writes_fn(hist, key), NEW y \in k_writes_fn(hist, key), x # y
  PROVE  Precedes(tm, x, y) \/ Precedes(tm, y, x)
<1>1. PICK c \in chains : c[1] = key /\ \E i \in DOMAIN c[2] : c[2][i] = x
  BY WriterPlace
<1>2. PICK i \in DOMAIN c[2] : c[2][i] = x
  BY <1>1
<1>3. PICK d \in chains : d[1] = key /\ \E j \in DOMAIN d[2] : d[2][j] = y
  BY WriterPlace
<1>4. PICK j \in DOMAIN d[2] : d[2][j] = y
  BY <1>3
<1>5. CASE c = d
  <2>1. i \in Int /\ j \in Int /\ i # j
    BY <1>2, <1>4, <1>5, ChainEnds DEF ChainTimed
  <2>2. i < j \/ j < i
    BY <2>1
  <2> QED
    BY <1>2, <1>4, <1>5, <2>2, ChainForward
<1>6. CASE c # d
  <2>1. \/ \A e \in gen_chain2chain_edges(c[2], d[2], c[1]) : Forward(tm, e)
        \/ \A e \in gen_chain2chain_edges(d[2], c[2], c[1]) : Forward(tm, e)
    BY <1>1, <1>3, <1>6 DEF ChainTimed
  <2>2. c[1] = d[1]
    BY <1>1, <1>3
  <2> QED
    BY <1>2, <1>4, <2>1, <2>2, ChainAcross
<1> QED
  BY <1>5, <1>6

\* A reader begins before the next version of the chain commits.
LEMMA ReaderBeforeNext ==
  ASSUME NEW tm, ChainTimed(tm), NEW f \in ReadFrom, NEW c \in chains, f[1] = c[1],
         NEW i \in 1..Len(c[2])-1, f[2] = c[2][i]
  PROVE  tm.begin[f[3]] < tm.commit[c[2][i+1]]
<1>1. i + 1 \in DOMAIN c[2] /\ i \in DOMAIN c[2]
  BY ChainEnds DEF ChainTimed
<1> PICK y : y = c[2][i+1]
  OBVIOUS
<1>2. y \in 1..NTxns /\ f[2] # 0
  BY <1>1, ChainTimes
<1>3. f[3] \in 1..NTxns /\ tm \in Timings(NTxns) /\ readfrom = ReadFrom
  BY <1>2, ReadForward, ChainTimedFacts DEF ChainTimed
<1>4. CASE f[3] = y
  BY <1>3, <1>4, Times
<1>5. CASE f[3] # y
  <2> PICK e : e = <<f[3], y, "rw">>
    OBVIOUS
  <2>1. e \in InferredEdges
    <3> DEFINE Next(b, l) ==
          {<<g[3], b[2][l+1], "rw">> :
             g \in {g \in readfrom : g[1] = b[1] /\ g[2] = b[2][l] /\ g[3] # b[2][l+1]}}
    <3>1. e \in Next(c, i)
      BY <1>3, <1>5
    <3>2. InferredEdges = UNION {UNION {Next(b, l) : l \in 1..Len(b[2])-1} : b \in chains}
      BY DEF InferredEdges
    <3> HIDE DEF Next
    <3>3. e \in UNION {Next(c, l) : l \in 1..Len(c[2])-1}
      BY <3>1
    <3> QED
      BY <3>2, <3>3
  <2>2. Forward(tm, e)
    BY <2>1 DEF ChainTimed
  <2>3. e[1] = f[3] /\ e[2] = y /\ e[3] = "rw" /\ f[3] # 0
    BY <1>3, NTxnsAssumption
  <2> QED
    BY <2>2, <2>3 DEF Forward
<1> QED
  BY <1>4, <1>5

LEMMA ReadWriter ==
  ASSUME NEW f \in ReadFrom, f[2] # 0
  PROVE  f[2] \in k_writes_fn(hist, f[1])
<1>1. PICK r \in ext_reads(hist) : \E w :
             /\ f = <<r[1], w, r[3]>>
             /\ \/ w \in WritersOf(hist, r[1], r[2])
                \/ w = 0 /\ ReadsT0(r[1], r[2])
  BY ReadFromFacts
<1>2. f[1] = r[1] /\ f[2] \in WritersOf(hist, r[1], r[2])
  BY <1>1
<1> QED
  BY <1>2, WritersAreIds

\* A reader begins before any later version of the key commits.
LEMMA ReaderBeforeLaterVersion ==
  ASSUME NEW tm, ChainTimed(tm), NEW f \in ReadFrom, f[2] # 0,
         NEW x \in k_writes_fn(hist, f[1]), Precedes(tm, f[2], x)
  PROVE  tm.begin[f[3]] < tm.commit[x]
<1>0. tm \in Timings(NTxns) /\ readfrom = ReadFrom /\ f[2] \in 1..NTxns /\ f[3] \in 1..NTxns
      /\ x \in 1..NTxns
  BY ReadForward, ChainTimedFacts DEF ChainTimed
<1>a. f[2] \in k_writes_fn(hist, f[1])
  BY ReadWriter
<1>1. PICK c \in chains : c[1] = f[1] /\ \E i \in DOMAIN c[2] : c[2][i] = f[2]
  BY <1>a, WriterPlace
<1>2. PICK i \in DOMAIN c[2] : c[2][i] = f[2]
  BY <1>1
<1>3. PICK d \in chains : d[1] = f[1] /\ \E j \in DOMAIN d[2] : d[2][j] = x
  BY WriterPlace
<1>4. PICK j \in DOMAIN d[2] : d[2][j] = x
  BY <1>3
<1>b. Len(c[2]) \in Nat /\ DOMAIN c[2] = 1..Len(c[2]) /\ Final(c[2]) = c[2][Len(c[2])]
  BY ChainEnds DEF ChainTimed
<1>c. ~Precedes(tm, x, f[2])
  BY <1>0, PrecedesFacts
<1>5. ASSUME NEW y \in 1..NTxns, tm.begin[f[3]] < tm.commit[y], y = x \/ Precedes(tm, y, x)
      PROVE  tm.begin[f[3]] < tm.commit[x]
  <2>1. y = x \/ tm.commit[y] < tm.commit[x]
    BY <1>0, <1>5, PrecedesFacts
  <2>2. tm.begin[f[3]] \in Int /\ tm.commit[y] \in Int /\ tm.commit[x] \in Int
    BY <1>0, <1>5, Times
  <2> QED
    BY <1>5, <2>1, <2>2
<1>6. CASE c = d
  <2>1. i < j
    <3>1. i # j
      BY <1>0, <1>2, <1>4, <1>6, <1>c
    <3>2. ~(j < i)
      BY <1>2, <1>4, <1>6, <1>c, ChainForward
    <3> QED
      BY <1>6, <1>b, <3>1, <3>2
  <2>2. i \in 1..Len(c[2])-1 /\ i + 1 \in DOMAIN c[2] /\ (i + 1 = j \/ i + 1 < j)
    BY <1>6, <1>b, <2>1
  <2> PICK y : y = c[2][i+1]
    OBVIOUS
  <2>3. y \in 1..NTxns /\ tm.begin[f[3]] < tm.commit[y]
    BY <1>1, <1>2, <2>2, ChainTimes, ReaderBeforeNext
  <2>4. y = x \/ Precedes(tm, y, x)
    BY <1>4, <1>6, <2>2, ChainForward
  <2> QED
    BY <1>5, <2>3, <2>4
<1>7. CASE c # d
  <2>0. c[1] = d[1]
    BY <1>1, <1>3
  <2>1. ~(\A e \in gen_chain2chain_edges(d[2], c[2], d[1]) : Forward(tm, e))
    BY <1>2, <1>4, <1>c, ChainAcross
  <2>2. \A e \in gen_chain2chain_edges(c[2], d[2], c[1]) : Forward(tm, e)
    BY <1>7, <2>0, <2>1 DEF ChainTimed
  <2>3. CASE i = Len(c[2])
    <3> PICK y, e : y = First(d[2]) /\ e = <<f[3], y, "rw">>
      OBVIOUS
    <3>1. e \in gen_chain2chain_edges(c[2], d[2], c[1])
      BY <1>0, <1>1, <1>2, <1>b, <2>3 DEF gen_chain2chain_edges
    <3>2. Forward(tm, e) /\ e[1] = f[3] /\ e[2] = y /\ e[3] = "rw" /\ f[3] # 0
      BY <1>0, <2>2, <3>1, NTxnsAssumption
    <3>3. tm.begin[f[3]] < tm.commit[y]
      BY <3>2 DEF Forward
    <3>4. y \in 1..NTxns /\ (y = x \/ Precedes(tm, y, x))
      BY <1>4, ChainTimes
    <3> QED
      BY <1>5, <3>3, <3>4
  <2>4. CASE i # Len(c[2])
    <3>1. i \in 1..Len(c[2])-1 /\ i + 1 \in DOMAIN c[2]
      BY <1>b, <2>4
    <3> PICK y : y = c[2][i+1]
      OBVIOUS
    <3>2. y \in 1..NTxns /\ tm.begin[f[3]] < tm.commit[y]
      BY <1>1, <1>2, <3>1, ChainTimes, ReaderBeforeNext
    <3>3. Precedes(tm, y, x)
      BY <1>4, <2>2, <3>1, ChainAcross
    <3> QED
      BY <1>5, <3>2, <3>3
  <2> QED
    BY <2>3, <2>4
<1> QED
  BY <1>6, <1>7

LEMMA ChainTimedIsTimed ==
  ASSUME NEW tm, ChainTimed(tm)
  PROVE  Timed(tm)
<1>1. ReadTimed(tm)
  BY DEF ChainTimed
<1>2. \A key : \A x, y \in k_writes_fn(hist, key) :
        x # y => Precedes(tm, x, y) \/ Precedes(tm, y, x)
  BY VersionsOrdered
<1>3. \A f \in ReadFrom : \A x \in k_writes_fn(hist, f[1]) :
        (f[2] # 0 /\ Precedes(tm, f[2], x)) => tm.begin[f[3]] < tm.commit[x]
  BY ReaderBeforeLaterVersion
<1> QED
  BY <1>1, <1>2, <1>3 DEF Timed

-----------------------------------------------------------------------------
(* Each reader's snapshot has the version that the builder says it read. *)

\* Who writes a key writes it a last time.
LEMMA LastWriteExists ==
  ASSUME NEW h, WellFormed(h), NEW t \in Ids(h), NEW key, key \in WrittenKeys(h.txns[t])
  PROVE  \E i \in DOMAIN h.txns[t] :
           /\ Writes(h.txns[t][i], key)
           /\ \A l \in DOMAIN h.txns[t] : l > i => ~Writes(h.txns[t][l], key)
<1> PICK txn : txn = h.txns[t]
  OBVIOUS
<1>1. Len(txn) \in Nat /\ DOMAIN txn = 1..Len(txn)
  BY DEF WellFormed
<1> DEFINE W == {i \in DOMAIN txn : Writes(txn[i], key)}
<1>2. W \in SUBSET (0..Len(txn)) /\ W # {}
  BY <1>1, WrittenKeysFacts
<1>3. PICK i \in W : \A l \in W : l <= i
  BY <1>1, <1>2, GreatestNat
<1>4. \A l \in DOMAIN txn : l > i => ~Writes(txn[l], key)
  BY <1>1, <1>3
<1> QED
  BY <1>3, <1>4

LEMMA WrittenKeyWriter ==
  ASSUME NEW h, WellFormed(h), NEW t \in Ids(h), NEW key, key \in WrittenKeys(h.txns[t])
  PROVE  t \in k_writes_fn(h, key)
<1> PICK txn : txn = h.txns[t]
  OBVIOUS
<1>1. PICK i \in DOMAIN txn :
         Writes(txn[i], key) /\ \A l \in DOMAIN txn : l > i => ~Writes(txn[l], key)
  BY LastWriteExists
<1>2. IsWrite(txn[i]) /\ txn[i].succ /\ txn[i].k = key
  BY <1>1 DEF Writes
<1>3. <<key, txn[i].v>> \in ext_writes_fn(txn)
  BY <1>1, <1>2 DEF ext_writes_fn
<1>4. <<key, txn[i].v, t>> \in ext_writes(h)
  BY <1>3, ExtWritesFacts
<1> QED
  BY <1>4, KWritesFacts

\* The last visible writer is the one that SnapshotWriter chooses.
LEMMA SnapshotIs ==
  ASSUME NEW tm \in Timings(NTxns), NEW h, Ids(h) = 1..NTxns, NEW t, NEW key,
         NEW u \in Visible(h, tm, t, key),
         \A w \in Visible(h, tm, t, key) : tm.commit[w] <= tm.commit[u]
  PROVE  SnapshotWriter(h, tm, t, key) = u
<1> DEFINE V == Visible(h, tm, t, key)
           x == CHOOSE w \in V : \A y \in V : tm.commit[y] <= tm.commit[w]
<1>1. V \subseteq 1..NTxns
  BY DEF Visible
<1> HIDE DEF V
<1>2. u \in V /\ \A w \in V : tm.commit[w] <= tm.commit[u]
  BY DEF V
<1>3. x \in V /\ \A y \in V : tm.commit[y] <= tm.commit[x]
  BY <1>2, Zenon
<1>4. SnapshotWriter(h, tm, t, key) = x
  BY <1>2 DEF SnapshotWriter, V
<1> HIDE DEF x
<1>5. tm.commit[x] = tm.commit[u]
  <2>1. tm.commit[x] <= tm.commit[u] /\ tm.commit[u] <= tm.commit[x]
    BY <1>2, <1>3
  <2>2. tm.commit[x] \in Int /\ tm.commit[u] \in Int
    BY <1>1, <1>2, <1>3, Times
  <2> QED
    BY <2>1, <2>2
<1>6. x = u
  BY <1>1, <1>2, <1>3, <1>5, Times
<1> QED
  BY <1>4, <1>6

LEMMA ReaderSnapshot ==
  ASSUME NEW tm, Timed(tm), NEW f \in ReadFrom
  PROVE  f[3] \in 1..NTxns /\ SnapshotWriter(hist, tm, f[3], f[1]) = f[2]
<1>1. /\ tm \in Timings(NTxns) /\ WellFormed(hist) /\ Ids(hist) = 1..NTxns /\ ReadsFine
      /\ ReadTimed(tm)
  BY TimedFacts DEF Timed
<1>2. f[3] \in Txn \ {0} /\ f[2] \in Txn
  BY <1>1, ReadFromTypes
<1>3. f[3] \in 1..NTxns
  BY <1>2, NTxnsAssumption DEF Txn
<1> DEFINE V == Visible(hist, tm, f[3], f[1])
<1>4. ASSUME NEW w \in V
      PROVE  /\ w \in k_writes_fn(hist, f[1]) /\ w \in 1..NTxns
             /\ ~(tm.begin[f[3]] < tm.commit[w])
  <2>1. w \in Ids(hist) /\ f[1] \in WrittenKeys(hist.txns[w]) /\ tm.commit[w] <= tm.begin[f[3]]
    BY DEF Visible
  <2>2. w \in k_writes_fn(hist, f[1])
    BY <1>1, <2>1, WrittenKeyWriter
  <2>3. tm.commit[w] \in Int /\ tm.begin[f[3]] \in Int
    BY <1>1, <1>3, <2>1, Times
  <2> QED
    BY <1>1, <2>1, <2>2, <2>3
<1>5. CASE f[2] # 0
  <2>1. f[2] \in k_writes_fn(hist, f[1]) /\ f[2] \in 1..NTxns /\ Precedes(tm, f[2], f[3])
    BY <1>1, <1>5, ReadWriter, ReadForward
  <2>2. f[2] \in V
    BY <1>1, <2>1, WritersWrite DEF Visible, Precedes
  <2>3. ASSUME NEW w \in V PROVE tm.commit[w] <= tm.commit[f[2]]
    <3>1. w = f[2] \/ Precedes(tm, w, f[2]) \/ Precedes(tm, f[2], w)
      BY <1>4, <2>1 DEF Timed
    <3>2. ~Precedes(tm, f[2], w)
      BY <1>4, <1>5 DEF Timed
    <3>3. w = f[2] \/ tm.commit[w] < tm.commit[f[2]]
      BY <1>1, <1>4, <2>1, <3>1, <3>2, PrecedesFacts
    <3>4. tm.commit[w] \in Int /\ tm.commit[f[2]] \in Int
      BY <1>1, <1>4, <2>1, Times
    <3> QED
      BY <3>3, <3>4
  <2> QED
    BY <1>1, <1>3, <2>2, <2>3, SnapshotIs
<1>6. CASE f[2] = 0
  <2>1. PICK r \in ext_reads(hist) : \E w :
             /\ f = <<r[1], w, r[3]>>
             /\ \/ w \in WritersOf(hist, r[1], r[2])
                \/ w = 0 /\ ReadsT0(r[1], r[2])
    BY ReadFromFacts
  <2>2. f[1] = r[1] /\ f[3] = r[3] /\ (0 \in WritersOf(hist, r[1], r[2]) \/ ReadsT0(r[1], r[2]))
    BY <1>6, <2>1
  <2>3. ReadsT0(r[1], r[2])
    <3>1. 0 \notin k_writes_fn(hist, r[1])
      BY <1>1, TimedFacts
    <3> QED
      BY <2>2, <3>1, WritersAreIds
  <2>4. V = {}
    <3> SUFFICES ASSUME NEW w \in V PROVE FALSE
      OBVIOUS
    <3>1. /\ w \in k_writes_fn(hist, f[1]) /\ w \in 1..NTxns
          /\ ~(tm.begin[f[3]] < tm.commit[w])
      BY <1>4
    <3>2. CASE w = f[3]
      BY <1>1, <3>1, <3>2, Times
    <3>3. CASE w # f[3]
      <4> PICK e : e = <<f[3], w, "rw">>
        OBVIOUS
      <4>1. e \in T0ReaderEdges
        BY <2>2, <2>3, <3>1, <3>3 DEF T0ReaderEdges
      <4>2. Forward(tm, e)
        BY <4>1 DEF Timed, ReadTimed, ReadEdges
      <4>3. e[1] = f[3] /\ e[2] = w /\ e[3] = "rw" /\ f[3] # 0
        BY <1>3, NTxnsAssumption
      <4> QED
        BY <3>1, <4>2, <4>3 DEF Forward
    <3> QED
      BY <3>2, <3>3
  <2> QED
    BY <1>3, <1>6, <2>4 DEF SnapshotWriter
<1> QED
  BY <1>5, <1>6

\* Transactions that write a common key do not overlap.
LEMMA TimedNoConflict ==
  ASSUME NEW tm, Timed(tm)
  PROVE  NoConflict(hist, tm)
<1> SUFFICES ASSUME NEW t \in Ids(hist), NEW u \in Ids(hist), t # u,
                    NEW key, key \in WrittenKeys(hist.txns[t]), key \in WrittenKeys(hist.txns[u])
             PROVE  tm.commit[t] <= tm.begin[u] \/ tm.commit[u] <= tm.begin[t]
  BY DEF NoConflict
<1>1. t \in k_writes_fn(hist, key) /\ u \in k_writes_fn(hist, key)
  BY TimedFacts, WrittenKeyWriter DEF Timed
<1> QED
  BY <1>1 DEF Timed, Precedes

\* With strong sessions, the transactions of a session follow each other.
LEMMA SessionsForward ==
  ASSUME NEW tm \in Timings(NTxns), WellFormed(hist), StrongSession,
         \A e \in SessionEdges : Forward(tm, e)
  PROVE  SessionsOrdered(hist, tm)
<1> SUFFICES ASSUME NEW s \in hist.sessions, NEW i \in DOMAIN s, NEW j \in DOMAIN s, i < j
             PROVE  Precedes(tm, s[i], s[j])
  BY DEF SessionsOrdered, Precedes
<1>1. s \in Seq(1..NTxns)
  BY DEF WellFormed
<1>2. Len(s) \in Nat /\ DOMAIN s = 1..Len(s) /\ \A l \in DOMAIN s : s[l] \in 1..NTxns
  BY <1>1, LenProperties, ElementOfSeq
<1>3. ASSUME NEW l \in 1..Len(s)-1 PROVE Precedes(tm, s[l], s[l+1])
  <2> PICK p, e : p = <<s[l], s[l+1]>> /\ e = <<s[l], s[l+1], "cb">>
    OBVIOUS
  <2>1. p \in SessionPairs(hist)
    BY DEF SessionPairs
  <2>2. e \in SessionEdges
    BY <2>1 DEF SessionEdges
  <2>3. Forward(tm, e)
    BY <2>2
  <2>4. l \in DOMAIN s
    BY <1>2
  <2>5. s[l] \in 1..NTxns
    BY <1>2, <2>4
  <2>6. e[1] = s[l] /\ e[2] = s[l+1] /\ e[3] = "cb" /\ e[1] # 0
    BY <2>5
  <2> QED
    BY <2>3, <2>6 DEF Forward
<1> QED
  BY <1>2, <1>3, PrecedesAlong

LEMMA TimedSessions ==
  ASSUME NEW tm, Timed(tm), StrongSession
  PROVE  SessionsOrdered(hist, tm)
  BY SessionsForward DEF Timed, ReadTimed

-----------------------------------------------------------------------------
(* What the parser's checks say of the reads inside a transaction. *)

\* A transaction that check_INT accepts, of a transparent history.
Checked(h, t) ==
  /\ WellFormed(h) /\ Transparent(h) /\ t \in Ids(h)
  /\ ~INTError(h.txns[t]) /\ ~ParseAsserts(h.txns[t])

LEMMA CheckedFacts ==
  ASSUME NEW h, NEW t, Checked(h, t), NEW txn, txn = h.txns[t]
  PROVE  /\ Len(txn) \in Nat /\ DOMAIN txn = 1..Len(txn)
         /\ \A i \in DOMAIN txn : /\ txn[i].f # "append"
                                  /\ txn[i].f = "d" => txn[i].succ
         /\ \A i, j \in DOMAIN txn : \A p \in Observed(txn[j]) :
              (i < j /\ txn[i].f = "i") => txn[i].k # p[1]
         /\ \A i, j \in DOMAIN txn : \A p \in Observed(txn[i]) :
              (i < j /\ txn[j].f = "i") => p[1] # txn[j].k
         /\ \A i, j \in DOMAIN txn : (i < j /\ txn[j].f = "i") => ~Writes(txn[i], txn[j].k)
<1>1. Len(txn) \in Nat /\ DOMAIN txn = 1..Len(txn)
  BY DEF Checked, WellFormed
<1>2. ASSUME NEW i \in DOMAIN txn
      PROVE  txn[i].f # "append" /\ (txn[i].f = "d" => txn[i].succ)
  BY DEF Checked, Transparent, NoAppends, ParseAsserts
<1>3. ASSUME NEW i \in DOMAIN txn, NEW j \in DOMAIN txn, NEW p \in Observed(txn[j]),
             i < j, txn[i].f = "i"
      PROVE  txn[i].k # p[1]
  BY <1>3, KeysOfFacts DEF Checked, Transparent, InsertsUnobserved
<1>4. ASSUME NEW i \in DOMAIN txn, NEW j \in DOMAIN txn, i < j, txn[j].f = "i"
      PROVE  txn[j].k \notin KeysOf(Observed(txn[i])) /\ ~Writes(txn[i], txn[j].k)
  BY <1>4 DEF Checked, Transparent, InsertsFirst
<1>5. ASSUME NEW i \in DOMAIN txn, NEW j \in DOMAIN txn, NEW p \in Observed(txn[i]),
             i < j, txn[j].f = "i"
      PROVE  p[1] # txn[j].k
  BY <1>4, <1>5, KeysOfFacts
<1> QED
  BY <1>1, <1>2, <1>3, <1>4, <1>5

\* The keys of last_rw: after a write of it, or a read that is no insertion's.
LEMMA LastRwKeys ==
  ASSUME NEW h, NEW t, Checked(h, t), NEW txn, txn = h.txns[t], NEW i \in DOMAIN txn, NEW q
  PROVE  q \in LastRw(txn[i]) =>
           \/ Writes(txn[i], q[1]) /\ txn[i].v = q[2]
           \/ ~Writes(txn[i], q[1]) /\ q \in Observed(txn[i])
<1> SUFFICES ASSUME q \in LastRw(txn[i])
             PROVE  \/ Writes(txn[i], q[1]) /\ txn[i].v = q[2]
                    \/ ~Writes(txn[i], q[1]) /\ q \in Observed(txn[i])
  OBVIOUS
<1>1. CASE txn[i].f \in {"r", "range"}
  BY <1>1, LastRwFacts DEF Writes, IsWrite
<1>2. CASE txn[i].f = "d"
  <2>1. txn[i].succ /\ LastRw(txn[i]) = {<<txn[i].k, txn[i].v>>}
    BY <1>2, CheckedFacts, LastRwFacts
  <2> QED
    BY <1>2, <2>1 DEF Writes, IsWrite
<1>3. CASE txn[i].f = "w"
  <2>1. txn[i].succ /\ LastRw(txn[i]) = {<<txn[i].k, txn[i].v>>}
    BY <1>3, LastRwFacts
  <2> QED
    BY <1>3, <2>1 DEF Writes, IsWrite
<1>4. txn[i].f \in {"r", "range", "d", "w"}
  BY LastRwFacts
<1> QED
  BY <1>1, <1>2, <1>3, <1>4

\* A read of a key that the transaction accessed before agrees with the last
\* such access.
LEMMA LastAccess ==
  ASSUME NEW h, NEW t, Checked(h, t), NEW txn, txn = h.txns[t],
         NEW j \in DOMAIN txn, NEW p \in Observed(txn[j]), txn[j].f # "i",
         NEW i \in 1..j-1, NEW key, key = p[1], key \in KeysOf(LastRw(txn[i]))
  PROVE  \E l \in i..j-1 : /\ l \in DOMAIN txn
                           /\ \E q \in LastRw(txn[l]) : q[1] = key /\ q[2] = p[2]
<1>1. Len(txn) \in Nat /\ DOMAIN txn = 1..Len(txn) /\ j \in Nat
  BY CheckedFacts
<1> DEFINE L == {l \in 1..j-1 : key \in KeysOf(LastRw(txn[l]))}
<1>2. L \in SUBSET (0..j) /\ L # {} /\ i \in L
  BY <1>1
<1>3. PICK l \in L : \A y \in L : y <= l
  BY <1>1, <1>2, GreatestNat
<1>4. l \in i..j-1 /\ l \in DOMAIN txn /\ l \in 1..j-1
  BY <1>1, <1>2, <1>3
<1>5. \A o \in l+1..j-1 : key \notin KeysOf(LastRw(txn[o]))
  <2> SUFFICES ASSUME NEW o \in l+1..j-1, key \in KeysOf(LastRw(txn[o])) PROVE FALSE
    OBVIOUS
  <2>1. o \in L /\ ~(o <= l)
    BY <1>1, <1>4
  <2> QED
    BY <1>3, <2>1
<1>6. PICK q \in LastRw(txn[l]) : q[1] = key
  BY <1>3, KeysOfFacts
<1>7. ~DiffersFromLast(txn, j, key, p[2])
  BY DEF Checked, INTError, IntReads
<1>8. q[2] = p[2]
  BY <1>4, <1>5, <1>6, <1>7 DEF DiffersFromLast
<1> QED
  BY <1>4, <1>6, <1>8

\* A transaction that reads a key it has written sees its last write.
LEMMA OwnValue ==
  ASSUME NEW h, NEW t, Checked(h, t), NEW txn, txn = h.txns[t],
         NEW j \in DOMAIN txn, NEW p \in Observed(txn[j]), WritesBefore(txn, j, p[1]) # {}
  PROVE  LastWriteIs(txn, j, p[1], p[2])
<1>1. Len(txn) \in Nat /\ DOMAIN txn = 1..Len(txn)
  BY CheckedFacts
<1> DEFINE Wrong(o, q) == /\ q \in Observed(txn[o])
                          /\ WritesBefore(txn, o, q[1]) # {}
                          /\ ~LastWriteIs(txn, o, q[1], q[2])
           X == {o \in DOMAIN txn : \E q : Wrong(o, q)}
<1>2. X = {}
  <2> SUFFICES ASSUME X # {} PROVE FALSE
    OBVIOUS
  <2>1. X \in SUBSET Nat
    BY <1>1
  <2>2. PICK o \in X : \A y \in X : o <= y
    BY <2>1, LeastNat
  <2>3. PICK q : Wrong(o, q)
    BY <2>2
  <2> PICK key, val : key = q[1] /\ val = q[2]
    OBVIOUS
  <2>4. o \in DOMAIN txn /\ o \in Nat /\ q \in Observed(txn[o])
    BY <1>1, <2>2, <2>3
  <2> DEFINE W == WritesBefore(txn, o, key)
  <2>5. W # {} /\ ~LastWriteIs(txn, o, key, val)
    BY <2>3
  <2>6. W \in SUBSET (0..o) /\ \A l \in W : l \in 1..o-1 /\ l \in DOMAIN txn /\ Writes(txn[l], key)
    <3>1. o \in 1..Len(txn)
      BY <1>1, <2>4
    <3>2. ASSUME NEW l \in W PROVE l \in 1..o-1 /\ Writes(txn[l], key)
      BY DEF WritesBefore
    <3>3. \A l \in 1..o-1 : l \in 0..o /\ l \in DOMAIN txn
      BY <1>1, <3>1
    <3> HIDE DEF W
    <3> QED
      BY <3>2, <3>3
  <2>a. \A l \in 1..o-1 : Writes(txn[l], key) => l \in W
    BY DEF WritesBefore
  <2>w. \A l \in W : txn[l].v = val => \E y \in W : l < y
    BY <2>4, <2>5, <2>6 DEF LastWriteIs
  <2> HIDE DEF W
  <2>7. PICK i \in W : \A l \in W : l <= i
    BY <2>4, <2>5, <2>6, GreatestNat
  <2>8. i \in 1..o-1 /\ i \in DOMAIN txn /\ i < o /\ Writes(txn[i], key)
    BY <2>4, <2>6, <2>7
  <2>9. txn[i].v # val
    BY <2>6, <2>7, <2>w, <2>4
  <2>10. txn[o].f # "i"
    <3> SUFFICES ASSUME txn[o].f = "i" PROVE FALSE
      OBVIOUS
    <3>1. q = <<txn[o].k, txn[o].rv>>
      BY <2>4, ObservedFacts
    <3>2. key = txn[o].k
      BY <3>1
    <3> QED
      BY <2>4, <2>8, <3>2, CheckedFacts
  <2>11. key \in KeysOf(LastRw(txn[i]))
    <3>1. txn[i].f \in {"w", "d"} /\ txn[i].succ /\ txn[i].k = key
      <4>1. IsWrite(txn[i]) /\ txn[i].succ /\ txn[i].k = key
        BY <2>8 DEF Writes
      <4>2. txn[i].f # "i"
        BY <2>4, <2>8, <4>1, CheckedFacts
      <4> QED
        BY <4>1, <4>2 DEF IsWrite
    <3>2. <<key, txn[i].v>> \in LastRw(txn[i])
      BY <3>1, LastRwFacts
    <3> QED
      BY <3>2, KeysOfFacts
  <2>12. PICK l \in i..o-1 : /\ l \in DOMAIN txn
                             /\ \E b \in LastRw(txn[l]) : b[1] = key /\ b[2] = val
    BY <2>4, <2>8, <2>10, <2>11, LastAccess
  <2>13. PICK b \in LastRw(txn[l]) : b[1] = key /\ b[2] = val
    BY <2>12
  <2>14. l \in 1..o-1 /\ i <= l /\ l < o /\ l \in Nat
    BY <2>4, <2>8, <2>12
  <2>15. CASE Writes(txn[l], key)
    <3>1. l \in W
      BY <2>14, <2>15, <2>a
    <3>2. l = i
      BY <2>7, <2>8, <2>14, <3>1
    <3>3. txn[l].v = val
      BY <2>12, <2>13, <2>15, LastRwKeys
    <3> QED
      BY <2>9, <3>2, <3>3
  <2>16. CASE ~Writes(txn[l], key)
    <3>1. b \in Observed(txn[l])
      BY <2>12, <2>13, <2>16, LastRwKeys
    <3>2. i \in 1..l-1
      <4>1. i # l
        BY <2>8, <2>16
      <4> QED
        BY <2>8, <2>14, <4>1
    <3>3. WritesBefore(txn, l, key) # {}
      BY <2>8, <3>2 DEF WritesBefore
    <3>4. l \notin X
      BY <2>2, <2>4, <2>14
    <3>5. LastWriteIs(txn, l, key, val)
      BY <2>12, <2>13, <3>1, <3>3, <3>4
    <3>6. PICK y \in WritesBefore(txn, l, key) :
            txn[y].v = val /\ \A z \in WritesBefore(txn, l, key) : z <= y
      BY <3>5 DEF LastWriteIs
    <3>7. i <= y
      BY <2>8, <3>2, <3>6 DEF WritesBefore
    <3>8. y \in 1..l-1 /\ Writes(txn[y], key)
      BY DEF WritesBefore
    <3>9. y \in 1..o-1
      BY <2>4, <2>14, <3>8
    <3>10. y <= i
      BY <2>7, <2>a, <3>8, <3>9
    <3>11. y = i
      BY <2>8, <2>14, <3>7, <3>8, <3>10
    <3> QED
      BY <2>9, <3>6, <3>11
  <2> QED
    BY <2>15, <2>16
<1> HIDE DEF X
<1>3. ~Wrong(j, p)
  BY <1>2 DEF X
<1> QED
  BY <1>3

\* A read of a key the transaction has not written is one of its external
\* reads, or agrees with it.
LEMMA OutsideValue ==
  ASSUME NEW h, NEW t, Checked(h, t), NEW txn, txn = h.txns[t],
         NEW j \in DOMAIN txn, NEW p \in Observed(txn[j]), WritesBefore(txn, j, p[1]) = {}
  PROVE  <<p[1], p[2], t>> \in ext_reads(h)
<1>1. Len(txn) \in Nat /\ DOMAIN txn = 1..Len(txn)
  BY CheckedFacts
<1> DEFINE Wrong(o, q) == /\ q \in Observed(txn[o])
                          /\ WritesBefore(txn, o, q[1]) = {}
                          /\ ~\E e \in ext_reads_fn(txn) : e[1] = q[1] /\ e[2] = q[2]
           X == {o \in DOMAIN txn : \E q : Wrong(o, q)}
<1>2. X = {}
  <2> SUFFICES ASSUME X # {} PROVE FALSE
    OBVIOUS
  <2>1. X \in SUBSET Nat
    BY <1>1
  <2>2. PICK o \in X : \A y \in X : o <= y
    BY <2>1, LeastNat
  <2>3. PICK q : Wrong(o, q)
    BY <2>2
  <2> PICK key, val : key = q[1] /\ val = q[2]
    OBVIOUS
  <2>4. o \in DOMAIN txn /\ o \in Nat /\ q \in Observed(txn[o])
    BY <1>1, <2>2, <2>3
  <2>5. /\ WritesBefore(txn, o, key) = {}
        /\ ~\E e \in ext_reads_fn(txn) : e[1] = key /\ e[2] = val
    BY <2>3
  <2>6. \A l \in 1..o-1 : l \in DOMAIN txn /\ l < o /\ ~Writes(txn[l], key)
    BY <1>1, <2>4, <2>5 DEF WritesBefore
  <2>7. q \notin ext_reads_fn(txn)
    BY <2>5
  <2>8. PICK i \in 1..o-1 : key \in Ignored(txn[i])
    BY <2>4, <2>7 DEF ext_reads_fn
  <2>9. PICK b \in Observed(txn[i]) : b[1] = key
    <3>1. txn[i].f # "append" /\ ~(txn[i].f = "w" /\ txn[i].succ /\ txn[i].k = key)
      BY <2>6, CheckedFacts DEF Writes, IsWrite
    <3>2. key \in KeysOf(Observed(txn[i]))
      BY <2>8, <3>1 DEF Ignored
    <3> QED
      BY <3>2, KeysOfFacts
  <2>10. txn[o].f # "i"
    <3> SUFFICES ASSUME txn[o].f = "i" PROVE FALSE
      OBVIOUS
    <3>1. q = <<txn[o].k, txn[o].rv>>
      BY <2>4, ObservedFacts
    <3>2. key = txn[o].k
      BY <3>1
    <3>3. i \in DOMAIN txn /\ i < o
      BY <2>6
    <3> QED
      BY <2>4, <2>9, <3>2, <3>3, CheckedFacts
  <2>11. key \in KeysOf(LastRw(txn[i]))
    <3>1. i \in DOMAIN txn /\ i < o
      BY <2>6
    <3>2. txn[i].f \notin {"i", "d"}
      <4> SUFFICES ASSUME txn[i].f \in {"i", "d"} PROVE FALSE
        OBVIOUS
      <4>1. b = <<txn[i].k, txn[i].rv>>
        BY <2>9, ObservedFacts
      <4>2. txn[i].k = key
        BY <2>9, <4>1
      <4>3. txn[i].f # "i"
        BY <2>4, <3>1, <4>2, CheckedFacts
      <4>4. txn[i].f = "d" /\ txn[i].succ
        BY <3>1, <4>3, CheckedFacts
      <4> QED
        BY <2>6, <4>2, <4>4 DEF Writes, IsWrite
    <3>3. txn[i].f \in {"r", "range"}
      BY <2>9, <3>2, ObservedFacts
    <3>4. b \in LastRw(txn[i])
      BY <2>9, <3>3, LastRwFacts
    <3> QED
      BY <2>9, <3>4, KeysOfFacts
  <2>12. PICK l \in i..o-1 : /\ l \in DOMAIN txn
                             /\ \E c \in LastRw(txn[l]) : c[1] = key /\ c[2] = val
    BY <2>4, <2>8, <2>10, <2>11, LastAccess
  <2>13. PICK c \in LastRw(txn[l]) : c[1] = key /\ c[2] = val
    BY <2>12
  <2>14. l \in 1..o-1 /\ l < o /\ l \in Nat
    BY <2>4, <2>8, <2>12
  <2>15. c \in Observed(txn[l])
    BY <2>6, <2>12, <2>13, <2>14, LastRwKeys
  <2>16. WritesBefore(txn, l, key) = {}
    <3>1. \A y \in 1..l-1 : y \in 1..o-1
      BY <2>4, <2>14
    <3> QED
      BY <2>6, <3>1 DEF WritesBefore
  <2>17. l \notin X
    BY <2>2, <2>4, <2>14
  <2> QED
    BY <2>5, <2>12, <2>13, <2>15, <2>16, <2>17
<1> HIDE DEF X
<1>3. ~Wrong(j, p)
  BY <1>2 DEF X
<1>4. PICK e \in ext_reads_fn(txn) : e[1] = p[1] /\ e[2] = p[2]
  BY <1>3
<1>5. t \in Ids(h)
  BY DEF Checked
<1> QED
  BY <1>4, <1>5, ExtReadsFacts

-----------------------------------------------------------------------------
(* Who wrote the values that the builder finds. *)

LEMMA WriterIsLast ==
  ASSUME NEW h, WellFormed(h), NEW key, NEW val, NEW u \in WritersOf(h, key, val)
  PROVE  u \in Ids(h) /\ LastWriteIs(h.txns[u], Len(h.txns[u]) + 1, key, val)
<1>1. PICK w \in ext_writes(h) : w[1] = key /\ w[2] = val /\ w[3] = u
  BY WritersOfFacts
<1>2. PICK t \in Ids(h) : \E p \in ext_writes_fn(h.txns[t]) : w = <<p[1], p[2], t>>
  BY <1>1, ExtWritesFacts
<1> PICK txn : txn = h.txns[t]
  OBVIOUS
<1>3. PICK p \in ext_writes_fn(txn) : w = <<p[1], p[2], t>>
  BY <1>2
<1>4. PICK j \in DOMAIN txn :
        /\ p = <<txn[j].k, txn[j].v>> /\ IsWrite(txn[j]) /\ txn[j].succ
        /\ \A i \in DOMAIN txn : i > j => ~Writes(txn[i], txn[j].k)
  BY DEF ext_writes_fn
<1>5. u = t /\ txn[j].k = key /\ txn[j].v = val
  BY <1>1, <1>3, <1>4
<1>6. Len(txn) \in Nat /\ DOMAIN txn = 1..Len(txn)
  BY DEF WellFormed
<1>7. j \in WritesBefore(txn, Len(txn) + 1, key)
  BY <1>4, <1>5, <1>6 DEF WritesBefore, Writes
<1>8. ASSUME NEW l \in WritesBefore(txn, Len(txn) + 1, key) PROVE l <= j
  <2>1. l \in 1..(Len(txn) + 1)-1 /\ Writes(txn[l], key)
    BY DEF WritesBefore
  <2>2. l \in DOMAIN txn /\ l \in Int /\ j \in Int
    BY <1>6, <2>1
  <2>3. ~(l > j)
    BY <1>4, <1>5, <2>1, <2>2
  <2> QED
    BY <2>2, <2>3
<1> QED
  BY <1>5, <1>7, <1>8 DEF LastWriteIs

-----------------------------------------------------------------------------
(* The initial state that explains the history. *)

\* The logged one, or the values that were read and that nobody wrote.
T0State(h) ==
  IF h.hasInit THEN h.init
  ELSE [key \in T0Keys(h) |->
          CHOOSE v : v # NULL_VALUE /\ \E p \in ReadFromT0(h) : p[1] = key /\ p[2] = v]

LEMMA ReadFromT0Facts ==
  ASSUME NEW h, NEW p
  PROVE  p \in ReadFromT0(h) <=>
           \E t \in Ids(h) : \E j \in DOMAIN h.txns[t] :
             /\ p \in Observed(h.txns[t][j])
             /\ WritesBefore(h.txns[t], j, p[1]) = {}
             /\ ~FinallyWritten(h, p[1], p[2])
<1> DEFINE At(t, j) == {q \in Observed(h.txns[t][j]) :
                          /\ WritesBefore(h.txns[t], j, q[1]) = {}
                          /\ ~FinallyWritten(h, q[1], q[2])}
<1>1. ReadFromT0(h) = UNION {UNION {At(t, j) : j \in DOMAIN h.txns[t]} : t \in Ids(h)}
  BY DEF ReadFromT0
<1>2. \A t, j : p \in At(t, j) <=> /\ p \in Observed(h.txns[t][j])
                                   /\ WritesBefore(h.txns[t], j, p[1]) = {}
                                   /\ ~FinallyWritten(h, p[1], p[2])
  OBVIOUS
<1> HIDE DEF At
<1>3. \A t : p \in UNION {At(t, j) : j \in DOMAIN h.txns[t]}
               <=> \E j \in DOMAIN h.txns[t] : p \in At(t, j)
  OBVIOUS
<1>4. p \in ReadFromT0(h) <=> \E t \in Ids(h) : p \in UNION {At(t, j) : j \in DOMAIN h.txns[t]}
  BY <1>1
<1> QED
  BY <1>2, <1>3, <1>4

LEMMA AllObservedFacts ==
  ASSUME NEW h, NEW t \in Ids(h), NEW j \in DOMAIN h.txns[t], NEW p \in Observed(h.txns[t][j])
  PROVE  p \in AllObserved(h)
<1> DEFINE Of(u) == UNION {Observed(h.txns[u][i]) : i \in DOMAIN h.txns[u]}
<1>1. p \in Of(t)
  OBVIOUS
<1>2. AllObserved(h) = UNION {Of(u) : u \in Ids(h)}
  BY DEF AllObserved
<1> HIDE DEF Of
<1> QED
  BY <1>1, <1>2

\* Observations are pairs.
LEMMA ObservedPair ==
  ASSUME NEW h, WellFormed(h), NEW t \in Ids(h), NEW j \in DOMAIN h.txns[t],
         NEW p \in Observed(h.txns[t][j])
  PROVE  p = <<p[1], p[2]>>
<1> PICK m : m = h.txns[t][j]
  OBVIOUS
<1>1. CASE m.f = "range"
  <2>1. p \in RangeItems(m)
    BY <1>1, ObservedFacts
  <2> QED
    BY <1>1, <2>1 DEF WellFormed
<1>2. CASE m.f = "r"
  <2>1. p = <<m.k, m.v>>
    BY <1>2, ObservedFacts
  <2> QED
    BY <2>1
<1>3. CASE m.f \in {"i", "d"}
  <2>1. p = <<m.k, m.rv>>
    BY <1>3, ObservedFacts
  <2> QED
    BY <2>1
<1>4. m.f \in {"r", "range", "i", "d"}
  BY ObservedFacts
<1> QED
  BY <1>1, <1>2, <1>3, <1>4

LEMMA T0StateFacts ==
  ASSUME NEW h, WellFormed(h), Transparent(h)
  PROVE  /\ T0State(h) \in InitialStates(h)
         /\ DOMAIN T0State(h) = T0Keys(h)
         /\ h.hasInit => T0State(h) = h.init
         /\ ~h.hasInit => \A p \in ReadFromT0(h) :
              IF p[1] \in T0Keys(h) THEN p[2] = T0State(h)[p[1]] ELSE p[2] = NULL_VALUE
<1>1. CASE h.hasInit
  BY <1>1 DEF T0State, InitialStates, T0Keys
<1>2. CASE ~h.hasInit
  <2> DEFINE Is(key, v) == v # NULL_VALUE /\ \E p \in ReadFromT0(h) : p[1] = key /\ p[2] = v
             init == [key \in T0Keys(h) |-> CHOOSE v : Is(key, v)]
  <2>1. T0State(h) = init
    BY <1>2 DEF T0State
  <2>2. \A key : key \in T0Keys(h) <=> \E p \in ReadFromT0(h) : p[1] = key /\ p[2] # NULL_VALUE
    BY <1>2 DEF T0Keys, KeysOf
  <2>3. \A key \in T0Keys(h) : Is(key, init[key])
    <3> SUFFICES ASSUME NEW key \in T0Keys(h) PROVE Is(key, CHOOSE v : Is(key, v))
      OBVIOUS
    <3>1. \E v : Is(key, v)
      BY <2>2
    <3> HIDE DEF Is
    <3> QED
      BY <3>1, Zenon
  <2>4. DOMAIN init = T0Keys(h)
    OBVIOUS
  <2> HIDE DEF init
  <2>5. \A p, q \in ReadFromT0(h) : p[1] = q[1] => /\ p[2] = q[2]
                                                   /\ p[2] # NULL_VALUE => ~SomeoneWrote(h, p[1], p[2])
    BY <1>2 DEF Transparent, InitialReadsSensible
  <2>6. ASSUME NEW p \in ReadFromT0(h)
        PROVE  IF p[1] \in T0Keys(h) THEN p[2] = init[p[1]] ELSE p[2] = NULL_VALUE
    <3>1. CASE p[1] \in T0Keys(h)
      <4>1. PICK q \in ReadFromT0(h) : q[1] = p[1] /\ q[2] = init[p[1]]
        BY <2>3, <3>1
      <4> QED
        BY <2>5, <3>1, <4>1
    <3>2. CASE p[1] \notin T0Keys(h)
      BY <2>2, <3>2
    <3> QED
      BY <3>1, <3>2
  <2>7. ASSUME NEW key \in T0Keys(h)
        PROVE  <<key, init[key]>> \in AllObserved(h) /\ ~SomeoneWrote(h, key, init[key])
    <3>1. PICK q \in ReadFromT0(h) : q[1] = key /\ q[2] = init[key]
      BY <2>3
    <3>2. init[key] # NULL_VALUE
      BY <2>3
    <3>3. PICK t \in Ids(h) : \E j \in DOMAIN h.txns[t] : q \in Observed(h.txns[t][j])
      BY <3>1, ReadFromT0Facts
    <3>4. PICK j \in DOMAIN h.txns[t] : q \in Observed(h.txns[t][j])
      BY <3>3
    <3>5. q \in AllObserved(h) /\ q = <<q[1], q[2]>>
      BY <3>4, AllObservedFacts, ObservedPair
    <3> QED
      BY <2>5, <3>1, <3>2, <3>5
  <2> DEFINE K == KeysOf(AllObserved(h))
             V == {p[2] : p \in AllObserved(h)}
  <2>8. ASSUME NEW key \in T0Keys(h) PROVE key \in K /\ init[key] \in V
    <3> PICK q : q = <<key, init[key]>>
      OBVIOUS
    <3>1. q \in AllObserved(h) /\ q[1] = key /\ q[2] = init[key]
      BY <2>7
    <3> QED
      BY <3>1, KeysOfFacts
  <2>9. init \in [T0Keys(h) -> V] /\ T0Keys(h) \in SUBSET K
    <3>1. init = [key \in T0Keys(h) |-> init[key]]
      BY DEF init
    <3> HIDE DEF K, V
    <3> QED
      BY <2>8, <3>1
  <2>10. init \in InitialStates(h)
    <3>1. InitialStates(h) = {i \in UNION {[S -> V] : S \in SUBSET K} :
              \A key \in DOMAIN i :
                <<key, i[key]>> \in AllObserved(h) /\ ~SomeoneWrote(h, key, i[key])}
      BY <1>2 DEF InitialStates
    <3> HIDE DEF K, V
    <3>2. init \in UNION {[S -> V] : S \in SUBSET K}
      BY <2>9
    <3> QED
      BY <2>4, <2>7, <3>1, <3>2
  <2> QED
    BY <1>2, <2>1, <2>4, <2>6, <2>10
<1> QED
  BY <1>1, <1>2

-----------------------------------------------------------------------------
(* Every observation has the value that the times give it. *)

LEMMA ObservedHasValue ==
  ASSUME NEW tm, Timed(tm), NEW t, Checked(hist, t), NEW j \in DOMAIN hist.txns[t],
         NEW p \in Observed(hist.txns[t][j])
  PROVE  HasValue(hist, tm, T0State(hist), t, j, p[1], p[2])
<1> PICK txn, key, val, init : /\ txn = hist.txns[t] /\ key = p[1] /\ val = p[2]
                               /\ init = T0State(hist)
  OBVIOUS
<1>1. CASE WritesBefore(txn, j, key) # {}
  <2>1. LastWriteIs(txn, j, key, val)
    BY <1>1, OwnValue
  <2> QED
    BY <1>1, <2>1 DEF HasValue
<1>2. CASE WritesBefore(txn, j, key) = {}
  <2> PICK r : r = <<key, val, t>>
    OBVIOUS
  <2>1. r \in ext_reads(hist)
    BY <1>2, OutsideValue
  <2>2. r[1] = key /\ r[2] = val /\ r[3] = t
    OBVIOUS
  <2>3. WellFormed(hist) /\ Transparent(hist) /\ ReadsFine /\ t \in Ids(hist) /\ t \in 1..NTxns
    BY TimedFacts DEF Timed, Checked
  <2> PICK u : u = SnapshotWriter(hist, tm, t, key)
    OBVIOUS
  <2>4. CASE WritersOf(hist, key, val) # {}
    <3>1. PICK w : w \in WritersOf(hist, key, val)
      BY <2>4
    <3> PICK f : f = <<key, w, t>>
      OBVIOUS
    <3>2. f \in ReadFrom
      BY <2>1, <2>2, <3>1, ReadFromFacts
    <3>3. u = w
      BY <3>2, ReaderSnapshot
    <3>4. w \in Ids(hist) /\ LastWriteIs(hist.txns[w], Len(hist.txns[w]) + 1, key, val)
      BY <2>3, <3>1, WriterIsLast
    <3>5. u # 0
      <4>1. Ids(hist) = 1..NTxns
        BY TimedFacts DEF Timed
      <4> QED
        BY <3>3, <3>4, <4>1
    <3> QED
      BY <1>2, <3>3, <3>4, <3>5 DEF HasValue
  <2>5. CASE WritersOf(hist, key, val) = {}
    <3>1. ~FinallyWritten(hist, key, val)
      BY <2>3, <2>5, LastWriteIsExternal DEF FinallyWritten
    <3>2. p \in ReadFromT0(hist)
      BY <1>2, <2>3, <3>1, ReadFromT0Facts
    <3>3. ReadsT0(key, val)
      <4>1. ~DirtyRead(key, val)
        BY <2>1, <2>2, <2>3 DEF ReadsFine
      <4>2. CASE val = NULL_VALUE /\ hist.hasInit
        <5>1. key \in DOMAIN hist.init /\ hist.init[key] = val
          BY <2>3, <3>2, <4>2 DEF Transparent, InitialReadsSensible
        <5> QED
          BY <2>5, <5>1 DEF ReadsT0
      <4> QED
        BY <2>5, <4>1, <4>2 DEF DirtyRead, ReadsT0
    <3> PICK f : f = <<key, 0, t>>
      OBVIOUS
    <3>4. f \in ReadFrom
      BY <2>1, <2>2, <3>3, ReadFromFacts
    <3>5. u = 0
      BY <3>4, ReaderSnapshot
    <3>6. IF key \in DOMAIN init THEN val = init[key] ELSE val = NULL_VALUE
      <4>1. CASE hist.hasInit
        BY <2>3, <3>3, <4>1, T0StateFacts DEF ReadsT0
      <4>2. CASE ~hist.hasInit
        BY <2>3, <3>2, <4>2, T0StateFacts
      <4> QED
        BY <4>1, <4>2
    <3> QED
      BY <1>2, <3>5, <3>6 DEF HasValue
  <2> QED
    BY <2>4, <2>5
<1> QED
  BY <1>1, <1>2

\* An upsert of a key that a query should have returned and did not is one of
\* the builder's missed upserts.
LEMMA UpsertIsMissed ==
  ASSUME WellFormed(hist), Transparent(hist), NEW t \in Ids(hist), NEW j \in DOMAIN hist.txns[t],
         NEW q, q = hist.txns[t][j], q.f = "range",
         NEW key, in_between(key, q.k1, q.k2), key \notin KeysOf(RangeItems(q)),
         NEW u \in Ids(hist), NEW i \in DOMAIN hist.txns[u], Writes(hist.txns[u][i], key)
  PROVE  /\ (u = t /\ i < j) => i - 1 <= t
         /\ <<<<t, j - 1>>, <<u, i - 1>>>> \in MissedUpserts
         /\ i \in Int /\ j \in Int
<1> PICK w : w = hist.txns[u][i]
  OBVIOUS
<1>1. IsWrite(w) /\ w.succ /\ w.k = key
  BY DEF Writes
<1>2. w.f = "w" /\ ((t = u /\ i < j) => i - 1 <= t)
  BY <1>1 DEF Transparent, QueriesSensible
<1>3. i \in Int /\ j \in Int
  BY DEF WellFormed
<1> PICK pos, ins : pos = <<t, j - 1>> /\ ins = <<u, i - 1>>
  OBVIOUS
<1>4. pos \in get_all_range_queries(hist)
  BY DEF get_all_range_queries
<1>5. ins \in k_upserts_fn(hist, key)
  BY <1>1, <1>2 DEF k_upserts_fn
<1>6. key \in all_keys(hist)
  BY <1>1 DEF all_keys
<1>7. MopAt(hist, pos) = q
  BY <1>3 DEF MopAt
<1>8. key \in other_keys(hist, pos)
  BY <1>6, <1>7 DEF other_keys
<1>9. ins \in UNION {k_upserts_fn(hist, k) : k \in other_keys(hist, pos)}
  BY <1>5, <1>8
<1>10. <<pos, ins>> \in MissedUpserts
  <2> DEFINE Of(x) == {<<x, y>> : y \in UNION {k_upserts_fn(hist, k) : k \in other_keys(hist, x)}}
  <2>1. <<pos, ins>> \in Of(pos)
    BY <1>9
  <2>2. MissedUpserts = UNION {Of(x) : x \in get_all_range_queries(hist)}
    BY DEF MissedUpserts
  <2> HIDE DEF Of
  <2> QED
    BY <1>4, <2>1, <2>2
<1> QED
  BY <1>2, <1>3, <1>10

\* A transaction has not written what its queries did not return.
OwnWritesSeen ==
  \A t \in Ids(hist) : \A j \in DOMAIN hist.txns[t] : \A key :
    LET q == hist.txns[t][j]
    IN  (/\ q.f = "range" /\ in_between(key, q.k1, q.k2)
         /\ key \notin KeysOf(RangeItems(q))) => WritesBefore(hist.txns[t], j, key) = {}

\* The chain builder's comparison of an id with an index is enough for that
\* in a transparent history.
LEMMA ChainOwnWrites ==
  ASSUME WellFormed(hist), Transparent(hist),
         \A m \in MissedUpserts : ~OwnUpsertMissed(m[1], m[2])
  PROVE  OwnWritesSeen
<1> SUFFICES ASSUME NEW t \in Ids(hist), NEW j \in DOMAIN hist.txns[t], NEW key,
                    NEW q, q = hist.txns[t][j], q.f = "range",
                    in_between(key, q.k1, q.k2), key \notin KeysOf(RangeItems(q)),
                    NEW i \in WritesBefore(hist.txns[t], j, key)
             PROVE  FALSE
  BY DEF OwnWritesSeen
<1>1. i \in 1..j-1 /\ Writes(hist.txns[t][i], key)
  BY DEF WritesBefore
<1>2. i \in DOMAIN hist.txns[t] /\ i < j
  BY <1>1 DEF WellFormed
<1> PICK m : m = <<<<t, j - 1>>, <<t, i - 1>>>>
  OBVIOUS
<1>3. i - 1 <= t /\ m \in MissedUpserts
  BY <1>1, <1>2, UpsertIsMissed
<1>4. ~OwnUpsertMissed(m[1], m[2])
  BY <1>3
<1>5. t \in Int /\ i \in Int
  <2>1. Ids(hist) = 1..NTxns
    BY IdsFacts
  <2> QED
    BY <1>1, <2>1
<1> QED
  BY <1>3, <1>4, <1>5 DEF OwnUpsertMissed

\* A query returns every key of its range that is there.
LEMMA QuerySeesAll ==
  ASSUME NEW tm, Timed(tm), NEW t, Checked(hist, t), OwnWritesSeen,
         NEW j \in DOMAIN hist.txns[t], hist.txns[t][j].f = "range"
  PROVE  SeesAllKeys(hist, tm, T0State(hist), t, j)
<1> PICK q : q = hist.txns[t][j]
  OBVIOUS
<1>1. /\ WellFormed(hist) /\ Transparent(hist) /\ t \in Ids(hist) /\ Ids(hist) = 1..NTxns
      /\ tm \in Timings(NTxns)
  BY TimedFacts DEF Timed, Checked
<1> SUFFICES ASSUME NEW key, in_between(key, q.k1, q.k2), key \notin KeysOf(RangeItems(q))
             PROVE  Absent(hist, tm, T0State(hist), t, j, key)
  BY DEF SeesAllKeys
<1>2. key \notin DOMAIN T0State(hist)
  <2>1. key \notin T0Keys(hist)
    BY <1>1 DEF Transparent, QueriesSensible
  <2> QED
    BY <1>1, <2>1, T0StateFacts
<1>3. WritesBefore(hist.txns[t], j, key) = {}
  BY <1>1 DEF OwnWritesSeen
<1>4. Visible(hist, tm, t, key) = {}
  <2> SUFFICES ASSUME NEW u \in Visible(hist, tm, t, key) PROVE FALSE
    OBVIOUS
  <2>1. u \in Ids(hist) /\ key \in WrittenKeys(hist.txns[u]) /\ tm.commit[u] <= tm.begin[t]
    BY DEF Visible
  <2>2. PICK i \in DOMAIN hist.txns[u] : Writes(hist.txns[u][i], key)
    BY <2>1, WrittenKeysFacts
  <2>3. /\ tm.commit[u] \in Int /\ tm.begin[t] \in Int /\ tm.commit[t] \in Int
        /\ tm.begin[t] < tm.commit[t]
    BY <1>1, <2>1, Times
  <2>4. u # t
    BY <2>1, <2>3
  <2> PICK m : m = <<<<t, j - 1>>, <<u, i - 1>>>>
    OBVIOUS
  <2>5. m \in MissedUpserts /\ m[1][1] = t /\ m[2][1] = u
    BY <1>1, <2>1, <2>2, UpsertIsMissed
  <2>6. tm.begin[t] < tm.commit[u]
    BY <2>4, <2>5 DEF Timed, ReadTimed
  <2> QED
    BY <2>1, <2>3, <2>6
<1> QED
  BY <1>2, <1>3, <1>4 DEF Absent, SnapshotWriter

LEMMA TimedIsSI ==
  ASSUME NEW tm, Timed(tm), Transparent(hist), OwnWritesSeen,
         \A t \in Ids(hist) : ~INTError(hist.txns[t]) /\ ~ParseAsserts(hist.txns[t])
  PROVE  IsSI(hist, StrongSession)
<1>1. WellFormed(hist) /\ tm \in Timings(NTxns) /\ Ids(hist) = 1..NTxns
  BY TimedFacts DEF Timed
<1>2. Cardinality(Ids(hist)) = NTxns
  BY <1>1, FS_Interval, NTxnsAssumption
<1>3. \A t \in Ids(hist) : Checked(hist, t)
  BY <1>1 DEF Checked
<1>4. T0State(hist) \in InitialStates(hist)
  BY <1>1, T0StateFacts
<1>5. ASSUME NEW t \in Ids(hist), NEW j \in DOMAIN hist.txns[t]
      PROVE  /\ \A p \in Observed(hist.txns[t][j]) :
                  HasValue(hist, tm, T0State(hist), t, j, p[1], p[2])
             /\ hist.txns[t][j].f = "range" => SeesAllKeys(hist, tm, T0State(hist), t, j)
  BY <1>3, ObservedHasValue, QuerySeesAll
<1>6. Explains(hist, tm, T0State(hist), StrongSession)
  BY <1>5, TimedNoConflict, TimedSessions DEF Explains
<1> QED
  BY <1>1, <1>2, <1>4, <1>6 DEF IsSI

-----------------------------------------------------------------------------
(* The polygraph has what the argument needs. *)

\* Each edge of new is in E, or add_edge dropped it for one that says the same.
Covers(E, new) == \A e \in new : e \in E \/ Shadowed(E, e)

LEMMA CoversForward ==
  ASSUME NEW tm, NEW E, \A e \in E : Forward(tm, e), NEW new, Covers(E, new), NEW e \in new
  PROVE  Forward(tm, e)
<1>1. CASE e \in E
  BY <1>1
<1>2. CASE Shadowed(E, e)
  <2>1. PICK t \in CbTypes : <<e[1], e[2], t>> \in E /\ e[3] \in CbTypes
    BY <1>2 DEF Shadowed
  <2> PICK g : g = <<e[1], e[2], t>>
    OBVIOUS
  <2>2. Forward(tm, g) /\ g[1] = e[1] /\ g[2] = e[2] /\ g[3] = t /\ t # "rw" /\ e[3] # "rw"
    BY <2>1 DEF CbTypes
  <2> QED
    BY <2>2 DEF Forward
<1> QED
  BY <1>1, <1>2 DEF Covers

LEMMA CoversAdd ==
  ASSUME NEW E, NEW new
  PROVE  /\ Covers(AddEdges(E, new), E)
         /\ Covers(AddEdges(E, new), new)
         /\ \A old : Covers(E, old) => Covers(AddEdges(E, new), old)
<1>1. \A e : e \in E => e \in AddEdges(E, new)
  BY DEF AddEdges
<1>2. \A e : Shadowed(E, e) => Shadowed(AddEdges(E, new), e)
  BY <1>1 DEF Shadowed
<1>3. \A e \in new : e \in AddEdges(E, new) \/ Shadowed(E, e)
  BY DEF AddEdges
<1> QED
  BY <1>1, <1>2, <1>3 DEF Covers

MissedEdges == {<<m[1][1], m[2][1], "rw">> : m \in {m \in MissedUpserts : m[1][1] # m[2][1]}}

ChainConstraints ==
  {<<gen_chain2chain_edges(p[1][2], p[2][2], p[1][1]),
     gen_chain2chain_edges(p[2][2], p[1][2], p[1][1])>> :
     p \in {p \in chains \X chains :
              p[1][1] = p[2][1] /\ First(p[1][2]) < First(p[2][2])}}

HasKnown == bpc \in {"reads", "ww", "range", "combine", "coalesce", "built"}

\* The builder has passed the loops before bpc without an exception, and its
\* edges and constraints are what these loops add.
BuiltSoFar ==
  /\ (bpc = "known" \/ HasKnown) =>
       \A t \in Ids(hist) : ~INTError(hist.txns[t]) /\ ~ParseAsserts(hist.txns[t])
  /\ HasKnown => Covers(edges, SessionEdges)
  /\ HasReads => Covers(edges, ReadEdges)
  /\ HasChains => /\ Covers(edges, MissedEdges)
                  /\ \A m \in MissedUpserts : ~OwnUpsertMissed(m[1], m[2])
  /\ bpc \in {"coalesce", "built"} => Covers(edges, InferredEdges)
  /\ bpc = "built" => conn = ChainConstraints

AInv ==
  /\ BInv
  /\ BuiltSoFar
  /\ verdict = "accept" => bpc = "built" /\ ~Unsat(edges, conn)

LEMMA BuiltInit == BInit => BuiltSoFar
  BY DEF BInit, BuiltSoFar, HasKnown, HasReads, HasChains

LEMMA BuiltStep ==
  ASSUME BInv, BuiltSoFar, BStep
  PROVE  BuiltSoFar'
<1> USE DEF HasKnown, HasReads, HasChains
<1>1. CASE INTReject \/ ParseCrash \/ IndexCrash \/ DirtyReadReject \/ ReadsCrash
           \/ DivergeReject \/ RangeReject \/ DuplicateCrash \/ CyclicReject
  <2>1. bpc' \in {"reject", "crash"}
    BY <1>1 DEF INTReject, ParseCrash, IndexCrash, DirtyReadReject, ReadsCrash,
       DivergeReject, RangeReject, DuplicateCrash, CyclicReject, Stop
  <2> QED
    BY <2>1 DEF BuiltSoFar
<1>2. CASE Parse
  BY <1>2 DEF Parse, Stop, BuiltSoFar
<1>3. CASE KnownStart
  <2>1. /\ bpc = "known" /\ bpc' = "reads" /\ hist' = hist
        /\ edges' = AddEdges(SessionEdges, {<<0, i, "cb">> : i \in Txn \ {0}})
    BY <1>3 DEF KnownStart
  <2>2. Covers(edges', SessionEdges)
    BY <2>1, CoversAdd
  <2>3. SessionEdges' = SessionEdges
    BY <2>1 DEF SessionEdges
  <2> QED
    BY <2>1, <2>2, <2>3 DEF BuiltSoFar, Covers
<1>4. CASE ReadLoop
  <2>1. bpc = "reads" /\ bpc' = "ww" /\ hist' = hist /\ edges' = AddEdges(edges, ReadEdges)
    BY <1>4 DEF ReadLoop
  <2>2. Covers(edges', ReadEdges) /\ Covers(edges', SessionEdges)
    BY <2>1, CoversAdd DEF BuiltSoFar
  <2>3. SessionEdges' = SessionEdges /\ ReadEdges' = ReadEdges
    BY <2>1 DEF SessionEdges, ReadEdges, ReadFrom, T0ReaderEdges, ReadsT0
  <2> QED
    BY <2>1, <2>2, <2>3 DEF BuiltSoFar, Covers
<1>5. CASE WWLoop
  <2>1. bpc = "ww" /\ bpc' = "range" /\ hist' = hist /\ edges' = edges
    BY <1>5 DEF WWLoop
  <2>2. SessionEdges' = SessionEdges /\ ReadEdges' = ReadEdges
    BY <2>1 DEF SessionEdges, ReadEdges, ReadFrom, T0ReaderEdges, ReadsT0
  <2> QED
    BY <2>1, <2>2 DEF BuiltSoFar, Covers
<1>6. CASE RangeLoop
  <2>1. /\ bpc = "range" /\ bpc' = "combine" /\ hist' = hist
        /\ edges' = AddEdges(edges, MissedEdges)
        /\ \A m \in MissedUpserts : ~OwnUpsertMissed(m[1], m[2])
    BY <1>6 DEF RangeLoop, MissedEdges
  <2>2. /\ Covers(edges', ReadEdges) /\ Covers(edges', SessionEdges)
        /\ Covers(edges', MissedEdges)
    BY <2>1, CoversAdd DEF BuiltSoFar
  <2>3. /\ SessionEdges' = SessionEdges /\ ReadEdges' = ReadEdges
        /\ MissedUpserts' = MissedUpserts /\ MissedEdges' = MissedEdges
    BY <2>1 DEF SessionEdges, ReadEdges, ReadFrom, T0ReaderEdges, ReadsT0,
       MissedUpserts, MissedEdges
  <2> QED
    BY <2>1, <2>2, <2>3 DEF BuiltSoFar, Covers, OwnUpsertMissed
<1>7. CASE CombineWrites
  <2>1. bpc = "combine" /\ bpc' = bpc /\ hist' = hist /\ edges' = edges
    BY <1>7 DEF CombineWrites
  <2>2. /\ SessionEdges' = SessionEdges /\ ReadEdges' = ReadEdges
        /\ MissedUpserts' = MissedUpserts /\ MissedEdges' = MissedEdges
    BY <2>1 DEF SessionEdges, ReadEdges, ReadFrom, T0ReaderEdges, ReadsT0,
       MissedUpserts, MissedEdges
  <2> QED
    BY <2>1, <2>2 DEF BuiltSoFar, Covers, OwnUpsertMissed
<1>8. CASE InferRWEdges
  <2>1. /\ bpc = "combine" /\ bpc' = "coalesce" /\ hist' = hist
        /\ readfrom' = readfrom /\ chains' = chains
        /\ edges' = AddEdges(edges, InferredEdges)
    BY <1>8 DEF InferRWEdges
  <2>2. /\ Covers(edges', ReadEdges) /\ Covers(edges', SessionEdges)
        /\ Covers(edges', MissedEdges) /\ Covers(edges', InferredEdges)
    BY <2>1, CoversAdd DEF BuiltSoFar
  <2>3. /\ SessionEdges' = SessionEdges /\ ReadEdges' = ReadEdges
        /\ MissedUpserts' = MissedUpserts /\ MissedEdges' = MissedEdges
        /\ InferredEdges' = InferredEdges
    BY <2>1 DEF SessionEdges, ReadEdges, ReadFrom, T0ReaderEdges, ReadsT0,
       MissedUpserts, MissedEdges, InferredEdges
  <2> QED
    BY <2>1, <2>2, <2>3 DEF BuiltSoFar, Covers, OwnUpsertMissed
<1>9. CASE Coalesce
  <2>1. /\ bpc = "coalesce" /\ bpc' = "built" /\ hist' = hist /\ edges' = edges
        /\ readfrom' = readfrom /\ chains' = chains /\ conn' = ChainConstraints
    BY <1>9 DEF Coalesce, ChainConstraints
  <2>2. /\ SessionEdges' = SessionEdges /\ ReadEdges' = ReadEdges
        /\ MissedUpserts' = MissedUpserts /\ MissedEdges' = MissedEdges
        /\ InferredEdges' = InferredEdges
    BY <2>1 DEF SessionEdges, ReadEdges, ReadFrom, T0ReaderEdges, ReadsT0,
       MissedUpserts, MissedEdges, InferredEdges
  <2>3. ChainConstraints' = ChainConstraints
    BY <2>1 DEF ChainConstraints, gen_chain2chain_edges
  <2> QED
    BY <2>1, <2>2, <2>3 DEF BuiltSoFar, Covers, OwnUpsertMissed
<1> QED
  BY <1>1, <1>2, <1>3, <1>4, <1>5, <1>6, <1>7, <1>8, <1>9 DEF BStep

LEMMA BuiltUnchanged ==
  ASSUME BuiltSoFar, UNCHANGED bvars
  PROVE  BuiltSoFar'
  BY DEF bvars, BuiltSoFar, HasKnown, HasReads, HasChains, Covers, SessionEdges, ReadEdges,
     ReadFrom, T0ReaderEdges, ReadsT0, MissedUpserts, MissedEdges, InferredEdges,
     OwnUpsertMissed, ChainConstraints, gen_chain2chain_edges

LEMMA AInitInv == VInit => AInv
  BY BInitInv, BuiltInit DEF VInit, AInv

LEMMA AStepInv == ASSUME AInv, [VNext]_vvars PROVE AInv'
<1>1. CASE Build
  <2>1. BStep /\ verdict' = verdict
    BY <1>1 DEF Build
  <2>2. BInv' /\ BuiltSoFar'
    BY <2>1, BStepInv, BuiltStep DEF AInv, BNext
  <2>3. bpc # "built"
    BY <2>1 DEF BStep, INTReject, ParseCrash, Parse, IndexCrash, KnownStart,
       DirtyReadReject, ReadsCrash, ReadLoop, DivergeReject, WWLoop, DuplicateCrash,
       RangeReject, RangeLoop, CombineWrites, CyclicReject, InferRWEdges, Coalesce
  <2> QED
    BY <2>1, <2>2, <2>3 DEF AInv
<1>2. CASE CatchReject
  <2>1. UNCHANGED bvars /\ verdict' = "reject"
    BY <1>2 DEF CatchReject
  <2> QED
    BY <2>1, BStepInv, BuiltUnchanged DEF AInv
<1>3. CASE RunChecker
  <2>1. bpc = "built" /\ UNCHANGED bvars /\ Direct!Check
    BY <1>3 DEF RunChecker
  <2>2. BInv' /\ BuiltSoFar'
    BY <2>1, BStepInv, BuiltUnchanged DEF AInv
  <2>3. verdict' = "accept" => ~Unsat(edges, conn)
    BY <2>1, DirectUnsat DEF Direct!Check, Direct!Accept, Direct!Reject
  <2>4. Unsat(edges, conn)' = Unsat(edges, conn) /\ bpc' = bpc
    BY <2>1 DEF bvars
  <2> QED
    BY <2>1, <2>2, <2>3, <2>4 DEF AInv
<1>4. CASE UNCHANGED vvars
  <2>1. UNCHANGED bvars /\ verdict' = verdict
    BY <1>4 DEF vvars
  <2>2. BInv' /\ BuiltSoFar'
    BY <2>1, BStepInv, BuiltUnchanged DEF AInv
  <2>3. Unsat(edges, conn)' = Unsat(edges, conn) /\ bpc' = bpc
    BY <2>1 DEF bvars
  <2> QED
    BY <2>1, <2>2, <2>3 DEF AInv
<1> QED
  BY <1>1, <1>2, <1>3, <1>4 DEF VNext, VStep

-----------------------------------------------------------------------------
(* The theorems. *)

\* In every state of main_algo3_5 the polygraph has the edges of the loops
\* that were run, and an accepted one is satisfiable.
THEOREM AInvariant == VSafety => []AInv
<1>1. AInv /\ [VNext]_vvars => AInv'
  BY AStepInv
<1> QED
  BY <1>1, AInitInv, PTL DEF VSafety

\* The assignment that the checker found gives times that respect the graph.
LEMMA AcceptedTimed ==
  ASSUME AInv, verdict = "accept"
  PROVE  \E tm : Timed(tm)
<1>1. bpc = "built" /\ ~Unsat(edges, conn) /\ BInv /\ BuiltSoFar
  BY DEF AInv
<1>2. /\ edges \subseteq ValidEdges /\ ValidConstraints(conn) /\ wwpairs = {}
  BY <1>1 DEF BInv, BTypeOK
<1>3. Combining
  BY <1>1 DEF BInv, Combining, HasReads, HasOrder, HasChains
<1>4. PICK tm \in Timings(NTxns) :
        /\ \A e \in edges : Forward(tm, e)
        /\ \A c \in conn : (\A e \in c[1] : Forward(tm, e)) \/ (\A e \in c[2] : Forward(tm, e))
  BY <1>1, <1>2, SatForward
<1>5. /\ Covers(edges, SessionEdges) /\ Covers(edges, ReadEdges)
      /\ Covers(edges, InferredEdges) /\ Covers(edges, MissedEdges)
      /\ conn = ChainConstraints
  BY <1>1 DEF BuiltSoFar, HasKnown, HasReads, HasChains
<1>6. /\ \A e \in SessionEdges \cup ReadEdges : Forward(tm, e)
      /\ \A e \in InferredEdges : Forward(tm, e)
  BY <1>4, <1>5, CoversForward
<1>7. ASSUME NEW m \in MissedUpserts, m[1][1] # m[2][1]
      PROVE  tm.begin[m[1][1]] < tm.commit[m[2][1]]
  <2> PICK e : e = <<m[1][1], m[2][1], "rw">>
    OBVIOUS
  <2>1. e \in MissedEdges
    BY <1>7 DEF MissedEdges
  <2>2. Forward(tm, e)
    BY <1>4, <1>5, <2>1, CoversForward
  <2>3. e[1] = m[1][1] /\ e[2] = m[2][1] /\ e[3] = "rw"
    OBVIOUS
  <2>4. e[1] # 0
    <3>1. m[1][1] \in Ids(hist)
      BY MissedUpsertsTypes
    <3> QED
      BY <1>3, <2>3, <3>1, IdsFacts DEF Combining
  <2> QED
    BY <2>2, <2>3, <2>4 DEF Forward
<1>8. ASSUME NEW c \in chains, NEW d \in chains, c # d, c[1] = d[1]
      PROVE  \/ \A e \in gen_chain2chain_edges(c[2], d[2], c[1]) : Forward(tm, e)
             \/ \A e \in gen_chain2chain_edges(d[2], c[2], c[1]) : Forward(tm, e)
  <2> PICK a, b : a = First(c[2]) /\ b = First(d[2])
    OBVIOUS
  <2>1. /\ 1 \in DOMAIN c[2] /\ a = c[2][1] /\ a \in k_writes_fn(hist, c[1])
        /\ 1 \in DOMAIN d[2] /\ b = d[2][1] /\ b \in k_writes_fn(hist, d[1])
    BY <1>3, ChainEnds
  <2>2. a # b
    BY <1>3, <1>8, <2>1, DistinctFacts DEF Combining, ChainInv, NoRepetition
  <2>3. a \in Ids(hist) /\ b \in Ids(hist) /\ Ids(hist) = 1..NTxns
    BY <1>3, <2>1, WritersAreIds, IdsFacts DEF Combining
  <2>4. a \in Int /\ b \in Int
    BY <2>3
  <2>5. a < b \/ b < a
    BY <2>2, <2>4
  <2> PICK C, D : /\ C = gen_chain2chain_edges(c[2], d[2], c[1])
                  /\ D = gen_chain2chain_edges(d[2], c[2], c[1])
    OBVIOUS
  <2>6. CASE a < b
    <3> PICK p : p = <<c, d>>
      OBVIOUS
    <3>1. p \in chains \X chains /\ p[1] = c /\ p[2] = d
      OBVIOUS
    <3>2. <<C, D>> \in ChainConstraints
      BY <1>8, <2>6, <3>1 DEF ChainConstraints
    <3> QED
      BY <1>4, <1>5, <3>2
  <2>7. CASE b < a
    <3> PICK p : p = <<d, c>>
      OBVIOUS
    <3>1. p \in chains \X chains /\ p[1] = d /\ p[2] = c
      OBVIOUS
    <3>2. <<D, C>> \in ChainConstraints
      BY <1>8, <2>7, <3>1 DEF ChainConstraints
    <3> QED
      BY <1>4, <1>5, <3>2
  <2> QED
    BY <2>5, <2>6, <2>7
<1>9. ReadTimed(tm)
  BY <1>3, <1>4, <1>6, <1>7 DEF Combining, ReadTimed
<1>10. ChainTimed(tm)
  BY <1>2, <1>3, <1>6, <1>8, <1>9 DEF ChainTimed
<1> QED
  BY <1>10, ChainTimedIsTimed

LEMMA AInvSound == AInv => (Transparent(hist) => AcceptedIsSI)
<1> SUFFICES ASSUME AInv, Transparent(hist), verdict = "accept"
             PROVE  IsSI(hist, StrongSession)
  BY DEF AcceptedIsSI
<1>1. PICK tm : Timed(tm)
  BY AcceptedTimed
<1>2. /\ \A t \in Ids(hist) : ~INTError(hist.txns[t]) /\ ~ParseAsserts(hist.txns[t])
      /\ \A m \in MissedUpserts : ~OwnUpsertMissed(m[1], m[2])
  BY DEF AInv, BuiltSoFar, HasKnown, HasChains
<1>3. OwnWritesSeen
  BY <1>2, ChainOwnWrites DEF AInv, BInv
<1> QED
  BY <1>1, <1>2, <1>3, TimedIsSI

(***************************************************************************)
(* Viper's acceptances are right: for any number of transactions and keys, *)
(* a transparent history that main_algo3_5 accepts is snapshot isolated,   *)
(* with strong sessions if they are asked for.                             *)
(***************************************************************************)
THEOREM AcceptanceTheorem == VSafety => [](Transparent(hist) => AcceptedIsSI)
  BY AInvSound, AInvariant, PTL
=============================================================================
