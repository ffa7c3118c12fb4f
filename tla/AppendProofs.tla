---------------------------- MODULE AppendProofs ----------------------------
(***************************************************************************)
(* Algorithm 8 neither rejects nor fails on a snapshot isolated history of *)
(* list appends, however many transactions and lists there are, and what   *)
(* it accepts is snapshot isolated where reads order the appends.          *)
(*                                                                         *)
(* Times that explain the lists order the transactions that append to a    *)
(* key.  Neighbours in a list that was read, and the last one in a list    *)
(* and its reader if that appends too, follow each other directly in this  *)
(* order.  So wwpairs never diverges, the chains are intervals of it, no   *)
(* pair misses its chains, and the edges point forward in time.            *)
(*                                                                         *)
(* The other way, an accepted polygraph gives times along which its edges  *)
(* point forward.  In them the elements of a list that was read are those  *)
(* appended before the read, in the order of the appends, and there is     *)
(* only one such list: the one of the snapshot.                            *)
(***************************************************************************)
EXTENDS AppendBuilder, ViperAcceptProofs

-----------------------------------------------------------------------------
(* Concatenations. *)

\* g holds the concatenations of the first members of seqs, up to the m-th.
IsFlatten(seqs, g, m) ==
  g = [i \in 1..m |-> IF i = 1 THEN seqs[i] ELSE g[i-1] \o seqs[i]]

LEMMA FlattenExists ==
  ASSUME NEW seqs, NEW n \in Nat
  PROVE  \E g : IsFlatten(seqs, g, n)
<1> DEFINE Bad == {m \in Nat : ~\E g : IsFlatten(seqs, g, m)}
<1>1. 0 \notin Bad
  <2> PICK g : g = [i \in 1..0 |-> seqs[i]]
    OBVIOUS
  <2>1. IsFlatten(seqs, g, 0)
    BY DEF IsFlatten
  <2> QED
    BY <2>1
<1>2. ASSUME NEW m \in Nat, m \notin Bad PROVE m + 1 \notin Bad
  <2>1. PICK g : IsFlatten(seqs, g, m)
    BY <1>2
  <2> PICK h : h = [i \in 1..m+1 |-> IF i = m + 1 THEN IF i = 1 THEN seqs[i] ELSE g[i-1] \o seqs[i]
                                                  ELSE g[i]]
    OBVIOUS
  <2>2. \A i \in 1..m : h[i] = g[i]
    OBVIOUS
  <2>3. ASSUME NEW i \in 1..m+1
        PROVE  h[i] = IF i = 1 THEN seqs[i] ELSE h[i-1] \o seqs[i]
    <3>1. CASE i = 1
      <4>1. CASE m = 0
        BY <3>1, <4>1
      <4>2. CASE m # 0
        <5>1. 1 \in 1..m
          BY <4>2
        <5>2. g[1] = seqs[1]
          BY <2>1, <5>1 DEF IsFlatten
        <5> QED
          BY <2>2, <3>1, <5>1, <5>2
      <4> QED
        BY <4>1, <4>2
    <3>2. CASE i # 1
      <4>1. i - 1 \in 1..m /\ h[i-1] = g[i-1]
        BY <2>2, <3>2
      <4>2. CASE i = m + 1
        BY <3>2, <4>1, <4>2
      <4>3. CASE i # m + 1
        <5>1. i \in 1..m
          BY <4>3
        <5>2. g[i] = g[i-1] \o seqs[i]
          BY <2>1, <3>2, <5>1 DEF IsFlatten
        <5> QED
          BY <2>2, <3>2, <4>1, <5>1, <5>2
      <4> QED
        BY <4>2, <4>3
    <3> QED
      BY <3>1, <3>2
  <2>4. IsFlatten(seqs, h, m + 1)
    <3>1. h = [i \in 1..m+1 |-> h[i]]
      OBVIOUS
    <3> QED
      BY <2>3, <3>1 DEF IsFlatten
  <2> QED
    BY <2>4
<1> HIDE DEF Bad
<1>3. Bad = {}
  <2> SUFFICES ASSUME Bad # {} PROVE FALSE
    OBVIOUS
  <2>1. Bad \in SUBSET Nat
    BY DEF Bad
  <2>2. PICK m \in Bad : \A y \in Bad : m <= y
    BY <2>1, LeastNat
  <2>3. m \in Nat /\ m # 0
    BY <1>1, <2>1
  <2>4. m - 1 \in Nat /\ ~(m <= m - 1) /\ (m - 1) + 1 = m
    BY <2>3
  <2>5. m - 1 \notin Bad
    BY <2>2, <2>4
  <2> QED
    BY <1>2, <2>4, <2>5
<1> QED
  BY <1>3 DEF Bad

LEMMA FlattenDef ==
  ASSUME NEW seqs, NEW n \in Nat, Len(seqs) = n, n # 0
  PROVE  \E g : IsFlatten(seqs, g, n) /\ FlattenSeq(seqs) = g[n]
<1> PICK g : g = CHOOSE f : f = [i \in 1..n |-> IF i = 1 THEN seqs[i] ELSE f[i-1] \o seqs[i]]
  OBVIOUS
<1>1. IsFlatten(seqs, g, n)
  BY FlattenExists DEF IsFlatten
<1>2. FlattenSeq(seqs) = g[n]
  BY DEF FlattenSeq
<1> QED
  BY <1>1, <1>2

\* The member of seqs that each place of the concatenation F of the first m
\* comes from: in their order, the elements of a member in theirs, and none is
\* left out.
IsSource(F, seqs, m, src) ==
  /\ IsSeq(F)
  /\ \A i \in 1..Len(F) : /\ src[i] \in 1..m
                          /\ \E l \in DOMAIN seqs[src[i]] : F[i] = seqs[src[i]][l]
  /\ \A i, j \in 1..Len(F) : i <= j => src[i] <= src[j]
  /\ \A i, j \in 1..Len(F) : (i < j /\ src[i] = src[j]) =>
       \E k, l \in DOMAIN seqs[src[i]] :
         k < l /\ F[i] = seqs[src[i]][k] /\ F[j] = seqs[src[i]][l]
  /\ \A c \in 1..m : \A l \in DOMAIN seqs[c] :
       \E i \in 1..Len(F) : src[i] = c /\ F[i] = seqs[c][l]

LEMMA SourceStart ==
  ASSUME NEW seqs, IsSeq(seqs[1])
  PROVE  \E src : IsSource(seqs[1], seqs, 1, src)
<1> PICK a, n : a = seqs[1] /\ n = Len(a)
  OBVIOUS
<1> PICK src : src = [i \in 1..n |-> 1]
  OBVIOUS
<1>1. n \in Nat /\ DOMAIN a = 1..n
  BY DEF IsSeq
<1>2. \A i \in 1..n : src[i] = 1 /\ src[i] \in 1..1
  OBVIOUS
<1>3. \A i \in 1..n : src[i] \in 1..1 /\ \E l \in DOMAIN seqs[src[i]] : a[i] = seqs[src[i]][l]
  BY <1>1, <1>2
<1>4. \A i, j \in 1..n : i <= j => src[i] <= src[j]
  BY <1>2
<1>5. \A c \in 1..1 : \A l \in DOMAIN seqs[c] : \E i \in 1..n : src[i] = c /\ a[i] = seqs[c][l]
  <2> TAKE c \in 1..1
  <2>1. c = 1 /\ seqs[c] = a
    OBVIOUS
  <2> QED
    BY <1>1, <1>2, <2>1
<1>6. IsSeq(a) /\ 1..Len(a) = 1..n
  OBVIOUS
<1>7. \A i, j \in 1..n : (i < j /\ src[i] = src[j]) =>
        \E k, l \in DOMAIN seqs[src[i]] :
          k < l /\ a[i] = seqs[src[i]][k] /\ a[j] = seqs[src[i]][l]
  BY <1>1, <1>2
<1>8. IsSource(a, seqs, 1, src)
  <2> DEFINE d == 1..n
  <2>1. \A i \in d : src[i] \in 1..1 /\ \E l \in DOMAIN seqs[src[i]] : a[i] = seqs[src[i]][l]
    BY <1>3
  <2>2. \A i, j \in d : i <= j => src[i] <= src[j]
    BY <1>4
  <2>3. \A i, j \in d : (i < j /\ src[i] = src[j]) =>
          \E k, l \in DOMAIN seqs[src[i]] :
            k < l /\ a[i] = seqs[src[i]][k] /\ a[j] = seqs[src[i]][l]
    BY <1>7
  <2>4. \A c \in 1..1 : \A l \in DOMAIN seqs[c] : \E i \in d : src[i] = c /\ a[i] = seqs[c][l]
    BY <1>5
  <2>5. IsSeq(a) /\ d = 1..Len(a)
    BY <1>6
  <2> HIDE DEF d
  <2> QED
    BY ONLY <2>1, <2>2, <2>3, <2>4, <2>5 DEF IsSource
<1> QED
  BY <1>8

LEMMA SourceStep ==
  ASSUME NEW seqs, NEW m \in Nat, NEW F, NEW src, IsSource(F, seqs, m, src), IsSeq(seqs[m+1])
  PROVE  \E s : IsSource(F \o seqs[m+1], seqs, m + 1, s)
<1> PICK b, H, n, k : b = seqs[m+1] /\ H = F \o b /\ n = Len(F) /\ k = Len(b)
  OBVIOUS
<1>1. IsSeq(F) /\ IsSeq(b) /\ n \in Nat /\ k \in Nat /\ DOMAIN b = 1..k
  BY DEF IsSource, IsSeq
<1>2. /\ IsSeq(H) /\ Len(H) = n + k
      /\ \A i \in 1..n : H[i] = F[i]
      /\ \A i \in 1..k : H[n + i] = b[i]
  BY <1>1, ConcatIsSeq
<1>s. PICK s : s = [i \in 1..n+k |-> IF i \in 1..n THEN src[i] ELSE m + 1]
  OBVIOUS
<1>3. /\ \A i \in 1..n : i \in 1..n+k /\ s[i] = src[i]
      /\ \A i \in 1..k : n + i \in 1..n+k /\ s[n + i] = m + 1
      /\ \A i \in 1..n+k : i \in 1..n \/ \E l \in 1..k : i = n + l
  <2>1. \A i \in 1..n : i \in 1..n+k
    BY <1>1
  <2>2. \A i \in 1..k : n + i \in 1..n+k /\ n + i \notin 1..n
    BY <1>1
  <2>3. ASSUME NEW i \in 1..n+k, i \notin 1..n PROVE i - n \in 1..k /\ i = n + (i - n)
    BY <1>1, <2>3
  <2>4. \A i \in 1..n+k : i \in 1..n \/ \E l \in 1..k : i = n + l
    BY <2>3
  <2> QED
    BY <1>s, <2>1, <2>2, <2>4
<1>4. \A i \in 1..n+k : /\ s[i] \in 1..m+1
                        /\ \E l \in DOMAIN seqs[s[i]] : H[i] = seqs[s[i]][l]
  <2> TAKE i \in 1..n+k
  <2>1. CASE i \in 1..n
    <3>1. s[i] = src[i] /\ H[i] = F[i]
      BY <1>2, <1>3, <2>1
    <3>2. src[i] \in 1..m /\ \E l \in DOMAIN seqs[src[i]] : F[i] = seqs[src[i]][l]
      BY <2>1 DEF IsSource
    <3> QED
      BY <3>1, <3>2
  <2>2. CASE \E l \in 1..k : i = n + l
    <3>1. PICK l \in 1..k : i = n + l
      BY <2>2
    <3>2. s[i] = m + 1 /\ H[i] = b[l]
      BY <1>2, <1>3, <3>1
    <3>3. l \in DOMAIN seqs[m+1] /\ m + 1 \in 1..m+1
      BY <1>1
    <3> QED
      BY <3>2, <3>3
  <2> QED
    BY <1>3, <2>1, <2>2
<1>5. \A i, j \in 1..n+k : i <= j => s[i] <= s[j]
  <2> TAKE i, j \in 1..n+k
  <2> HAVE i <= j
  <2>1. CASE i \in 1..n /\ j \in 1..n
    BY <1>3, <2>1 DEF IsSource
  <2>2. CASE \E l \in 1..k : j = n + l
    <3>1. s[j] = m + 1
      BY <1>3, <2>2
    <3>2. s[i] \in 1..m+1
      BY <1>4
    <3> QED
      BY <3>1, <3>2
  <2>3. CASE (\E l \in 1..k : i = n + l) /\ j \in 1..n
    BY <1>1, <2>3
  <2> QED
    BY <1>3, <2>1, <2>2, <2>3
<1>6. \A c \in 1..m+1 : \A l \in DOMAIN seqs[c] :
        \E i \in 1..n+k : s[i] = c /\ H[i] = seqs[c][l]
  <2> TAKE c \in 1..m+1
  <2> TAKE l \in DOMAIN seqs[c]
  <2>1. CASE c = m + 1
    <3>1. l \in 1..k
      BY <1>1, <2>1
    <3>2. n + l \in 1..n+k /\ s[n + l] = c /\ H[n + l] = seqs[c][l]
      BY <1>2, <1>3, <2>1, <3>1
    <3> QED
      BY <3>2
  <2>2. CASE c # m + 1
    <3>1. c \in 1..m
      BY <2>2
    <3>2. PICK i \in 1..n : src[i] = c /\ F[i] = seqs[c][l]
      BY <3>1 DEF IsSource
    <3>3. i \in 1..n+k /\ s[i] = c /\ H[i] = seqs[c][l]
      BY <1>2, <1>3, <3>2
    <3> QED
      BY <3>3
  <2> QED
    BY <2>1, <2>2
<1>o. ASSUME NEW i \in 1..n+k, NEW j \in 1..n+k, i < j, s[i] = s[j]
      PROVE  \E u, v \in DOMAIN seqs[s[i]] :
               u < v /\ H[i] = seqs[s[i]][u] /\ H[j] = seqs[s[i]][v]
  <2>1. CASE i \in 1..n /\ j \in 1..n
    <3>1. s[i] = src[i] /\ s[j] = src[j] /\ H[i] = F[i] /\ H[j] = F[j]
      BY <1>2, <1>3, <2>1
    <3>a. src[i] = src[j] /\ i < j /\ i \in 1..Len(F) /\ j \in 1..Len(F)
      BY <1>o, <2>1, <3>1
    <3>2. \E u, v \in DOMAIN seqs[src[i]] :
            u < v /\ F[i] = seqs[src[i]][u] /\ F[j] = seqs[src[i]][v]
      BY <3>a, Zenon DEF IsSource
    <3> QED
      BY <3>1, <3>2
  <2>2. CASE i \in 1..n /\ j \notin 1..n
    <3>1. s[i] \in 1..m
      BY <1>3, <2>2 DEF IsSource
    <3>a. PICK l \in 1..k : j = n + l
      BY <1>3, <2>2
    <3>2. s[j] = m + 1
      BY <1>3, <3>a
    <3> QED
      BY <1>o, <3>1, <3>2
  <2>3. CASE i \notin 1..n
    <3>1. PICK u \in 1..k : i = n + u
      BY <1>3, <2>3
    <3>2. j \notin 1..n
      BY <1>1, <1>o, <3>1
    <3>3. PICK v \in 1..k : j = n + v
      BY <1>3, <3>2
    <3>4. u < v
      BY <1>1, <1>o, <3>1, <3>3
    <3>5. s[i] = m + 1 /\ H[i] = b[u] /\ H[j] = b[v]
      BY <1>2, <1>3, <3>1, <3>3
    <3> QED
      BY <1>1, <3>4, <3>5
  <2> QED
    BY <2>1, <2>2, <2>3
<1>7. IsSeq(H) /\ 1..Len(H) = 1..n+k
  BY <1>2
<1>8. IsSource(H, seqs, m + 1, s)
  <2>1. \A i \in 1..Len(H) : /\ s[i] \in 1..m+1
                             /\ \E l \in DOMAIN seqs[s[i]] : H[i] = seqs[s[i]][l]
    <3> TAKE i \in 1..Len(H)
    <3>1. i \in 1..n+k
      BY <1>7
    <3> QED
      BY <1>4, <3>1
  <2>2. \A i, j \in 1..Len(H) : i <= j => s[i] <= s[j]
    BY <1>5, <1>7, Zenon
  <2>o. \A i, j \in 1..Len(H) : (i < j /\ s[i] = s[j]) =>
          \E u, v \in DOMAIN seqs[s[i]] :
            u < v /\ H[i] = seqs[s[i]][u] /\ H[j] = seqs[s[i]][v]
    <3> TAKE i, j \in 1..Len(H)
    <3> HAVE i < j /\ s[i] = s[j]
    <3>1. i \in 1..n+k /\ j \in 1..n+k
      BY <1>7
    <3> QED
      BY <1>o, <3>1
  <2>3. \A c \in 1..m+1 : \A l \in DOMAIN seqs[c] :
          \E i \in 1..Len(H) : s[i] = c /\ H[i] = seqs[c][l]
    <3> TAKE c \in 1..m+1
    <3> TAKE l \in DOMAIN seqs[c]
    <3>1. PICK i \in 1..n+k : s[i] = c /\ H[i] = seqs[c][l]
      BY <1>6
    <3> QED
      BY <1>7, <3>1
  <2> QED
    BY <1>7, <2>1, <2>2, <2>o, <2>3, Zenon DEF IsSource
<1> QED
  BY <1>8

LEMMA FlattenFacts ==
  ASSUME NEW seqs, IsSeq(seqs), \A c \in 1..Len(seqs) : IsSeq(seqs[c])
  PROVE  \E src : IsSource(FlattenSeq(seqs), seqs, Len(seqs), src)
<1> PICK n : n = Len(seqs)
  OBVIOUS
<1>1. n \in Nat
  BY DEF IsSeq
<1>2. CASE n = 0
  <2>1. FlattenSeq(seqs) = seqs
    BY <1>2 DEF FlattenSeq
  <2>2. IsSource(seqs, seqs, n, seqs)
    BY <1>2 DEF IsSource
  <2> QED
    BY <2>1, <2>2
<1>3. CASE n # 0
  <2>1. PICK g : IsFlatten(seqs, g, n) /\ FlattenSeq(seqs) = g[n]
    BY <1>1, <1>3, FlattenDef
  <2> DEFINE Bad == {m \in 1..n : ~\E src : IsSource(g[m], seqs, m, src)}
  <2>2. 1 \notin Bad
    <3>1. 1 \in 1..n /\ g[1] = seqs[1]
      <4>1. 1 \in 1..n
        BY <1>1, <1>3
      <4> QED
        BY <2>1, <4>1 DEF IsFlatten
    <3> QED
      BY <3>1, SourceStart
  <2>3. ASSUME NEW m \in 1..n, m + 1 \in 1..n, m \notin Bad PROVE m + 1 \notin Bad
    <3>1. PICK src : IsSource(g[m], seqs, m, src)
      BY <2>3
    <3>2. g[m+1] = g[m] \o seqs[m+1]
      <4>1. m + 1 # 1 /\ (m + 1) - 1 = m
        BY <1>1
      <4>2. g[m+1] = IF m + 1 = 1 THEN seqs[m+1] ELSE g[(m+1)-1] \o seqs[m+1]
        BY <2>1, <2>3 DEF IsFlatten
      <4> QED
        BY <4>1, <4>2
    <3>3. m \in Nat /\ IsSeq(seqs[m+1])
      BY <1>1, <2>3
    <3>4. \E s : IsSource(g[m] \o seqs[m+1], seqs, m + 1, s)
      BY <3>1, <3>3, SourceStep
    <3> QED
      BY <3>2, <3>4
  <2> HIDE DEF Bad
  <2>4. Bad = {}
    <3> SUFFICES ASSUME Bad # {} PROVE FALSE
      OBVIOUS
    <3>1. Bad \in SUBSET Nat /\ Bad \in SUBSET (1..n)
      BY <1>1 DEF Bad
    <3>2. PICK m \in Bad : \A y \in Bad : m <= y
      BY <3>1, LeastNat
    <3>3. m \in 1..n /\ m # 1
      BY <2>2, <3>1
    <3>4. m - 1 \in 1..n /\ ~(m <= m - 1) /\ (m - 1) + 1 = m
      BY <1>1, <3>3
    <3>5. m - 1 \notin Bad
      BY <3>2, <3>4
    <3> QED
      BY <2>3, <3>3, <3>4, <3>5
  <2>5. n \in 1..n /\ n \notin Bad
    BY <1>1, <1>3, <2>4
  <2> QED
    BY <2>1, <2>5 DEF Bad
<1> QED
  BY <1>2, <1>3

-----------------------------------------------------------------------------
(* Who appended what. *)

\* The times tm explain the lists that were read.
ListsExplained(tm) ==
  /\ WellFormed(hist)
  /\ ListHistory(hist)
  /\ tm \in Timings(NTxns)
  /\ ExplainsLists(tm)

LEMMA AllAppendsFacts ==
  ASSUME NEW h, NEW w
  PROVE  w \in AllAppends(h) <=>
           \E t \in Ids(h) : \E j \in DOMAIN h.txns[t] :
             h.txns[t][j].f = "append" /\ w = <<h.txns[t][j].k, h.txns[t][j].e, t>>
  BY DEF AllAppends, Range

LEMMA AppenderFacts ==
  ASSUME WellFormed(hist), NEW key, NEW x
  PROVE  /\ x \in Appenders(key) <=> \E e : <<key, e, x>> \in AllAppends(hist)
         /\ x \in Appenders(key) =>
              x \in Ids(hist) /\ x \in Txn \ {0} /\ key \in AppendedKeys(x)
<1>1. ASSUME NEW w \in AllAppends(hist)
      PROVE  /\ w = <<w[1], w[2], w[3]>> /\ w[3] \in Ids(hist) /\ w[1] \in AppendedKeys(w[3])
  <2>1. PICK t \in Ids(hist) : \E j \in DOMAIN hist.txns[t] :
          hist.txns[t][j].f = "append" /\ w = <<hist.txns[t][j].k, hist.txns[t][j].e, t>>
    BY AllAppendsFacts
  <2>2. PICK j \in DOMAIN hist.txns[t] :
          hist.txns[t][j].f = "append" /\ w = <<hist.txns[t][j].k, hist.txns[t][j].e, t>>
    BY <2>1
  <2>3. hist.txns[t][j].k \in AppendedKeys(t)
    BY <2>2 DEF AppendedKeys, Range
  <2> QED
    BY <2>2, <2>3
<1>2. x \in Appenders(key) <=> \E e : <<key, e, x>> \in AllAppends(hist)
  <2>1. ASSUME x \in Appenders(key) PROVE \E e : <<key, e, x>> \in AllAppends(hist)
    <3>1. PICK w \in AllAppends(hist) : w[1] = key /\ w[3] = x
      BY <2>1 DEF Appenders
    <3>2. w = <<key, w[2], x>>
      BY <1>1, <3>1
    <3> QED
      BY <3>2
  <2>2. ASSUME NEW e, <<key, e, x>> \in AllAppends(hist) PROVE x \in Appenders(key)
    BY <2>2 DEF Appenders
  <2> QED
    BY <2>1, <2>2
<1>3. ASSUME x \in Appenders(key)
      PROVE  x \in Ids(hist) /\ x \in Txn \ {0} /\ key \in AppendedKeys(x)
  <2>1. PICK e : <<key, e, x>> \in AllAppends(hist)
    BY <1>2, <1>3
  <2>2. x \in Ids(hist) /\ key \in AppendedKeys(x)
    BY <1>1, <2>1
  <2> QED
    BY <2>2, IdsFacts
<1> QED
  BY <1>2, <1>3

\* The only appender of a value.
LEMMA OneAppender ==
  ASSUME ListHistory(hist), NEW key, NEW e, NEW x, <<key, e, x>> \in AllAppends(hist)
  PROVE  AppendersOf(key, e) = {x}
<1>1. x \in AppendersOf(key, e)
  BY DEF AppendersOf
<1>2. ASSUME NEW y \in AppendersOf(key, e) PROVE y = x
  <2>1. PICK w \in AllAppends(hist) : w[1] = key /\ w[2] = e /\ w[3] = y
    BY DEF AppendersOf
  <2> PICK v : v = <<key, e, x>>
    OBVIOUS
  <2>2. v \in AllAppends(hist) /\ v[1] = w[1] /\ v[2] = w[2] /\ v[3] = x
    BY <2>1
  <2> QED
    BY <2>1, <2>2 DEF ListHistory
<1> QED
  BY <1>1, <1>2

\* A holds what the first n mops append to key, in their order.
IsAppends(A, mops, n, key) ==
  /\ IsSeq(A)
  /\ \A a \in DOMAIN A : \E i \in 1..n :
       mops[i].f = "append" /\ mops[i].k = key /\ A[a] = mops[i].e
  /\ \A i \in 1..n : (mops[i].f = "append" /\ mops[i].k = key) =>
       \E a \in DOMAIN A : A[a] = mops[i].e
  /\ \A a, b \in DOMAIN A : a < b =>
       \E i, j \in 1..n :
         /\ i < j
         /\ mops[i].f = "append" /\ mops[i].k = key /\ A[a] = mops[i].e
         /\ mops[j].f = "append" /\ mops[j].k = key /\ A[b] = mops[j].e

LEMMA AppendsToFacts ==
  ASSUME NEW mops, NEW n \in Nat, NEW key
  PROVE  IsAppends(AppendsTo(mops, n, key), mops, n, key)
<1> DEFINE App(j) == mops[j].f = "append" /\ mops[j].k = key
<1>s. PICK seqs : seqs = [j \in 1..n |-> IF App(j) THEN <<mops[j].e>> ELSE << >>]
  OBVIOUS
<1>f. PICK F : F = AppendsTo(mops, n, key)
  OBVIOUS
<1>1. F = FlattenSeq(seqs)
  BY <1>s, <1>f DEF AppendsTo
<1>2. IsSeq(seqs) /\ Len(seqs) = n
  <2>1. seqs = [j \in 1..n |-> seqs[j]]
    BY <1>s
  <2> QED
    BY <2>1, FunctionIsSeq
<1>3. ASSUME NEW j \in 1..n
      PROVE  /\ IsSeq(seqs[j])
             /\ App(j) => DOMAIN seqs[j] = {1} /\ seqs[j][1] = mops[j].e
             /\ ~App(j) => DOMAIN seqs[j] = {}
  <2>1. CASE App(j)
    <3>1. seqs[j] = <<mops[j].e>>
      BY <1>s, <2>1
    <3> PICK e : e = mops[j].e
      OBVIOUS
    <3>2. <<e>> \in Seq({e}) /\ Len(<<e>>) = 1 /\ <<e>>[1] = e
      OBVIOUS
    <3>3. IsSeq(<<e>>) /\ DOMAIN <<e>> = 1..1
      BY <3>2, SeqIsFunction
    <3> QED
      BY <2>1, <3>1, <3>2, <3>3
  <2>2. CASE ~App(j)
    <3>1. seqs[j] = << >>
      BY <1>s, <2>2
    <3>2. << >> \in Seq({}) /\ Len(<< >>) = 0
      BY EmptySeq
    <3>3. IsSeq(<< >>) /\ DOMAIN << >> = 1..0
      BY <3>2, SeqIsFunction
    <3> QED
      BY <2>2, <3>1, <3>3
  <2> QED
    BY <2>1, <2>2
<1> HIDE DEF App
<1>4. PICK src : IsSource(F, seqs, n, src)
  BY <1>1, <1>2, <1>3, FlattenFacts
<1>5. IsSeq(F) /\ DOMAIN F = 1..Len(F)
  BY <1>4 DEF IsSource, IsSeq
<1>6. ASSUME NEW i \in DOMAIN F
      PROVE  src[i] \in 1..n /\ App(src[i]) /\ F[i] = mops[src[i]].e
  <2>1. /\ src[i] \in 1..n
        /\ \E l \in DOMAIN seqs[src[i]] : F[i] = seqs[src[i]][l]
    BY <1>4, <1>5 DEF IsSource
  <2>2. PICK l \in DOMAIN seqs[src[i]] : F[i] = seqs[src[i]][l]
    BY <2>1
  <2>3. App(src[i]) /\ l = 1
    BY <1>3, <2>1
  <2> QED
    BY <1>3, <2>1, <2>2, <2>3
<1>7. ASSUME NEW j \in 1..n, App(j) PROVE \E i \in DOMAIN F : F[i] = mops[j].e
  <2>1. 1 \in DOMAIN seqs[j] /\ seqs[j][1] = mops[j].e
    BY <1>3, <1>7
  <2>2. PICK i \in 1..Len(F) : F[i] = seqs[j][1]
    BY <1>4, <2>1 DEF IsSource
  <2> QED
    BY <1>5, <2>1, <2>2
<1>8. ASSUME NEW a \in DOMAIN F, NEW b \in DOMAIN F, a < b PROVE src[a] < src[b]
  <2>1. a \in 1..Len(F) /\ b \in 1..Len(F) /\ a <= b
    BY <1>5, <1>8 DEF IsSeq
  <2>2. src[a] <= src[b]
    BY <1>4, <2>1 DEF IsSource
  <2>3. src[a] \in 1..n /\ src[b] \in 1..n
    BY <1>6
  <2>4. src[a] # src[b]
    <3> SUFFICES ASSUME src[a] = src[b] PROVE FALSE
      OBVIOUS
    <3>1. \E k, l \in DOMAIN seqs[src[a]] : k < l
      BY <1>4, <1>8, <2>1, Zenon DEF IsSource
    <3>2. DOMAIN seqs[src[a]] = {1}
      BY <1>3, <1>6
    <3> QED
      BY <3>1, <3>2
  <2> QED
    BY <2>2, <2>3, <2>4
<1>9. \A i \in DOMAIN F : \E j \in 1..n : App(j) /\ F[i] = mops[j].e
  BY <1>6
<1>10. \A a, b \in DOMAIN F : a < b =>
         \E i, j \in 1..n : i < j /\ App(i) /\ F[a] = mops[i].e /\ App(j) /\ F[b] = mops[j].e
  BY <1>6, <1>8
<1> QED
  BY <1>f, <1>5, <1>7, <1>9, <1>10 DEF App, IsAppends

-----------------------------------------------------------------------------
(* What a list tells of the times. *)

\* Every commit time is somebody's.
LEMMA CommitOnto ==
  ASSUME WellFormed(hist), NEW tm \in Timings(NTxns), NEW c \in 1..NTxns
  PROVE  \E u \in Ids(hist) : tm.commit[u] = c
<1> PICK S : S = 1..NTxns
  OBVIOUS
<1>1. IsFiniteSet(S)
  BY NTxnsAssumption, FS_Interval
<1>2. tm.commit \in [S -> S] /\ \A t, u \in S : t # u => tm.commit[t] # tm.commit[u]
  BY DEF Timings, CommitOrders
<1>3. tm.commit \in Injection(S, S)
  BY <1>2 DEF Injection, IsInjective
<1>4. tm.commit \in Surjection(S, S)
  BY <1>1, <1>3, FS_Injection
<1>5. \E u \in S : tm.commit[u] = c
  BY <1>4 DEF Surjection
<1> QED
  BY <1>5, IdsFacts

\* Mop i of transaction t appends e to key.
AppendsAt(t, i, key, e) ==
  LET m == hist.txns[t][i]
  IN  i \in DOMAIN hist.txns[t] /\ m.f = "append" /\ m.k = key /\ m.e = e

\* The transactions by that appended the elements of the list that r read:
\* those of the snapshot, in the order of their commits and each one's appends
\* in the order of its mops.
ListWriters(tm, r, by) ==
  /\ r[3] \in Ids(hist)
  /\ IsSeq(r[2])
  /\ \A i \in 1..Len(r[2]) : /\ <<r[1], r[2][i], by[i]>> \in AllAppends(hist)
                             /\ by[i] \in Ids(hist)
                             /\ tm.commit[by[i]] <= tm.begin[r[3]]
  /\ \A i, j \in 1..Len(r[2]) : i <= j => tm.commit[by[i]] <= tm.commit[by[j]]
  /\ \A i, j \in 1..Len(r[2]) : (i < j /\ by[i] = by[j]) =>
       \E k, l \in Int :
         k < l /\ AppendsAt(by[i], k, r[1], r[2][i]) /\ AppendsAt(by[i], l, r[1], r[2][j])
  /\ \A x \in Ids(hist) : \A e :
       (<<r[1], e, x>> \in AllAppends(hist) /\ tm.commit[x] <= tm.begin[r[3]])
         => \E i \in 1..Len(r[2]) : by[i] = x /\ r[2][i] = e

\* An external read returns the list of the snapshot.
LEMMA ReadReturnsSnapshot ==
  ASSUME NEW tm, ListsExplained(tm), NEW r \in ext_reads(hist)
  PROVE  /\ r = <<r[1], r[2], r[3]>> /\ r[3] \in Ids(hist)
         /\ \E own : /\ IsSeq(own) /\ Len(own) = 0
                     /\ r[2] = SnapshotList(tm, r[3], r[1]) \o own
<1>1. PICK t \in Ids(hist) : \E p \in ext_reads_fn(hist.txns[t]) : r = <<p[1], p[2], t>>
  BY DEF ext_reads
<1>2. PICK p \in ext_reads_fn(hist.txns[t]) : r = <<p[1], p[2], t>>
  BY <1>1
<1>t. PICK txn : txn = hist.txns[t]
  OBVIOUS
<1>3. PICK j \in DOMAIN txn :
        p \in Observed(txn[j]) /\ \A i \in 1..j-1 : p[1] \notin Ignored(txn[i])
  BY <1>t DEF ext_reads_fn
<1>4. Len(txn) \in Nat /\ DOMAIN txn = 1..Len(txn)
  BY <1>t DEF ListsExplained, WellFormed
<1>5. \A i \in DOMAIN txn : txn[i].f \in {"r", "append"}
  BY <1>t DEF ListsExplained, ListHistory
<1>6. txn[j].f = "r" /\ p = <<txn[j].k, txn[j].v>>
  BY <1>3, <1>5 DEF Observed
<1>7. p[2] = SnapshotList(tm, t, p[1]) \o AppendsTo(txn, j - 1, p[1])
  BY <1>6, <1>t DEF ListsExplained, ExplainsLists
<1>8. ASSUME NEW i \in 1..j-1 PROVE ~(txn[i].f = "append" /\ txn[i].k = p[1])
  BY <1>3 DEF Ignored
<1>9. IsSeq(AppendsTo(txn, j - 1, p[1])) /\ Len(AppendsTo(txn, j - 1, p[1])) = 0
  <2>a. PICK F : F = AppendsTo(txn, j - 1, p[1])
    OBVIOUS
  <2>1. j - 1 \in Nat
    BY <1>3, <1>4
  <2>2. IsSeq(F) /\ \A i \in DOMAIN F : \E l \in 1..j-1 : txn[l].f = "append" /\ txn[l].k = p[1]
    BY <2>1, <2>a, AppendsToFacts DEF IsAppends
  <2>3. DOMAIN F = {} /\ Len(F) \in Nat /\ DOMAIN F = 1..Len(F)
    BY <1>8, <2>2 DEF IsSeq
  <2>4. Len(F) = 0
    BY <2>3
  <2> QED
    BY <2>2, <2>4, <2>a
<1> QED
  BY <1>2, <1>7, <1>9

LEMMA SnapshotWriters ==
  ASSUME WellFormed(hist), NEW tm \in Timings(NTxns), NEW r, r = <<r[1], r[2], r[3]>>,
         r[3] \in Ids(hist), r[2] = SnapshotList(tm, r[3], r[1])
  PROVE  \E by : ListWriters(tm, r, by)
<1>k. PICK key, v, t : key = r[1] /\ v = r[2] /\ t = r[3]
  OBVIOUS
<1>1. t \in Ids(hist)
  BY <1>k
<1>3. \A u \in Ids(hist) : /\ tm.commit[u] \in 1..NTxns /\ tm.begin[u] \in 0..NTxns-1
                           /\ tm.commit[u] \in Int /\ tm.begin[u] \in Int
  BY TimingTypes
<1>4. \A u, w \in Ids(hist) : u # w => tm.commit[u] # tm.commit[w]
  BY TimingTypes
<1>n. PICK n : n = tm.begin[t]
  OBVIOUS
<1>5. n \in Nat /\ \A c \in 1..n : c \in 1..NTxns
  BY <1>1, <1>3, <1>n, NTxnsAssumption
<1> DEFINE Who(c) == CHOOSE u \in Ids(hist) : tm.commit[u] = c
           Apps(u) == AppendsTo(hist.txns[u], Len(hist.txns[u]), key)
<1>6. ASSUME NEW c \in 1..n PROVE Who(c) \in Ids(hist) /\ tm.commit[Who(c)] = c
  <2>1. \E u \in Ids(hist) : tm.commit[u] = c
    BY <1>5, CommitOnto
  <2> QED
    BY <2>1
<1>s. PICK seqs : seqs = [c \in 1..n |-> Apps(Who(c))]
  OBVIOUS
<1>f. PICK F : F = FlattenSeq(seqs)
  OBVIOUS
<1>7. SnapshotList(tm, t, key) = F
  BY <1>s, <1>f, <1>n DEF SnapshotList
<1> HIDE DEF Who
<1>8. ASSUME NEW u \in Ids(hist)
      PROVE  /\ IsSeq(Apps(u))
             /\ \A i \in DOMAIN Apps(u) : <<key, Apps(u)[i], u>> \in AllAppends(hist)
             /\ \A e : <<key, e, u>> \in AllAppends(hist) => \E i \in DOMAIN Apps(u) : Apps(u)[i] = e
             /\ \A a, b \in DOMAIN Apps(u) : a < b =>
                  \E k, l \in Int :
                    k < l /\ AppendsAt(u, k, key, Apps(u)[a]) /\ AppendsAt(u, l, key, Apps(u)[b])
  <2>t. PICK txn, A : txn = hist.txns[u] /\ A = Apps(u)
    OBVIOUS
  <2>1. Len(txn) \in Nat /\ DOMAIN txn = 1..Len(txn)
    BY <2>t DEF WellFormed
  <2>a. A = AppendsTo(txn, Len(txn), key)
    BY <2>t
  <2>2. IsAppends(A, txn, Len(txn), key)
    BY <2>1, <2>a, AppendsToFacts
  <2>3. ASSUME NEW i \in DOMAIN A PROVE <<key, A[i], u>> \in AllAppends(hist)
    <3>1. PICK j \in DOMAIN txn : txn[j].f = "append" /\ txn[j].k = key /\ A[i] = txn[j].e
      BY <2>1, <2>2 DEF IsAppends
    <3> QED
      BY <2>t, <3>1, AllAppendsFacts
  <2>4. ASSUME NEW e, <<key, e, u>> \in AllAppends(hist) PROVE \E i \in DOMAIN A : A[i] = e
    <3>1. PICK x \in Ids(hist) : \E j \in DOMAIN hist.txns[x] :
            /\ hist.txns[x][j].f = "append"
            /\ <<key, e, u>> = <<hist.txns[x][j].k, hist.txns[x][j].e, x>>
      BY <2>4, AllAppendsFacts
    <3>2. PICK j \in DOMAIN hist.txns[x] :
            /\ hist.txns[x][j].f = "append"
            /\ <<key, e, u>> = <<hist.txns[x][j].k, hist.txns[x][j].e, x>>
      BY <3>1
    <3>3. j \in 1..Len(txn) /\ txn[j].f = "append" /\ txn[j].k = key /\ txn[j].e = e
      BY <2>1, <2>t, <3>2
    <3> QED
      BY <2>2, <3>3 DEF IsAppends
  <2>5. ASSUME NEW a \in DOMAIN A, NEW b \in DOMAIN A, a < b
        PROVE  \E k, l \in Int : k < l /\ AppendsAt(u, k, key, A[a]) /\ AppendsAt(u, l, key, A[b])
    <3>1. PICK i, j \in 1..Len(txn) :
               /\ i < j
               /\ txn[i].f = "append" /\ txn[i].k = key /\ A[a] = txn[i].e
               /\ txn[j].f = "append" /\ txn[j].k = key /\ A[b] = txn[j].e
      BY <2>2, <2>5 DEF IsAppends
    <3>2. AppendsAt(u, i, key, A[a]) /\ AppendsAt(u, j, key, A[b])
      BY <2>1, <2>t, <3>1 DEF AppendsAt
    <3>3. i \in Int /\ j \in Int
      BY <2>1
    <3> QED
      BY <3>1, <3>2, <3>3
  <2> QED
    BY <2>2, <2>3, <2>4, <2>5, <2>t DEF IsAppends
<1> HIDE DEF Apps
<1>9. IsSeq(seqs) /\ Len(seqs) = n /\ \A c \in 1..n : seqs[c] = Apps(Who(c)) /\ IsSeq(seqs[c])
  <2>1. seqs = [c \in 1..n |-> seqs[c]] /\ \A c \in 1..n : seqs[c] = Apps(Who(c))
    BY <1>s
  <2>2. IsSeq(seqs) /\ Len(seqs) = n
    BY <1>5, <2>1, FunctionIsSeq
  <2> QED
    BY <1>6, <1>8, <2>1, <2>2
<1>10. PICK src : IsSource(F, seqs, n, src)
  BY <1>f, <1>9, FlattenFacts
<1>11. /\ IsSeq(v) /\ Len(v) = Len(F) /\ Len(F) \in Nat /\ \A i \in 1..Len(F) : v[i] = F[i]
  <2>1. IsSeq(F) /\ Len(F) \in Nat
    BY <1>10 DEF IsSource, IsSeq
  <2> QED
    BY <1>7, <1>k, <2>1
<1>b. PICK m, by : m = Len(F) /\ by = [i \in 1..m |-> Who(src[i])]
  OBVIOUS
<1>12. ASSUME NEW i \in 1..m
       PROVE  /\ by[i] \in Ids(hist) /\ tm.commit[by[i]] = src[i] /\ src[i] \in 1..n
              /\ <<key, v[i], by[i]>> \in AllAppends(hist)
  <2>1. src[i] \in 1..n /\ \E l \in DOMAIN seqs[src[i]] : F[i] = seqs[src[i]][l]
    BY <1>10, <1>b DEF IsSource
  <2>2. PICK l \in DOMAIN seqs[src[i]] : F[i] = seqs[src[i]][l]
    BY <2>1
  <2>3. by[i] = Who(src[i]) /\ by[i] \in Ids(hist) /\ tm.commit[by[i]] = src[i]
    BY <1>6, <1>b, <2>1
  <2>4. seqs[src[i]] = Apps(by[i])
    BY <1>9, <2>1, <2>3
  <2>5. <<key, F[i], by[i]>> \in AllAppends(hist)
    BY <1>8, <2>2, <2>3, <2>4
  <2> QED
    BY <1>11, <1>b, <2>1, <2>3, <2>5
<1>13. \A i, j \in 1..m : i <= j => tm.commit[by[i]] <= tm.commit[by[j]]
  <2> TAKE i, j \in 1..m
  <2> HAVE i <= j
  <2>1. src[i] <= src[j]
    BY <1>10, <1>b DEF IsSource
  <2> QED
    BY <1>12, <2>1
<1>o. ASSUME NEW i \in 1..m, NEW j \in 1..m, i < j, by[i] = by[j]
      PROVE  \E k, l \in Int :
               k < l /\ AppendsAt(by[i], k, key, v[i]) /\ AppendsAt(by[i], l, key, v[j])
  <2>1. src[i] = src[j] /\ src[i] \in 1..n
    BY <1>12, <1>o
  <2>2. \E a, b \in DOMAIN seqs[src[i]] :
          a < b /\ F[i] = seqs[src[i]][a] /\ F[j] = seqs[src[i]][b]
    BY <1>10, <1>b, <1>o, <2>1, Zenon DEF IsSource
  <2>3. by[i] = Who(src[i]) /\ seqs[src[i]] = Apps(by[i]) /\ by[i] \in Ids(hist)
    BY <1>9, <1>12, <1>b, <2>1
  <2>4. v[i] = F[i] /\ v[j] = F[j]
    BY <1>11, <1>b
  <2>5. PICK a, b \in DOMAIN Apps(by[i]) : a < b /\ v[i] = Apps(by[i])[a] /\ v[j] = Apps(by[i])[b]
    BY <2>2, <2>3, <2>4
  <2> QED
    BY <1>8, <2>3, <2>5
<1>14. ASSUME NEW x \in Ids(hist), NEW e, <<key, e, x>> \in AllAppends(hist),
              tm.commit[x] <= tm.begin[t]
       PROVE  \E i \in 1..m : by[i] = x /\ v[i] = e
  <2>c. PICK c : c = tm.commit[x]
    OBVIOUS
  <2>1. c \in 1..n
    BY <1>3, <1>14, <1>n, <1>1, <2>c
  <2>2. Who(c) = x
    BY <1>4, <1>6, <2>1, <2>c
  <2>3. PICK l \in DOMAIN Apps(x) : Apps(x)[l] = e
    BY <1>8, <1>14
  <2>4. seqs[c] = Apps(x)
    BY <1>9, <2>1, <2>2
  <2>5. PICK i \in 1..m : src[i] = c /\ F[i] = seqs[c][l]
    BY <1>10, <1>b, <2>1, <2>3, <2>4 DEF IsSource
  <2>6. by[i] = x /\ v[i] = e
    BY <1>11, <1>b, <2>2, <2>3, <2>4, <2>5
  <2> QED
    BY <2>6
<1>15. \A i \in 1..m : tm.commit[by[i]] <= tm.begin[t]
  <2> TAKE i \in 1..m
  <2>1. tm.commit[by[i]] \in 1..n
    BY <1>12
  <2> QED
    BY <1>5, <1>n, <2>1
<1>16. Len(r[2]) = m
  BY <1>k, <1>b, <1>11
<1>17. \A i \in 1..Len(r[2]) : /\ <<r[1], r[2][i], by[i]>> \in AllAppends(hist)
                               /\ by[i] \in Ids(hist)
                               /\ tm.commit[by[i]] <= tm.begin[r[3]]
  BY <1>12, <1>15, <1>16, <1>k
<1>18. \A i, j \in 1..Len(r[2]) : i <= j => tm.commit[by[i]] <= tm.commit[by[j]]
  BY <1>13, <1>16
<1>19. \A x \in Ids(hist) : \A e :
         (<<r[1], e, x>> \in AllAppends(hist) /\ tm.commit[x] <= tm.begin[r[3]])
           => \E i \in 1..Len(r[2]) : by[i] = x /\ r[2][i] = e
  BY <1>14, <1>16, <1>k
<1>20. \A i, j \in 1..Len(r[2]) : (i < j /\ by[i] = by[j]) =>
         \E k, l \in Int :
           k < l /\ AppendsAt(by[i], k, r[1], r[2][i]) /\ AppendsAt(by[i], l, r[1], r[2][j])
  BY <1>o, <1>16, <1>k
<1>21. ListWriters(tm, r, by)
  BY <1>1, <1>11, <1>17, <1>18, <1>19, <1>20, <1>k DEF ListWriters
<1> QED
  BY <1>21

\* Nothing is added to a list by an empty one.
LEMMA ConcatEmpty ==
  ASSUME NEW a, IsSeq(a), NEW own, IsSeq(own), Len(own) = 0
  PROVE  a \o own = a
<1>1. Len(a) \in Nat /\ a = [i \in 1..Len(a) |-> a[i]]
  BY DEF IsSeq
<1>2. /\ IsSeq(a \o own) /\ Len(a \o own) = Len(a)
      /\ \A i \in 1..Len(a) : (a \o own)[i] = a[i]
  BY <1>1, ConcatIsSeq
<1>3. a \o own = [i \in 1..Len(a) |-> (a \o own)[i]]
  BY <1>2 DEF IsSeq
<1> QED
  BY <1>1, <1>2, <1>3

LEMMA ListWritersExist ==
  ASSUME NEW tm, ListsExplained(tm), NEW r \in ext_reads(hist)
  PROVE  \E by : ListWriters(tm, r, by)
<1>1. /\ r = <<r[1], r[2], r[3]>> /\ r[3] \in Ids(hist)
      /\ \E own : /\ IsSeq(own) /\ Len(own) = 0
                  /\ r[2] = SnapshotList(tm, r[3], r[1]) \o own
  BY ReadReturnsSnapshot
<1>2. PICK own : IsSeq(own) /\ Len(own) = 0 /\ r[2] = SnapshotList(tm, r[3], r[1]) \o own
  BY <1>1
<1>3. WellFormed(hist) /\ tm \in Timings(NTxns)
  BY DEF ListsExplained
<1> PICK q : q = <<r[1], SnapshotList(tm, r[3], r[1]), r[3]>>
  OBVIOUS
<1>4. PICK by : ListWriters(tm, q, by)
  BY <1>1, <1>3, SnapshotWriters
<1>5. IsSeq(q[2])
  BY <1>4 DEF ListWriters
<1>6. r = q
  BY <1>1, <1>2, <1>5, ConcatEmpty
<1> QED
  BY <1>4, <1>6

LEMMA EmptyIsSeq == ASSUME NEW a, IsSeq(a) PROVE a = << >> <=> Len(a) = 0
<1> PICK S : S = {a[i] : i \in 1..Len(a)}
  OBVIOUS
<1>1. a \in Seq(S)
  BY FunctionIsSeq DEF IsSeq
<1> QED
  BY <1>1, EmptySeq

LEMMA AppendersOrdered ==
  ASSUME NEW tm, ListsExplained(tm), NEW key,
         NEW x \in Appenders(key), NEW y \in Appenders(key), x # y
  PROVE  Precedes(tm, x, y) \/ Precedes(tm, y, x)
<1>1. x \in Ids(hist) /\ y \in Ids(hist) /\ key \in AppendedKeys(x) /\ key \in AppendedKeys(y)
  BY AppenderFacts DEF ListsExplained
<1>2. AppendedKeys(x) \cap AppendedKeys(y) # {}
  BY <1>1
<1> QED
  BY <1>1, <1>2 DEF ListsExplained, ExplainsLists, Precedes

\* Who commits earlier commits before the other one begins.
LEMMA EarlierPrecedes ==
  ASSUME NEW tm, ListsExplained(tm), NEW key,
         NEW x \in Appenders(key), NEW y \in Appenders(key), x # y,
         tm.commit[x] <= tm.commit[y]
  PROVE  Precedes(tm, x, y)
<1>1. x \in Ids(hist) /\ y \in Ids(hist)
  BY AppenderFacts DEF ListsExplained
<1>2. /\ tm.commit[x] \in Int /\ tm.begin[x] \in Int /\ tm.begin[x] < tm.commit[x]
      /\ tm.commit[y] \in Int
  BY <1>1, TimingTypes DEF ListsExplained
<1>3. ~Precedes(tm, y, x)
  BY <1>2 DEF Precedes
<1> QED
  BY <1>3, AppendersOrdered

\* A read depends on the last visible appender, or on T0 if there is none.
LEMMA LastAppender ==
  ASSUME NEW tm, ListsExplained(tm), NEW r \in ext_reads(hist)
  PROVE  \E w : /\ LastAppenders(r[1], r[2]) = {w}
                /\ w = 0 \/ (w \in Appenders(r[1]) /\ Precedes(tm, w, r[3]))
                /\ w # r[3]
                /\ \A x \in Appenders(r[1]) :
                     Precedes(tm, x, r[3]) => w # 0 /\ tm.commit[x] <= tm.commit[w]
<1>1. PICK by : ListWriters(tm, r, by)
  BY ListWritersExist
<1>2. PICK key, v, t, n : key = r[1] /\ v = r[2] /\ t = r[3] /\ n = Len(v)
  OBVIOUS
<1>3. IsSeq(v) /\ n \in Nat /\ t \in Ids(hist)
  BY <1>1, <1>2 DEF ListWriters, IsSeq
<1>t. t # 0
  BY <1>3, IdsFacts DEF ListsExplained
<1>4. ASSUME NEW x \in Appenders(key), Precedes(tm, x, t)
      PROVE  \E i \in 1..n : by[i] = x
  <2>1. x \in Ids(hist) /\ \E e : <<key, e, x>> \in AllAppends(hist)
    BY AppenderFacts DEF ListsExplained
  <2>2. PICK e : <<key, e, x>> \in AllAppends(hist)
    BY <2>1
  <2> QED
    BY <1>1, <1>2, <1>4, <2>1, <2>2 DEF ListWriters, Precedes
<1>5. CASE v = << >>
  <2>1. n = 0
    BY <1>2, <1>3, <1>5, EmptyIsSeq
  <2>2. LastAppenders(key, v) = {0}
    BY <1>5 DEF LastAppenders
  <2>3. \A x \in Appenders(key) : ~Precedes(tm, x, t)
    BY <1>4, <2>1
  <2> QED
    BY <1>2, <1>t, <2>2, <2>3
<1>6. CASE v # << >>
  <2>1. n \in 1..n
    <3>1. n # 0
      BY <1>2, <1>3, <1>6, EmptyIsSeq
    <3> QED
      BY <1>3, <3>1
  <2>w. PICK w : w = by[n]
    OBVIOUS
  <2>2. /\ <<key, v[n], w>> \in AllAppends(hist) /\ w \in Ids(hist)
        /\ tm.commit[w] <= tm.begin[t]
    BY <1>1, <1>2, <2>1, <2>w DEF ListWriters
  <2>3. LastAppenders(key, v) = {w}
    <3>1. LastAppenders(key, v) = AppendersOf(key, v[n])
      BY <1>2, <1>6 DEF LastAppenders, Last
    <3> QED
      BY <2>2, <3>1, OneAppender DEF ListsExplained
  <2>4. w \in Appenders(key) /\ w # 0
    BY <2>2, AppenderFacts DEF ListsExplained
  <2>5. w # t
    <3>1. tm.begin[t] \in Int /\ tm.commit[t] \in Int /\ tm.begin[t] < tm.commit[t]
      BY <1>3, TimingTypes DEF ListsExplained
    <3> QED
      BY <2>2, <3>1
  <2>6. ASSUME NEW x \in Appenders(key), Precedes(tm, x, t)
        PROVE  tm.commit[x] <= tm.commit[w]
    <3>1. PICK i \in 1..n : by[i] = x
      BY <1>4, <2>6
    <3>2. i <= n
      BY <1>3
    <3> QED
      BY <1>1, <1>2, <2>1, <2>w, <3>1, <3>2 DEF ListWriters
  <2> QED
    BY <1>2, <2>2, <2>3, <2>4, <2>5, <2>6 DEF Precedes
<1> QED
  BY <1>5, <1>6

LEMMA ListReadTiming ==
  ASSUME NEW tm, ListsExplained(tm), NEW f \in AppendReadFrom
  PROVE  /\ f = <<f[1], f[2], f[3]>> /\ f[3] \in Ids(hist) /\ f[3] \in Txn \ {0}
         /\ f[2] = 0 \/ (f[2] \in Appenders(f[1]) /\ Precedes(tm, f[2], f[3]))
         /\ f[2] # f[3]
         /\ \A x \in Appenders(f[1]) :
              Precedes(tm, x, f[3]) => f[2] # 0 /\ tm.commit[x] <= tm.commit[f[2]]
<1>1. PICK r \in ext_reads(hist) : \E w \in LastAppenders(r[1], r[2]) : f = <<r[1], w, r[3]>>
  BY DEF AppendReadFrom
<1>2. PICK w \in LastAppenders(r[1], r[2]) : f = <<r[1], w, r[3]>>
  BY <1>1
<1>3. r[3] \in Ids(hist) /\ r[3] \in Txn \ {0}
  BY ReadReturnsSnapshot, IdsFacts DEF ListsExplained
<1>4. PICK x : /\ LastAppenders(r[1], r[2]) = {x}
               /\ x = 0 \/ (x \in Appenders(r[1]) /\ Precedes(tm, x, r[3]))
               /\ x # r[3]
               /\ \A y \in Appenders(r[1]) :
                    Precedes(tm, y, r[3]) => x # 0 /\ tm.commit[y] <= tm.commit[x]
  BY LastAppender
<1>5. f[1] = r[1] /\ f[2] = x /\ f[3] = r[3]
  BY <1>2, <1>4
<1> QED
  BY <1>2, <1>3, <1>4, <1>5

\* What readfrom and wwpairs hold, whatever the lists are.
LEMMA ListReadTypes ==
  ASSUME WellFormed(hist), NEW f \in AppendReadFrom
  PROVE  /\ f = <<f[1], f[2], f[3]>>
         /\ f[3] \in Ids(hist) /\ f[3] \in Txn \ {0} /\ f[2] \in Txn
         /\ f[2] # 0 => f[2] \in Appenders(f[1])
<1>1. PICK r \in ext_reads(hist) : \E w \in LastAppenders(r[1], r[2]) : f = <<r[1], w, r[3]>>
  BY DEF AppendReadFrom
<1>2. PICK w \in LastAppenders(r[1], r[2]) : f = <<r[1], w, r[3]>>
  BY <1>1
<1>3. r[3] \in Ids(hist)
  BY DEF ext_reads
<1>4. w # 0 => w \in Appenders(r[1])
  BY DEF LastAppenders, AppendersOf, Appenders
<1>5. w \in Txn
  BY <1>4, AppenderFacts, NTxnsAssumption DEF Txn
<1>6. f[1] = r[1] /\ f[2] = w /\ f[3] = r[3]
  BY <1>2
<1> QED
  BY <1>2, <1>3, <1>4, <1>5, <1>6, IdsFacts

LEMMA ListOrderTypes ==
  ASSUME WellFormed(hist), NEW p \in ListOrder
  PROVE  /\ p = <<p[1], p[2], p[3]>>
         /\ p[2] \in Appenders(p[1]) /\ p[3] \in Appenders(p[1])
<1>1. CASE p \in NextAppends
  BY <1>1, ListReadTypes DEF NextAppends
<1>2. CASE \E r \in ext_reads(hist) : p \in Neighbours(r)
  <2>1. PICK r \in ext_reads(hist) : p \in Neighbours(r)
    BY <1>2
  <2>2. PICK key, v : key = r[1] /\ v = r[2]
    OBVIOUS
  <2>3. PICK i \in 1..Len(v)-1 :
          \E x \in AppendersOf(key, v[i]) : \E y \in AppendersOf(key, v[i+1]) : p = <<key, x, y>>
    BY <2>1, <2>2 DEF Neighbours
  <2>4. PICK x \in AppendersOf(key, v[i]), y \in AppendersOf(key, v[i+1]) : p = <<key, x, y>>
    BY <2>3
  <2>5. x \in Appenders(key) /\ y \in Appenders(key)
    BY DEF AppendersOf, Appenders
  <2> QED
    BY <2>4, <2>5
<1> QED
  BY <1>1, <1>2 DEF ListOrder

\* Appenders that follow each other in ListOrder follow each other in time.
LEMMA ListOrderTiming ==
  ASSUME NEW tm, ListsExplained(tm), NEW p \in ListOrder
  PROVE  /\ p = <<p[1], p[2], p[3]>>
         /\ p[2] \in Appenders(p[1]) /\ p[3] \in Appenders(p[1])
         /\ Precedes(tm, p[2], p[3])
         /\ \A y \in Appenders(p[1]) :
              (y # p[2] /\ Precedes(tm, y, p[3])) => Precedes(tm, y, p[2])
<1>1. CASE p \in NextAppends
  <2>1. p \in AppendReadFrom /\ p[2] # 0 /\ p[3] \in Appenders(p[1])
    BY <1>1 DEF NextAppends
  <2>2. /\ p = <<p[1], p[2], p[3]>> /\ p[2] \in Appenders(p[1]) /\ Precedes(tm, p[2], p[3])
        /\ \A x \in Appenders(p[1]) : Precedes(tm, x, p[3]) => tm.commit[x] <= tm.commit[p[2]]
    BY <2>1, ListReadTiming
  <2> QED
    BY <2>1, <2>2, EarlierPrecedes
<1>2. CASE \E r \in ext_reads(hist) : p \in Neighbours(r)
  <2>1. PICK r \in ext_reads(hist) : p \in Neighbours(r)
    BY <1>2
  <2>2. PICK key, v, t, n : key = r[1] /\ v = r[2] /\ t = r[3] /\ n = Len(v)
    OBVIOUS
  <2>3. PICK i \in 1..n-1 : \E x \in AppendersOf(key, v[i]) : \E y \in AppendersOf(key, v[i+1]) :
          x # y /\ p = <<key, x, y>>
    BY <2>1, <2>2 DEF Neighbours
  <2>4. PICK by : ListWriters(tm, r, by)
    BY ListWritersExist
  <2>5. n \in Nat /\ t \in Ids(hist)
    BY <2>2, <2>4 DEF ListWriters, IsSeq
  <2>6. i \in 1..n /\ i + 1 \in 1..n /\ i <= i + 1 /\ i \in Int
    BY <2>5
  <2>w. PICK a, b : a = by[i] /\ b = by[i+1]
    OBVIOUS
  <2>7. /\ <<key, v[i], a>> \in AllAppends(hist) /\ <<key, v[i+1], b>> \in AllAppends(hist)
        /\ tm.commit[b] <= tm.begin[t] /\ tm.commit[a] <= tm.commit[b]
    BY <2>2, <2>4, <2>6, <2>w DEF ListWriters
  <2>8. AppendersOf(key, v[i]) = {a} /\ AppendersOf(key, v[i+1]) = {b}
    BY <2>7, OneAppender DEF ListsExplained
  <2>9. p = <<key, a, b>> /\ a # b
    BY <2>3, <2>8
  <2>10. a \in Appenders(key) /\ b \in Appenders(key) /\ a \in Ids(hist) /\ b \in Ids(hist)
    BY <2>7, AppenderFacts DEF ListsExplained
  <2>11. Precedes(tm, a, b)
    BY <2>7, <2>9, <2>10, EarlierPrecedes
  <2>12. ASSUME NEW y \in Appenders(key), y # a, Precedes(tm, y, b) PROVE Precedes(tm, y, a)
    <3>1. y \in Ids(hist) /\ \E e : <<key, e, y>> \in AllAppends(hist)
      BY AppenderFacts DEF ListsExplained
    <3>2. PICK e : <<key, e, y>> \in AllAppends(hist)
      BY <3>1
    <3>3. /\ tm.commit[y] \in Int /\ tm.begin[b] \in Int /\ tm.commit[b] \in Int
          /\ tm.begin[b] < tm.commit[b] /\ tm.begin[t] \in Int /\ tm.commit[a] \in Int
      BY <2>5, <2>10, <3>1, TimingTypes DEF ListsExplained
    <3>4. tm.commit[y] < tm.commit[b] /\ tm.commit[y] <= tm.begin[t]
      BY <2>7, <2>12, <3>3 DEF Precedes
    <3>5. PICK l \in 1..n : by[l] = y
      BY <2>2, <2>4, <3>1, <3>2, <3>4 DEF ListWriters
    <3>6. ~(i + 1 <= l)
      <4> SUFFICES ASSUME i + 1 <= l PROVE FALSE
        OBVIOUS
      <4>1. tm.commit[b] <= tm.commit[y]
        BY <2>2, <2>4, <2>6, <2>w, <3>5 DEF ListWriters
      <4> QED
        BY <3>3, <3>4, <4>1
    <3>7. l <= i
      BY <2>6, <3>6
    <3>8. tm.commit[y] <= tm.commit[a]
      BY <2>2, <2>4, <2>6, <2>w, <3>5, <3>7 DEF ListWriters
    <3> QED
      BY <2>10, <2>12, <3>8, EarlierPrecedes
  <2> QED
    BY <2>9, <2>10, <2>11, <2>12
<1> QED
  BY <1>1, <1>2 DEF ListOrder

-----------------------------------------------------------------------------
(* The loop over the reads raises nothing, and its edges point forward. *)

LEMMA NotBoth ==
  ASSUME NEW tm, ListsExplained(tm), NEW x \in Ids(hist), NEW y \in Ids(hist),
         Precedes(tm, x, y), Precedes(tm, y, x)
  PROVE  FALSE
<1>1. /\ tm.commit[x] \in Int /\ tm.begin[x] \in Int /\ tm.begin[x] < tm.commit[x]
      /\ tm.commit[y] \in Int /\ tm.begin[y] \in Int /\ tm.begin[y] < tm.commit[y]
  BY TimingTypes DEF ListsExplained
<1> QED
  BY <1>1 DEF Precedes

LEMMA ListReadFine ==
  ASSUME NEW tm, ListsExplained(tm), NEW r \in ext_reads(hist)
  PROVE  ~LastUnknown(r) /\ ~ReadAsserts(r)
<1>1. PICK w : LastAppenders(r[1], r[2]) = {w} /\ w # r[3]
  BY LastAppender
<1>2. ~LastUnknown(r)
  BY <1>1, FS_Singleton DEF LastUnknown
<1>3. PICK by : ListWriters(tm, r, by)
  BY ListWritersExist
<1>4. ASSUME NEW i \in DOMAIN r[2] PROVE Cardinality(AppendersOf(r[1], r[2][i])) = 1
  <2>1. i \in 1..Len(r[2])
    BY <1>3 DEF ListWriters, IsSeq
  <2>2. <<r[1], r[2][i], by[i]>> \in AllAppends(hist)
    BY <1>3, <2>1 DEF ListWriters
  <2>3. AppendersOf(r[1], r[2][i]) = {by[i]}
    BY <2>2, OneAppender DEF ListsExplained
  <2> QED
    BY <2>3, FS_Singleton
<1> QED
  BY <1>1, <1>2, <1>4 DEF ReadAsserts

\* Two pairs of ListOrder with the same first or the same second transaction
\* are the same pair.
LEMMA OrderUnique ==
  ASSUME NEW tm, ListsExplained(tm), NEW p \in ListOrder, NEW q \in ListOrder, p[1] = q[1],
         p[2] = q[2] \/ p[3] = q[3]
  PROVE  p = q
<1>1. ASSUME NEW a \in ListOrder, NEW b \in ListOrder, a[1] = b[1], a[2] = b[2],
             a[3] # b[3], Precedes(tm, a[3], b[3])
      PROVE  FALSE
  <2>1. /\ a[3] \in Appenders(b[1]) /\ a[2] \in Appenders(b[1]) /\ Precedes(tm, a[2], a[3])
    BY <1>1, ListOrderTiming
  <2>2. a[2] \in Ids(hist) /\ a[3] \in Ids(hist)
    BY <2>1, AppenderFacts DEF ListsExplained
  <2>3. a[2] # a[3]
    BY <2>1, <2>2, NotBoth
  <2>4. Precedes(tm, a[3], a[2])
    BY <1>1, <2>1, <2>3, ListOrderTiming
  <2> QED
    BY <2>1, <2>2, <2>4, NotBoth
<1>2. ASSUME NEW a \in ListOrder, NEW b \in ListOrder, a[1] = b[1], a[3] = b[3],
             a[2] # b[2], Precedes(tm, a[2], b[2])
      PROVE  FALSE
  <2>1. /\ b[2] \in Appenders(a[1]) /\ a[2] \in Appenders(a[1]) /\ Precedes(tm, b[2], a[3])
    BY <1>2, ListOrderTiming
  <2>2. a[2] \in Ids(hist) /\ b[2] \in Ids(hist)
    BY <2>1, AppenderFacts DEF ListsExplained
  <2>3. Precedes(tm, b[2], a[2])
    BY <1>2, <2>1, ListOrderTiming
  <2> QED
    BY <1>2, <2>2, <2>3, NotBoth
<1>3. /\ p = <<p[1], p[2], p[3]>> /\ q = <<q[1], q[2], q[3]>>
      /\ p[2] \in Appenders(p[1]) /\ p[3] \in Appenders(p[1])
      /\ q[2] \in Appenders(p[1]) /\ q[3] \in Appenders(p[1])
  BY ListOrderTiming
<1>4. CASE p[2] = q[2]
  <2>1. p[3] = q[3]
    BY <1>1, <1>3, <1>4, AppendersOrdered
  <2> QED
    BY <1>3, <1>4, <2>1
<1>5. CASE p[3] = q[3]
  <2>1. p[2] = q[2]
    BY <1>2, <1>3, <1>5, AppendersOrdered
  <2> QED
    BY <1>3, <1>5, <2>1
<1> QED
  BY <1>4, <1>5

LEMMA NoListDivergence ==
  ASSUME NEW tm, ListsExplained(tm)
  PROVE  ~ListsDiverge
  BY OrderUnique DEF ListsDiverge

\* The edges of the loop over the reads.
ListLoopEdges == {<<f[2], f[3], "wr">> : f \in AppendReadFrom} \cup UnseenEdges

ListReadsFine == \A r \in ext_reads(hist) : ~LastUnknown(r) /\ ~ReadAsserts(r)

LEMMA ListLoopValid ==
  ASSUME WellFormed(hist), ListReadsFine
  PROVE  ListLoopEdges \in SUBSET ValidEdges
<1>1. ASSUME NEW f \in AppendReadFrom PROVE <<f[2], f[3], "wr">> \in ValidEdges
  <2>1. PICK r \in ext_reads(hist) : \E w \in LastAppenders(r[1], r[2]) : f = <<r[1], w, r[3]>>
    BY DEF AppendReadFrom
  <2>2. f[2] \in LastAppenders(r[1], r[2]) /\ f[3] = r[3]
    BY <2>1
  <2>3. f[2] # f[3]
    BY <2>2 DEF ListReadsFine, ReadAsserts
  <2>4. f[2] \in Txn /\ f[3] \in Txn \ {0}
    BY ListReadTypes
  <2> QED
    BY <2>3, <2>4, ValidEdge DEF EdgeTypes, CbTypes
<1>2. ASSUME NEW e \in UnseenEdges PROVE e \in ValidEdges
  <2>1. PICK r \in ext_reads(hist) : \E w \in AllAppends(hist) :
          w[3] # r[3] /\ e = <<r[3], w[3], "rw">>
    BY DEF UnseenEdges
  <2>2. PICK w \in AllAppends(hist) : w[3] # r[3] /\ e = <<r[3], w[3], "rw">>
    BY <2>1
  <2>3. r[3] \in Ids(hist) /\ w[3] \in Appenders(w[1])
    BY DEF ext_reads, Appenders
  <2>4. r[3] \in Txn /\ w[3] \in Txn \ {0}
    BY <2>3, AppenderFacts, IdsFacts
  <2> QED
    BY <2>2, <2>4, ValidEdge DEF EdgeTypes
<1> QED
  BY <1>1, <1>2 DEF ListLoopEdges

LEMMA ListReadEdges ==
  ASSUME NEW tm, ListsExplained(tm), NEW e \in ListLoopEdges
  PROVE  Forward(tm, e)
<1>1. CASE \E f \in AppendReadFrom : e = <<f[2], f[3], "wr">>
  <2>1. PICK f \in AppendReadFrom : e = <<f[2], f[3], "wr">>
    BY <1>1
  <2>2. f[2] = 0 \/ Precedes(tm, f[2], f[3])
    BY ListReadTiming
  <2> QED
    BY <2>1, <2>2 DEF Forward
<1>2. CASE e \in UnseenEdges
  <2>1. PICK r \in ext_reads(hist) : \E w \in AllAppends(hist) :
          w[1] = r[1] /\ w[2] \notin Range(r[2]) /\ w[3] # r[3] /\ e = <<r[3], w[3], "rw">>
    BY <1>2 DEF UnseenEdges
  <2>2. PICK w \in AllAppends(hist) :
          w[1] = r[1] /\ w[2] \notin Range(r[2]) /\ w[3] # r[3] /\ e = <<r[3], w[3], "rw">>
    BY <2>1
  <2>3. PICK by : ListWriters(tm, r, by)
    BY ListWritersExist
  <2>4. w = <<r[1], w[2], w[3]>>
    BY <2>2, AllAppendsFacts
  <2>5. w[3] \in Appenders(r[1])
    BY <2>4, AppenderFacts DEF ListsExplained
  <2>6. w[3] \in Ids(hist) /\ r[3] \in Ids(hist)
    BY <2>3, <2>5, AppenderFacts DEF ListsExplained, ListWriters
  <2>7. ~(tm.commit[w[3]] <= tm.begin[r[3]])
    <3> SUFFICES ASSUME tm.commit[w[3]] <= tm.begin[r[3]] PROVE FALSE
      OBVIOUS
    <3>1. PICK i \in 1..Len(r[2]) : r[2][i] = w[2]
      BY <2>3, <2>4, <2>6 DEF ListWriters
    <3>2. i \in DOMAIN r[2]
      BY <2>3 DEF ListWriters, IsSeq
    <3> QED
      BY <2>2, <3>1, <3>2 DEF Range
  <2>8. tm.begin[r[3]] < tm.commit[w[3]]
    BY <2>6, <2>7, TimingTypes DEF ListsExplained
  <2> QED
    BY <2>2, <2>8 DEF Forward
<1> QED
  BY <1>1, <1>2 DEF ListLoopEdges

LEMMA ListSessionEdges ==
  ASSUME NEW tm, ListsExplained(tm), NEW e \in SessionEdges
  PROVE  Forward(tm, e)
<1>1. StrongSession /\ \E p \in SessionPairs(hist) : e = <<p[1], p[2], "cb">>
  BY DEF SessionEdges
<1>2. PICK p \in SessionPairs(hist) : e = <<p[1], p[2], "cb">>
  BY <1>1
<1>3. PICK s \in hist.sessions : \E i \in 1..Len(s)-1 : p = <<s[i], s[i+1]>>
  BY DEF SessionPairs
<1>4. PICK i \in 1..Len(s)-1 : p = <<s[i], s[i+1]>>
  BY <1>3
<1>5. s \in Seq(1..NTxns)
  BY DEF ListsExplained, WellFormed
<1>6. Len(s) \in Nat /\ DOMAIN s = 1..Len(s)
  BY <1>5, LenProperties
<1>7. i \in DOMAIN s /\ i + 1 \in DOMAIN s /\ i < i + 1
  BY <1>6
<1>8. tm.commit[s[i]] <= tm.begin[s[i+1]]
  BY <1>1, <1>7 DEF ListsExplained, ExplainsLists, SessionsOrdered
<1> QED
  BY <1>2, <1>4, <1>8 DEF Forward, Precedes

-----------------------------------------------------------------------------
(* The invariant. *)

\* A chain is a sequence of transactions that append to its key.
ChainsOfAppenders ==
  \A c \in chains :
    /\ c = <<c[1], c[2]>>
    /\ c[2] \in Seq(Txn \ {0}) /\ c[2] # << >>
    /\ \A i \in DOMAIN c[2] : c[2][i] \in Appenders(c[1])

AppendersInChains ==
  \A w \in AllAppends(hist) :
    \E c \in chains : c[1] = w[1] /\ \E i \in DOMAIN c[2] : c[2][i] = w[3]

ListChains ==
  /\ readfrom = AppendReadFrom
  /\ ChainsOfAppenders
  /\ AppendersInChains
  /\ NoRepetition
  /\ ListOrder = Linked \cup wwpairs
  /\ Linked \cap wwpairs = {}

\* Neither the builder nor the checker has stopped at a history that tm
\* explains, the chains are pieces of the order of the lists, all the edges
\* point forward in time, and so does one side of each constraint.
AgreesLists(tm) ==
  /\ bpc \in {"known", "reads", "combine", "coalesce", "built"}
  /\ verdict # "reject"
  /\ edges \subseteq ValidEdges
  /\ \A e \in edges : Forward(tm, e)
  /\ bpc \in {"combine", "coalesce", "built"} => ListChains
  /\ bpc \in {"coalesce", "built"} => wwpairs = {}
  /\ bpc = "built" => /\ ValidConstraints(conn)
                      /\ \A c \in conn : \/ \A e \in c[1] : Forward(tm, e)
                                         \/ \A e \in c[2] : Forward(tm, e)

ListInv ==
  /\ hist \in Histories
  /\ \A tm \in Timings(NTxns) : ListsExplained(tm) => AgreesLists(tm)

LEMMA ListInitInv == AInit => ListInv
  BY DEF AInit, ListInv, AgreesLists

\* What the lists tell does not change.
LEMMA ListsUnchanged ==
  ASSUME hist' = hist
  PROVE  /\ AppendReadFrom' = AppendReadFrom
         /\ ListOrder' = ListOrder
         /\ \A key : Appenders(key)' = Appenders(key)
         /\ \A tm : ListsExplained(tm)' = ListsExplained(tm)
<1>1. /\ \A key : Appenders(key)' = Appenders(key)
      /\ \A key, v : AppendersOf(key, v)' = AppendersOf(key, v)
  BY DEF Appenders, AppendersOf
<1>2. \A key, v : LastAppenders(key, v)' = LastAppenders(key, v)
  BY <1>1 DEF LastAppenders
<1>3. AppendReadFrom' = AppendReadFrom
  BY <1>2 DEF AppendReadFrom
<1>4. \A r : Neighbours(r)' = Neighbours(r)
  BY DEF Neighbours, AppendersOf
<1>5. NextAppends' = NextAppends
  BY <1>1, <1>3 DEF NextAppends
<1>6. ListOrder' = ListOrder
  BY <1>4, <1>5 DEF ListOrder
<1>7. \A tm : ListsExplained(tm)' = ListsExplained(tm)
  BY DEF ListsExplained, ExplainsLists, AppendedKeys, SnapshotList
<1> QED
  BY <1>1, <1>3, <1>6, <1>7

\* The state in which a pair is combined, also under times that explain it.
SoundChains == WellFormed(hist) /\ ListChains
CombiningLists(tm) == ListsExplained(tm) /\ ListChains

LEMMA CombiningSound ==
  ASSUME NEW tm, CombiningLists(tm)
  PROVE  SoundChains
  BY DEF CombiningLists, ListsExplained, SoundChains

LEMMA ListChainEnds ==
  ASSUME SoundChains, NEW c \in chains
  PROVE  /\ c[2] \in Seq(Txn \ {0}) /\ c[2] # << >>
         /\ Len(c[2]) \in Nat /\ DOMAIN c[2] = 1..Len(c[2])
         /\ 1 \in DOMAIN c[2] /\ Len(c[2]) \in DOMAIN c[2]
         /\ First(c[2]) = c[2][1] /\ Final(c[2]) = c[2][Len(c[2])]
         /\ \A i \in DOMAIN c[2] : c[2][i] \in Appenders(c[1])
<1>1. c[2] \in Seq(Txn \ {0}) /\ c[2] # << >>
      /\ \A i \in DOMAIN c[2] : c[2][i] \in Appenders(c[1])
  BY DEF SoundChains, ListChains, ChainsOfAppenders
<1> QED
  BY <1>1, ChainFacts

LEMMA LinkInOrder ==
  ASSUME SoundChains, NEW c \in chains, NEW i \in 1..Len(c[2])-1
  PROVE  <<c[1], c[2][i], c[2][i+1]>> \in Linked /\ <<c[1], c[2][i], c[2][i+1]>> \in ListOrder
<1>1. <<c[1], c[2][i], c[2][i+1]>> \in Linked
  BY LinksFacts DEF Linked
<1> QED
  BY <1>1 DEF SoundChains, ListChains

LEMMA AppenderInChain ==
  ASSUME SoundChains, NEW key, NEW x \in Appenders(key)
  PROVE  \E c \in chains : c[1] = key /\ \E i \in DOMAIN c[2] : c[2][i] = x
<1>1. PICK e : <<key, e, x>> \in AllAppends(hist)
  BY AppenderFacts DEF SoundChains
<1> PICK w : w = <<key, e, x>>
  OBVIOUS
<1>2. w \in AllAppends(hist) /\ w[1] = key /\ w[3] = x
  BY <1>1
<1> QED
  BY <1>2 DEF SoundChains, ListChains, AppendersInChains

\* The first transaction of a pair still to be combined ends a chain ...
LEMMA PairEndsList ==
  ASSUME NEW tm, CombiningLists(tm), NEW p \in wwpairs
  PROVE  \E c \in chains : c \in find_chain_by_last_txn(p[1], p[2])
<1>1. p \in ListOrder /\ p \notin Linked
  BY DEF CombiningLists, ListChains
<1>2. p = <<p[1], p[2], p[3]>> /\ p[2] \in Appenders(p[1])
  BY <1>1, ListOrderTiming DEF CombiningLists
<1>3. PICK c \in chains : c[1] = p[1] /\ \E i \in DOMAIN c[2] : c[2][i] = p[2]
  BY <1>2, CombiningSound, AppenderInChain
<1>4. PICK i \in DOMAIN c[2] : c[2][i] = p[2]
  BY <1>3
<1>5. Len(c[2]) \in Nat /\ DOMAIN c[2] = 1..Len(c[2]) /\ Final(c[2]) = c[2][Len(c[2])]
  BY CombiningSound, ListChainEnds
<1>6. i = Len(c[2])
  <2> SUFFICES ASSUME i # Len(c[2]) PROVE FALSE
    OBVIOUS
  <2>1. i \in 1..Len(c[2])-1
    BY <1>5
  <2>x. PICK x : x = <<c[1], c[2][i], c[2][i+1]>>
    OBVIOUS
  <2>2. x \in Linked /\ x \in ListOrder
    BY <2>1, <2>x, CombiningSound, LinkInOrder
  <2>3. x[1] = p[1] /\ x[2] = p[2]
    BY <1>3, <1>4, <2>x
  <2>4. x = p
    BY <1>1, <2>2, <2>3, OrderUnique DEF CombiningLists
  <2> QED
    BY <1>1, <2>2, <2>4
<1> QED
  BY <1>3, <1>4, <1>5, <1>6 DEF find_chain_by_last_txn

\* ... and the second one begins a chain.
LEMMA PairBeginsList ==
  ASSUME NEW tm, CombiningLists(tm), NEW p \in wwpairs
  PROVE  \E c \in chains : c \in find_chain_by_first_txn(p[1], p[3])
<1>1. p \in ListOrder /\ p \notin Linked
  BY DEF CombiningLists, ListChains
<1>2. p = <<p[1], p[2], p[3]>> /\ p[3] \in Appenders(p[1])
  BY <1>1, ListOrderTiming DEF CombiningLists
<1>3. PICK c \in chains : c[1] = p[1] /\ \E i \in DOMAIN c[2] : c[2][i] = p[3]
  BY <1>2, CombiningSound, AppenderInChain
<1>4. PICK i \in DOMAIN c[2] : c[2][i] = p[3]
  BY <1>3
<1>5. Len(c[2]) \in Nat /\ DOMAIN c[2] = 1..Len(c[2]) /\ First(c[2]) = c[2][1]
  BY CombiningSound, ListChainEnds
<1>6. i = 1
  <2> SUFFICES ASSUME i # 1 PROVE FALSE
    OBVIOUS
  <2>1. i - 1 \in 1..Len(c[2])-1 /\ (i - 1) + 1 = i
    BY <1>5
  <2>x. PICK x : x = <<c[1], c[2][i-1], c[2][i]>>
    OBVIOUS
  <2>2. x \in Linked /\ x \in ListOrder
    BY <2>1, <2>x, CombiningSound, LinkInOrder
  <2>3. x[1] = p[1] /\ x[3] = p[3]
    BY <1>3, <1>4, <2>x
  <2>4. x = p
    BY <1>1, <2>2, <2>3, OrderUnique DEF CombiningLists
  <2> QED
    BY <1>1, <2>2, <2>4
<1> QED
  BY <1>3, <1>4, <1>5, <1>6 DEF find_chain_by_first_txn

\* The times along a chain go up.
LEMMA ChainGoesUp ==
  ASSUME NEW tm, CombiningLists(tm), NEW c \in chains, NEW i \in DOMAIN c[2]
  PROVE  tm.commit[First(c[2])] <= tm.commit[c[2][i]]
<1>1. /\ Len(c[2]) \in Nat /\ DOMAIN c[2] = 1..Len(c[2]) /\ 1 \in DOMAIN c[2]
      /\ First(c[2]) = c[2][1] /\ \A j \in DOMAIN c[2] : c[2][j] \in Appenders(c[1])
  BY CombiningSound, ListChainEnds
<1>2. \A j \in DOMAIN c[2] : c[2][j] \in Ids(hist) /\ tm.commit[c[2][j]] \in Int
                             /\ tm.begin[c[2][j]] \in Int
                             /\ tm.begin[c[2][j]] < tm.commit[c[2][j]]
  BY <1>1, AppenderFacts, TimingTypes DEF CombiningLists, ListsExplained
<1> DEFINE B == {j \in DOMAIN c[2] : ~(tm.commit[First(c[2])] <= tm.commit[c[2][j]])}
<1> HIDE DEF B
<1> SUFFICES ASSUME B # {} PROVE FALSE
  BY DEF B
<1>3. B \in SUBSET Nat
  BY <1>1 DEF B
<1>4. PICK j \in B : \A l \in B : j <= l
  BY <1>3, LeastNat
<1>5. j \in DOMAIN c[2] /\ j # 1
  BY <1>1, <1>2 DEF B
<1>6. /\ j - 1 \in DOMAIN c[2] /\ j - 1 \in 1..Len(c[2])-1 /\ (j - 1) + 1 = j
      /\ ~(j <= j - 1)
  BY <1>1, <1>5
<1>7. tm.commit[First(c[2])] <= tm.commit[c[2][j-1]]
  BY <1>4, <1>6 DEF B
<1>8. <<c[1], c[2][j-1], c[2][j]>> \in ListOrder
  BY <1>6, CombiningSound, LinkInOrder
<1>9. Precedes(tm, c[2][j-1], c[2][j])
  BY <1>8, ListOrderTiming DEF CombiningLists
<1>10. tm.commit[First(c[2])] <= tm.commit[c[2][j]]
  <2>1. tm.commit[c[2][j-1]] <= tm.begin[c[2][j]]
    BY <1>9 DEF Precedes
  <2>2. /\ tm.commit[First(c[2])] \in Int /\ tm.commit[c[2][j-1]] \in Int
        /\ tm.begin[c[2][j]] \in Int /\ tm.commit[c[2][j]] \in Int
        /\ tm.begin[c[2][j]] < tm.commit[c[2][j]]
    BY <1>1, <1>2, <1>5, <1>6
  <2> QED
    BY <1>7, <2>1, <2>2
<1> QED
  BY <1>4, <1>10 DEF B

LEMMA AllJoinable ==
  ASSUME NEW tm, CombiningLists(tm), NEW p \in wwpairs
  PROVE  Joinable(p)
<1>1. PICK c \in chains : c \in find_chain_by_last_txn(p[1], p[2])
  BY PairEndsList
<1>2. PICK d \in chains : d \in find_chain_by_first_txn(p[1], p[3])
  BY PairBeginsList
<1>3. Final(c[2]) = p[2] /\ First(d[2]) = p[3]
  BY <1>1, <1>2 DEF find_chain_by_last_txn, find_chain_by_first_txn
<1>4. /\ p[2] \in Appenders(p[1]) /\ p[3] \in Appenders(p[1]) /\ Precedes(tm, p[2], p[3])
  <2>1. p \in ListOrder
    BY DEF CombiningLists, ListChains
  <2> QED
    BY <2>1, ListOrderTiming DEF CombiningLists
<1>5. c # d
  <2> SUFFICES ASSUME c = d PROVE FALSE
    OBVIOUS
  <2>1. tm.commit[p[3]] <= tm.commit[p[2]]
    BY <1>3, CombiningSound, ListChainEnds, ChainGoesUp
  <2>2. p[2] \in Ids(hist) /\ p[3] \in Ids(hist)
    BY <1>4, AppenderFacts DEF CombiningLists, ListsExplained
  <2>3. /\ tm.commit[p[2]] \in Int /\ tm.commit[p[3]] \in Int /\ tm.begin[p[3]] \in Int
        /\ tm.begin[p[3]] < tm.commit[p[3]]
    BY <2>2, TimingTypes DEF CombiningLists, ListsExplained
  <2> QED
    BY <1>4, <2>1, <2>3 DEF Precedes
<1> QED
  BY <1>1, <1>2, <1>5 DEF Joinable

\* Combining a pair keeps the chains pieces of the order of the lists.
LEMMA JoinLists ==
  ASSUME SoundChains, NEW p \in wwpairs,
         NEW c1 \in chains, NEW c2 \in chains, c1 # c2, c1[1] = p[1], c2[1] = p[1],
         Final(c1[2]) = p[2], First(c2[2]) = p[3],
         chains' = (chains \ {c1, c2}) \cup {<<p[1], c1[2] \o c2[2]>>},
         wwpairs' = wwpairs \ {p}, UNCHANGED <<hist, readfrom>>
  PROVE  ListChains'
<1>a. PICK a, b, ab, new, n :
        a = c1[2] /\ b = c2[2] /\ ab = a \o b /\ new = <<p[1], ab>> /\ n = Len(a)
  OBVIOUS
<1>1. /\ ChainsOfAppenders /\ AppendersInChains /\ NoRepetition
      /\ ListOrder = Linked \cup wwpairs /\ Linked \cap wwpairs = {}
  BY DEF SoundChains, ListChains
<1>2. a \in Seq(Txn \ {0}) /\ a # << >> /\ b \in Seq(Txn \ {0}) /\ b # << >>
  BY <1>1, <1>a DEF ChainsOfAppenders
<1>3. n \in Nat /\ DOMAIN a = 1..n /\ DOMAIN b = 1..Len(b)
  BY <1>2, <1>a, ChainFacts
<1>4. /\ ab \in Seq(Txn \ {0}) /\ ab # << >>
      /\ DOMAIN ab = 1..n + Len(b)
      /\ \A i \in DOMAIN a : i \in DOMAIN ab /\ ab[i] = a[i]
      /\ \A i \in DOMAIN b : n + i \in DOMAIN ab /\ ab[n + i] = b[i]
      /\ \A i \in DOMAIN ab : i \in DOMAIN a \/ (i > n /\ i - n \in DOMAIN b)
  <2>1. ab = a \o b /\ n = Len(a)
    BY <1>a
  <2> QED
    BY ONLY <1>2, <2>1, ConcatFacts
<1>5. new = <<new[1], new[2]>> /\ new[1] = p[1] /\ new[2] = ab /\ new \in chains'
  BY <1>a
<1>6. \A c \in chains' : c = new \/ c \in chains
  BY <1>a
<1>7. \A c \in chains : c = c1 \/ c = c2 \/ c \in chains'
  OBVIOUS
<1>8. p \in ListOrder /\ p = <<p[1], p[2], p[3]>>
  BY <1>1, ListOrderTypes DEF SoundChains
<1>9. \A i \in DOMAIN ab : i \notin DOMAIN a => i - n \in DOMAIN b /\ ab[i] = b[i - n]
  <2> SUFFICES ASSUME NEW i \in DOMAIN ab, i \notin DOMAIN a
               PROVE  i - n \in DOMAIN b /\ ab[i] = b[i - n]
    OBVIOUS
  <2>1. i - n \in DOMAIN b
    BY <1>4
  <2>2. n + (i - n) = i
    BY <1>3, <1>4
  <2> QED
    BY <1>4, <2>1, <2>2
<1>u. \A key : Appenders(key)' = Appenders(key)
  BY ListsUnchanged
<1>10. ChainsOfAppenders'
  <2> SUFFICES ASSUME NEW c \in chains'
               PROVE  /\ c = <<c[1], c[2]>>
                      /\ c[2] \in Seq(Txn \ {0}) /\ c[2] # << >>
                      /\ \A i \in DOMAIN c[2] : c[2][i] \in Appenders(c[1])
    BY <1>u DEF ChainsOfAppenders
  <2>1. CASE c = new
    <3>1. \A i \in DOMAIN a : a[i] \in Appenders(p[1])
      BY <1>1, <1>a DEF ChainsOfAppenders
    <3>2. \A i \in DOMAIN b : b[i] \in Appenders(p[1])
      BY <1>1, <1>a DEF ChainsOfAppenders
    <3>3. \A i \in DOMAIN ab : ab[i] \in Appenders(p[1])
      BY <1>4, <1>9, <3>1, <3>2
    <3> QED
      BY <1>4, <1>5, <2>1, <3>3
  <2>2. CASE c \in chains
    BY <1>1, <2>2 DEF ChainsOfAppenders
  <2> QED
    BY <1>6, <2>1, <2>2
<1>11. AppendersInChains'
  <2> SUFFICES ASSUME NEW w \in AllAppends(hist)
               PROVE  \E c \in chains' : c[1] = w[1] /\ \E i \in DOMAIN c[2] : c[2][i] = w[3]
    BY DEF AppendersInChains
  <2>1. PICK c \in chains : c[1] = w[1] /\ \E i \in DOMAIN c[2] : c[2][i] = w[3]
    BY <1>1 DEF AppendersInChains
  <2>2. PICK i \in DOMAIN c[2] : c[2][i] = w[3]
    BY <2>1
  <2>3. CASE c = c1
    <3>1. i \in DOMAIN a /\ a[i] = w[3]
      BY <1>a, <2>2, <2>3
    <3>2. i \in DOMAIN new[2] /\ new[2][i] = w[3]
      BY <1>4, <1>5, <3>1
    <3> QED
      BY <1>5, <2>1, <2>3, <3>2
  <2>4. CASE c = c2
    <3>1. i \in DOMAIN b /\ b[i] = w[3]
      BY <1>a, <2>2, <2>4
    <3>2. n + i \in DOMAIN new[2] /\ new[2][n + i] = w[3]
      BY <1>4, <1>5, <3>1
    <3> QED
      BY <1>5, <2>1, <2>4, <3>2
  <2>5. CASE c \in chains'
    BY <2>1, <2>5
  <2> QED
    BY <1>7, <2>3, <2>4, <2>5
<1>12. NoRepetition' /\ Linked' = Linked \cup {p}
  <2>1. Distinct(chains)
    BY <1>1 DEF NoRepetition
  <2>2. /\ c1[2] \in Seq(Txn \ {0}) /\ c1[2] # << >>
        /\ c2[2] \in Seq(Txn \ {0}) /\ c2[2] # << >>
    BY <1>2, <1>a
  <2>3. chains' = Joined(chains, c1, c2)
    BY DEF Joined
  <2>c. PICK C : C = chains
    OBVIOUS
  <2>4. c1 \in C /\ c2 \in C /\ c1 # c2 /\ c1[1] = c2[1] /\ Distinct(C)
    BY <2>1, <2>c
  <2>5. /\ Distinct(Joined(C, c1, c2))
        /\ LinksOf(Joined(C, c1, c2)) =
             LinksOf(C) \cup {<<c1[1], Final(c1[2]), First(c2[2])>>}
    BY ONLY <2>2, <2>4, JoinChains
  <2>6. p = <<c1[1], Final(c1[2]), First(c2[2])>>
    BY <1>8
  <2>7. Distinct(chains') /\ LinksOf(chains') = LinksOf(chains) \cup {p}
    BY <2>3, <2>5, <2>6, <2>c
  <2> QED
    BY <2>7 DEF NoRepetition, Linked
<1>13. readfrom' = AppendReadFrom' /\ ListOrder' = ListOrder
  BY ListsUnchanged DEF SoundChains, ListChains
<1>14. ListOrder' = Linked' \cup wwpairs' /\ Linked' \cap wwpairs' = {}
  BY <1>1, <1>8, <1>12, <1>13
<1> QED
  BY <1>10, <1>11, <1>12, <1>13, <1>14 DEF ListChains

LEMMA CombineLists ==
  ASSUME SoundChains, CombineWrites
  PROVE  ListChains'
<1>1. UNCHANGED <<hist, readfrom>>
  BY DEF CombineWrites
<1>2. PICK p \in wwpairs :
        \E c1 \in find_chain_by_last_txn(p[1], p[2]),
           c2 \in find_chain_by_first_txn(p[1], p[3]) :
          /\ c1 # c2
          /\ chains' = (chains \ {c1, c2}) \cup {<<p[1], c1[2] \o c2[2]>>}
          /\ wwpairs' = wwpairs \ {p}
  BY DEF CombineWrites
<1>3. PICK c1 \in find_chain_by_last_txn(p[1], p[2]),
           c2 \in find_chain_by_first_txn(p[1], p[3]) :
          /\ c1 # c2
          /\ chains' = (chains \ {c1, c2}) \cup {<<p[1], c1[2] \o c2[2]>>}
          /\ wwpairs' = wwpairs \ {p}
  BY <1>2
<1>4. /\ c1 \in chains /\ c1[1] = p[1] /\ Final(c1[2]) = p[2]
      /\ c2 \in chains /\ c2[1] = p[1] /\ First(c2[2]) = p[3]
  BY DEF find_chain_by_last_txn, find_chain_by_first_txn
<1> QED
  BY <1>1, <1>3, <1>4, JoinLists

\* The chains that combine_writes starts from.
LEMMA SingleAppenders ==
  ASSUME WellFormed(hist), AReadLoop
  PROVE  ListChains'
<1>1. /\ chains' = {<<w[1], <<w[3]>>>> : w \in AllAppends(hist)}
      /\ readfrom' = AppendReadFrom /\ wwpairs' = ListOrder /\ hist' = hist
  BY DEF AReadLoop
<1>2. \A w \in AllAppends(hist) : w[3] \in Txn \ {0} /\ w[3] \in Appenders(w[1])
  <2> TAKE w \in AllAppends(hist)
  <2>1. w[3] \in Appenders(w[1])
    BY DEF Appenders
  <2> QED
    BY <2>1, AppenderFacts
<1>3. \A x : Len(<<x>>) = 1 /\ DOMAIN <<x>> = {1} /\ <<x>>[1] = x /\ <<x>> # << >>
  OBVIOUS
<1>4. /\ \A key : Appenders(key)' = Appenders(key)
      /\ AppendReadFrom' = AppendReadFrom /\ ListOrder' = ListOrder
  BY <1>1, ListsUnchanged
<1>5. ChainsOfAppenders'
  <2> SUFFICES ASSUME NEW w \in AllAppends(hist), NEW c, c = <<w[1], <<w[3]>>>>
               PROVE  /\ c = <<c[1], c[2]>>
                      /\ c[2] \in Seq(Txn \ {0}) /\ c[2] # << >>
                      /\ \A i \in DOMAIN c[2] : c[2][i] \in Appenders(c[1])
    BY <1>1, <1>4 DEF ChainsOfAppenders
  <2>1. c[1] = w[1] /\ c[2] = <<w[3]>> /\ c[2] \in Seq(Txn \ {0})
    BY <1>2
  <2> QED
    BY <1>2, <1>3, <2>1
<1>6. AppendersInChains'
  <2> SUFFICES ASSUME NEW w \in AllAppends(hist)
               PROVE  \E c \in chains' : c[1] = w[1] /\ \E i \in DOMAIN c[2] : c[2][i] = w[3]
    BY <1>1 DEF AppendersInChains
  <2>c. PICK c : c = <<w[1], <<w[3]>>>>
    OBVIOUS
  <2>1. c \in chains' /\ c[1] = w[1] /\ c[2] = <<w[3]>>
    BY <1>1, <2>c
  <2> QED
    BY <1>3, <2>1
<1>7. NoRepetition'
  BY <1>1, <1>3 DEF NoRepetition, Distinct
<1>8. Linked' = {}
  BY <1>1, <1>3 DEF Linked, LinksOf
<1> QED
  BY <1>1, <1>4, <1>5, <1>6, <1>7, <1>8 DEF ListChains

-----------------------------------------------------------------------------
(* The edges and the constraints that come from the chains. *)

\* Who read a list begins before a later appender commits.
LEMMA ReaderBeforeAppender ==
  ASSUME NEW tm, ListsExplained(tm), NEW f \in AppendReadFrom, f[2] \in Appenders(f[1]),
         NEW x \in Appenders(f[1]), Precedes(tm, f[2], x)
  PROVE  tm.begin[f[3]] < tm.commit[x]
<1>1. f[3] \in Ids(hist) /\ x \in Ids(hist) /\ f[2] \in Ids(hist)
  BY ListReadTiming, AppenderFacts DEF ListsExplained
<1>2. /\ tm.commit[x] \in Int /\ tm.begin[x] \in Int /\ tm.begin[x] < tm.commit[x]
      /\ tm.commit[f[2]] \in Int /\ tm.begin[f[3]] \in Int
  BY <1>1, TimingTypes DEF ListsExplained
<1>3. ~(tm.commit[x] <= tm.commit[f[2]])
  BY <1>2 DEF Precedes
<1>4. ~Precedes(tm, x, f[3])
  BY <1>3, ListReadTiming
<1> QED
  BY <1>2, <1>4 DEF Precedes

LEMMA InferredFacts ==
  ASSUME SoundChains, NEW e \in InferredEdges
  PROVE  \E f \in AppendReadFrom : \E g \in ListOrder :
           g[1] = f[1] /\ g[2] = f[2] /\ g[3] # f[3] /\ e = <<f[3], g[3], "rw">>
<1>1. PICK c \in chains : \E i \in 1..Len(c[2])-1 : \E f \in readfrom :
        /\ f[1] = c[1] /\ f[2] = c[2][i] /\ f[3] # c[2][i+1] /\ e = <<f[3], c[2][i+1], "rw">>
  BY DEF InferredEdges
<1>2. PICK i \in 1..Len(c[2])-1 : \E f \in readfrom :
        /\ f[1] = c[1] /\ f[2] = c[2][i] /\ f[3] # c[2][i+1] /\ e = <<f[3], c[2][i+1], "rw">>
  BY <1>1
<1>3. PICK f \in readfrom :
        /\ f[1] = c[1] /\ f[2] = c[2][i] /\ f[3] # c[2][i+1] /\ e = <<f[3], c[2][i+1], "rw">>
  BY <1>2
<1>g. PICK g : g = <<c[1], c[2][i], c[2][i+1]>>
  OBVIOUS
<1>4. g[1] = f[1] /\ g[2] = f[2] /\ g[3] # f[3] /\ e = <<f[3], g[3], "rw">>
  BY <1>3, <1>g
<1>5. g \in ListOrder
  BY <1>g, LinkInOrder
<1>6. f \in AppendReadFrom
  BY DEF SoundChains, ListChains
<1> QED
  BY <1>4, <1>5, <1>6

LEMMA InferredValid ==
  ASSUME SoundChains
  PROVE  InferredEdges \in SUBSET ValidEdges
<1> SUFFICES ASSUME NEW e \in InferredEdges PROVE e \in ValidEdges
  OBVIOUS
<1>1. PICK f \in AppendReadFrom : \E g \in ListOrder : g[3] # f[3] /\ e = <<f[3], g[3], "rw">>
  BY InferredFacts
<1>2. PICK g \in ListOrder : g[3] # f[3] /\ e = <<f[3], g[3], "rw">>
  BY <1>1
<1>3. f[3] \in Txn \ {0} /\ g[3] \in Txn \ {0}
  BY ListReadTypes, ListOrderTypes, AppenderFacts DEF SoundChains
<1> QED
  BY <1>2, <1>3, ValidEdge DEF EdgeTypes

LEMMA InferredLists ==
  ASSUME NEW tm, CombiningLists(tm), NEW e \in InferredEdges
  PROVE  Forward(tm, e)
<1>1. PICK f \in AppendReadFrom : \E g \in ListOrder :
        g[1] = f[1] /\ g[2] = f[2] /\ g[3] # f[3] /\ e = <<f[3], g[3], "rw">>
  BY CombiningSound, InferredFacts
<1>2. PICK g \in ListOrder :
        g[1] = f[1] /\ g[2] = f[2] /\ g[3] # f[3] /\ e = <<f[3], g[3], "rw">>
  BY <1>1
<1>3. g[2] \in Appenders(g[1]) /\ g[3] \in Appenders(g[1]) /\ Precedes(tm, g[2], g[3])
  BY ListOrderTiming DEF CombiningLists
<1>4. tm.begin[f[3]] < tm.commit[g[3]]
  BY <1>2, <1>3, ReaderBeforeAppender DEF CombiningLists
<1> QED
  BY <1>2, <1>4 DEF Forward

\* An appender that is not in the chain comes before it or after it.
LEMMA OutsideList ==
  ASSUME NEW tm, CombiningLists(tm), NEW c \in chains,
         NEW y \in Appenders(c[1]), \A i \in DOMAIN c[2] : c[2][i] # y
  PROVE  Precedes(tm, y, First(c[2])) \/ Precedes(tm, Final(c[2]), y)
<1> SUFFICES ASSUME ~Precedes(tm, Final(c[2]), y) PROVE Precedes(tm, y, First(c[2]))
  OBVIOUS
<1>1. /\ Len(c[2]) \in Nat /\ DOMAIN c[2] = 1..Len(c[2])
      /\ 1 \in DOMAIN c[2] /\ Len(c[2]) \in DOMAIN c[2]
      /\ First(c[2]) = c[2][1] /\ Final(c[2]) = c[2][Len(c[2])]
      /\ \A i \in DOMAIN c[2] : c[2][i] \in Appenders(c[1])
  BY CombiningSound, ListChainEnds
<1>2. Precedes(tm, y, c[2][Len(c[2])])
  BY <1>1, AppendersOrdered DEF CombiningLists
<1> DEFINE B == {i \in DOMAIN c[2] : Precedes(tm, y, c[2][i])}
<1>3. B \in SUBSET Nat /\ B # {}
  BY <1>1, <1>2
<1>4. PICK i \in B : \A j \in B : i <= j
  BY <1>3, LeastNat
<1>5. CASE i = 1
  BY <1>1, <1>4, <1>5
<1>6. CASE i # 1
  <2>j. PICK j : j = i - 1
    OBVIOUS
  <2>1. j \in 1..Len(c[2])-1 /\ j + 1 = i /\ j \in DOMAIN c[2] /\ ~(i <= j)
    BY <1>1, <1>4, <1>6, <2>j
  <2>f. PICK f : f = <<c[1], c[2][j], c[2][i]>>
    OBVIOUS
  <2>2. f \in ListOrder
    BY <2>1, <2>f, CombiningSound, LinkInOrder
  <2>3. Precedes(tm, y, f[3]) /\ y \in Appenders(f[1]) /\ y # f[2]
    BY <1>4, <2>1, <2>f
  <2>4. Precedes(tm, y, f[2])
    BY <2>2, <2>3, ListOrderTiming DEF CombiningLists
  <2>5. j \in B
    BY <2>1, <2>4, <2>f
  <2> QED
    BY <1>4, <2>1, <2>5
<1> QED
  BY <1>5, <1>6

LEMMA ListChainsOrdered ==
  ASSUME NEW tm, CombiningLists(tm), NEW c \in chains, NEW d \in chains, c # d, c[1] = d[1]
  PROVE  Precedes(tm, Final(c[2]), First(d[2])) \/ Precedes(tm, Final(d[2]), First(c[2]))
<1>1. /\ First(c[2]) = c[2][1] /\ First(d[2]) = d[2][1]
      /\ 1 \in DOMAIN c[2] /\ 1 \in DOMAIN d[2]
      /\ c[2][1] \in Appenders(c[1]) /\ d[2][1] \in Appenders(c[1])
  BY CombiningSound, ListChainEnds
<1>2. /\ \A i \in DOMAIN c[2] : c[2][i] # d[2][1]
      /\ \A j \in DOMAIN d[2] : d[2][j] # c[2][1]
  BY <1>1, DistinctFacts DEF CombiningLists, ListChains, NoRepetition
<1>3. Precedes(tm, d[2][1], First(c[2])) \/ Precedes(tm, Final(c[2]), d[2][1])
  BY <1>1, <1>2, OutsideList
<1>4. Precedes(tm, c[2][1], First(d[2])) \/ Precedes(tm, Final(d[2]), c[2][1])
  BY <1>1, <1>2, OutsideList
<1>5. c[2][1] \in Ids(hist) /\ d[2][1] \in Ids(hist)
  BY <1>1, AppenderFacts DEF CombiningLists, ListsExplained
<1>6. ~(Precedes(tm, c[2][1], d[2][1]) /\ Precedes(tm, d[2][1], c[2][1]))
  BY <1>5, NotBoth DEF CombiningLists
<1> QED
  BY <1>1, <1>3, <1>4, <1>6

\* The edges that put chain c before chain d.
LEMMA List2ListForward ==
  ASSUME NEW tm, CombiningLists(tm), NEW c \in chains, NEW d \in chains, c[1] = d[1],
         Precedes(tm, Final(c[2]), First(d[2])),
         NEW e \in gen_chain2chain_edges(c[2], d[2], c[1])
  PROVE  Forward(tm, e)
<1>1. CASE e = <<Final(c[2]), First(d[2]), "ww">>
  BY <1>1 DEF Forward
<1>2. CASE \E f \in readfrom : f[1] = c[1] /\ f[2] = Final(c[2]) /\ e = <<f[3], First(d[2]), "rw">>
  <2>1. PICK f \in readfrom :
          f[1] = c[1] /\ f[2] = Final(c[2]) /\ e = <<f[3], First(d[2]), "rw">>
    BY <1>2
  <2>2. First(d[2]) \in Appenders(f[1]) /\ f[2] \in Appenders(f[1])
    BY <2>1, CombiningSound, ListChainEnds
  <2>3. ListsExplained(tm) /\ f \in AppendReadFrom
    BY DEF CombiningLists, ListChains
  <2>4. tm.begin[f[3]] < tm.commit[First(d[2])]
    BY <2>1, <2>2, <2>3, ReaderBeforeAppender
  <2> QED
    BY <2>1, <2>4 DEF Forward
<1> QED
  BY <1>1, <1>2 DEF gen_chain2chain_edges

\* The first transaction of a chain did not read the end of another one.
LEMMA ListEndsOpen ==
  ASSUME SoundChains, wwpairs = {}, NEW c \in chains, NEW d \in chains,
         NEW f \in readfrom, f[1] = c[1], f[2] = Final(c[2]), c[1] = d[1]
  PROVE  f[3] # First(d[2])
<1> SUFFICES ASSUME f[3] = First(d[2]) PROVE FALSE
  OBVIOUS
<1>1. /\ Len(c[2]) \in Nat /\ Len(c[2]) \in DOMAIN c[2] /\ Final(c[2]) = c[2][Len(c[2])]
      /\ 1 \in DOMAIN d[2] /\ First(d[2]) = d[2][1]
      /\ c[2][Len(c[2])] \in Appenders(c[1]) /\ d[2][1] \in Appenders(c[1])
  BY ListChainEnds
<1>2. f[2] # 0 /\ f[3] \in Appenders(f[1]) /\ f \in AppendReadFrom
  BY <1>1, AppenderFacts DEF SoundChains, ListChains
<1>3. f \in Linked
  BY <1>2 DEF SoundChains, ListChains, ListOrder, NextAppends
<1>4. PICK e \in chains : \E i \in 1..Len(e[2])-1 : f = <<e[1], e[2][i], e[2][i+1]>>
  BY <1>3, LinksFacts DEF Linked
<1>5. PICK i \in 1..Len(e[2])-1 : f = <<e[1], e[2][i], e[2][i+1]>>
  BY <1>4
<1>6. Len(e[2]) \in Nat /\ DOMAIN e[2] = 1..Len(e[2])
  BY ListChainEnds
<1>7. i \in DOMAIN e[2] /\ i # Len(e[2])
  BY <1>6
<1>8. e[1] = c[1] /\ e[2][i] = c[2][Len(c[2])]
  BY <1>1, <1>5
<1>9. e = c /\ i = Len(c[2])
  BY <1>1, <1>7, <1>8, DistinctFacts DEF SoundChains, ListChains, NoRepetition
<1> QED
  BY <1>7, <1>9

LEMMA List2ListValid ==
  ASSUME SoundChains, wwpairs = {},
         NEW c \in chains, NEW d \in chains, c # d, c[1] = d[1]
  PROVE  gen_chain2chain_edges(c[2], d[2], c[1]) \subseteq ValidEdges
<1>1. /\ Len(c[2]) \in DOMAIN c[2] /\ Final(c[2]) = c[2][Len(c[2])]
      /\ 1 \in DOMAIN d[2] /\ First(d[2]) = d[2][1]
      /\ c[2][Len(c[2])] \in Appenders(c[1]) /\ d[2][1] \in Appenders(c[1])
  BY ListChainEnds
<1>2. Final(c[2]) \in Txn \ {0} /\ First(d[2]) \in Txn \ {0}
  BY <1>1, AppenderFacts DEF SoundChains
<1>3. Final(c[2]) # First(d[2])
  BY <1>1, DistinctFacts DEF SoundChains, ListChains, NoRepetition
<1>4. <<Final(c[2]), First(d[2]), "ww">> \in ValidEdges
  BY <1>2, <1>3, ValidEdge DEF EdgeTypes, CbTypes
<1>5. ASSUME NEW f \in readfrom, f[1] = c[1], f[2] = Final(c[2])
      PROVE  <<f[3], First(d[2]), "rw">> \in ValidEdges
  <2>1. f[3] \in Txn
    BY ListReadTypes DEF SoundChains, ListChains
  <2>2. f[3] # First(d[2])
    BY <1>5, ListEndsOpen
  <2> QED
    BY <1>2, <2>1, <2>2, ValidEdge DEF EdgeTypes
<1> QED
  BY <1>4, <1>5 DEF gen_chain2chain_edges

LEMMA ListFirstLess ==
  ASSUME SoundChains, NEW c \in chains, NEW d \in chains, First(c[2]) < First(d[2])
  PROVE  c # d
<1>1. First(c[2]) \in Ids(hist)
  BY ListChainEnds, AppenderFacts DEF SoundChains
<1>2. First(c[2]) \in Int
  BY <1>1, IdsFacts, NTxnsAssumption DEF SoundChains
<1> QED
  BY <1>2

LEMMA ListConstraintsValid ==
  ASSUME SoundChains, wwpairs = {}
  PROVE  ValidConstraints(ChainConstraints)
<1> SUFFICES ASSUME NEW c \in chains, NEW d \in chains, c[1] = d[1], First(c[2]) < First(d[2])
             PROVE  /\ gen_chain2chain_edges(c[2], d[2], c[1]) \subseteq ValidEdges
                    /\ gen_chain2chain_edges(d[2], c[2], c[1]) \subseteq ValidEdges
  BY DEF ValidConstraints, ChainConstraints
<1>1. c # d
  BY ListFirstLess
<1> QED
  BY <1>1, List2ListValid

LEMMA CoalesceLists ==
  ASSUME NEW tm, CombiningLists(tm), NEW x \in ChainConstraints
  PROVE  (\A e \in x[1] : Forward(tm, e)) \/ (\A e \in x[2] : Forward(tm, e))
<1>1. PICK c \in chains, d \in chains :
        /\ c[1] = d[1] /\ First(c[2]) < First(d[2])
        /\ x = <<gen_chain2chain_edges(c[2], d[2], c[1]), gen_chain2chain_edges(d[2], c[2], c[1])>>
  BY DEF ChainConstraints
<1>2. c # d
  BY <1>1, CombiningSound, ListFirstLess
<1>3. \/ \A e \in gen_chain2chain_edges(c[2], d[2], c[1]) : Forward(tm, e)
      \/ \A e \in gen_chain2chain_edges(d[2], c[2], c[1]) : Forward(tm, e)
  BY <1>1, <1>2, ListChainsOrdered, List2ListForward
<1> QED
  BY <1>1, <1>3

-----------------------------------------------------------------------------
(* The steps. *)

\* What a step may leave as it is.
LEMMA ChainsKept ==
  ASSUME ListChains, UNCHANGED <<hist, readfrom, wwpairs, chains>>
  PROVE  ListChains'
<1>1. /\ \A key : Appenders(key)' = Appenders(key)
      /\ AppendReadFrom' = AppendReadFrom /\ ListOrder' = ListOrder
  BY ListsUnchanged
<1> QED
  BY <1>1 DEF ListChains, ChainsOfAppenders, AppendersInChains, NoRepetition, Linked

LEMMA KnownStartLists ==
  ASSUME NEW tm, ListsExplained(tm), AgreesLists(tm), KnownStart, verdict' = verdict
  PROVE  AgreesLists(tm)'
<1> DEFINE T0Edges == {<<0, i, "cb">> : i \in Txn \ {0}}
<1>1. edges' = AddEdges(SessionEdges, T0Edges) /\ bpc' = "reads"
  BY DEF KnownStart
<1>2. SessionEdges \in SUBSET ValidEdges /\ T0Edges \in SUBSET ValidEdges
  BY KnownEdgesValid DEF ListsExplained
<1>3. \A e \in T0Edges : Forward(tm, e)
  BY DEF Forward
<1> HIDE DEF T0Edges
<1>4. edges' \subseteq ValidEdges
  BY <1>1, <1>2, AddEdgesValid
<1>5. \A e \in edges' : Forward(tm, e)
  BY <1>1, <1>3, ListSessionEdges, AddForward
<1> QED
  BY <1>1, <1>4, <1>5 DEF AgreesLists, Forward, Precedes

LEMMA ReadLoopLists ==
  ASSUME NEW tm, ListsExplained(tm), AgreesLists(tm), AReadLoop, verdict' = verdict
  PROVE  AgreesLists(tm)'
<1>1. edges' = AddEdges(edges, ListLoopEdges) /\ bpc' = "combine"
  BY DEF AReadLoop, ListLoopEdges
<1>2. ListLoopEdges \in SUBSET ValidEdges
  BY ListLoopValid DEF AReadLoop, ListReadsFine, ListsExplained
<1>3. edges' \subseteq ValidEdges
  BY <1>1, <1>2, AddEdgesValid DEF AgreesLists
<1>4. \A e \in edges' : Forward(tm, e)
  BY <1>1, ListReadEdges, AddForward DEF AgreesLists
<1>5. ListChains'
  BY SingleAppenders DEF ListsExplained
<1> QED
  BY <1>1, <1>3, <1>4, <1>5 DEF AgreesLists, Forward, Precedes

LEMMA CombineWritesLists ==
  ASSUME NEW tm, ListsExplained(tm), AgreesLists(tm), CombineWrites, verdict' = verdict
  PROVE  AgreesLists(tm)'
<1>1. bpc = "combine" /\ bpc' = bpc /\ edges' = edges
  BY DEF CombineWrites
<1>2. ListChains'
  BY <1>1, CombineLists DEF SoundChains, ListsExplained, AgreesLists
<1> QED
  BY <1>1, <1>2 DEF AgreesLists, Forward, Precedes

LEMMA InferRWEdgesLists ==
  ASSUME NEW tm, ListsExplained(tm), AgreesLists(tm), InferRWEdges, verdict' = verdict
  PROVE  AgreesLists(tm)'
<1>1. /\ bpc = "combine" /\ wwpairs = {} /\ bpc' = "coalesce"
      /\ edges' = AddEdges(edges, InferredEdges)
      /\ UNCHANGED <<hist, readfrom, wwpairs, chains>>
  BY DEF InferRWEdges
<1>2. CombiningLists(tm)
  BY <1>1 DEF CombiningLists, AgreesLists
<1>3. /\ \A e \in InferredEdges : Forward(tm, e)
      /\ InferredEdges \in SUBSET ValidEdges
  BY <1>2, CombiningSound, InferredLists, InferredValid
<1>4. edges' \subseteq ValidEdges
  BY <1>1, <1>3, AddEdgesValid DEF AgreesLists
<1>5. \A e \in edges' : Forward(tm, e)
  BY <1>1, <1>3, AddForward DEF AgreesLists
<1>6. ListChains'
  BY <1>1, <1>2, ChainsKept DEF CombiningLists
<1> QED
  BY <1>1, <1>4, <1>5, <1>6 DEF AgreesLists, Forward, Precedes

LEMMA CoalesceStepLists ==
  ASSUME NEW tm, ListsExplained(tm), AgreesLists(tm), Coalesce, verdict' = verdict
  PROVE  AgreesLists(tm)'
<1>1. /\ bpc = "coalesce" /\ bpc' = "built" /\ edges' = edges
      /\ conn' = ChainConstraints
      /\ UNCHANGED <<hist, readfrom, wwpairs, chains>>
  BY DEF Coalesce, ChainConstraints
<1>2. CombiningLists(tm) /\ wwpairs = {}
  BY <1>1 DEF CombiningLists, AgreesLists
<1>3. /\ ValidConstraints(conn')
      /\ \A c \in conn' : (\A e \in c[1] : Forward(tm, e)) \/ (\A e \in c[2] : Forward(tm, e))
  BY <1>1, <1>2, CombiningSound, ListConstraintsValid, CoalesceLists
<1>4. ListChains'
  BY <1>1, <1>2, ChainsKept DEF CombiningLists
<1> QED
  BY <1>1, <1>2, <1>3, <1>4 DEF AgreesLists, Forward, Precedes

LEMMA AgreesListsStep ==
  ASSUME NEW tm, ListsExplained(tm), AgreesLists(tm), [ANext]_vvars
  PROVE  AgreesLists(tm)'
<1>1. CASE ABuild /\ UNCHANGED verdict
  <2>1. ~AReadReject
    BY ListReadFine, NoListDivergence DEF AReadReject
  <2>2. ~AReadCrash
    BY ListReadFine DEF AReadCrash
  <2>3. ~ACombineCrash
    <3> SUFFICES ASSUME ACombineCrash PROVE FALSE
      OBVIOUS
    <3>1. bpc = "combine" /\ \E p \in wwpairs : ~Joinable(p)
      BY DEF ACombineCrash
    <3>2. CombiningLists(tm)
      BY <3>1 DEF CombiningLists, AgreesLists
    <3> QED
      BY <3>1, <3>2, AllJoinable
  <2> QED
    BY <1>1, <2>1, <2>2, <2>3, KnownStartLists, ReadLoopLists, CombineWritesLists,
       InferRWEdgesLists, CoalesceStepLists DEF ABuild
<1>2. CASE CatchReject
  BY <1>2 DEF CatchReject, AgreesLists
<1>3. CASE RunChecker
  <2>1. bpc = "built" /\ UNCHANGED bvars /\ Direct!Check
    BY <1>3 DEF RunChecker
  <2>2. tm \in Timings(NTxns) /\ edges \subseteq ValidEdges /\ ValidConstraints(conn)
    BY <2>1 DEF ListsExplained, AgreesLists
  <2>3. ~Unsat(edges, conn)
    BY <2>1, <2>2, ForwardSat DEF AgreesLists
  <2>4. verdict' # "reject"
    BY <2>1, <2>3, DirectUnsat DEF Direct!Check, Direct!Accept, Direct!Reject
  <2>5. ListChains'
    BY <2>1, ChainsKept DEF AgreesLists, bvars
  <2> QED
    BY <2>1, <2>4, <2>5 DEF AgreesLists, bvars, Forward, Precedes
<1>4. CASE UNCHANGED vvars
  <2>1. bpc \in {"combine", "coalesce", "built"} => ListChains'
    BY <1>4, ChainsKept DEF AgreesLists, vvars, bvars
  <2> QED
    BY <1>4, <2>1 DEF vvars, bvars, AgreesLists, Forward, Precedes
<1> QED
  BY <1>1, <1>2, <1>3, <1>4 DEF ANext, AStep

LEMMA ListStepInv == ASSUME ListInv, [ANext]_vvars PROVE ListInv'
<1>1. hist' = hist
  BY DEF ANext, AStep, ABuild, KnownStart, AReadReject, AReadCrash, AReadLoop, CombineWrites,
         ACombineCrash, InferRWEdges, Coalesce, Stop, CatchReject, RunChecker, vvars, bvars
<1>2. \A tm : ListsExplained(tm)' = ListsExplained(tm)
  BY <1>1, ListsUnchanged
<1>3. ASSUME NEW tm \in Timings(NTxns), ListsExplained(tm) PROVE AgreesLists(tm)'
  BY <1>3, AgreesListsStep DEF ListInv
<1> QED
  BY <1>1, <1>2, <1>3 DEF ListInv

-----------------------------------------------------------------------------
(* What the builder leaves behind, whatever the lists are. *)

\* The polygraph has the edges of the loops that were run.
ListBuilt ==
  /\ edges \subseteq ValidEdges
  /\ bpc \in {"reads", "combine", "coalesce", "built"} => Covers(edges, SessionEdges)
  /\ bpc \in {"combine", "coalesce", "built"} =>
       ListChains /\ ListReadsFine /\ Covers(edges, ListLoopEdges)
  /\ bpc \in {"coalesce", "built"} => wwpairs = {}
  /\ bpc = "built" => conn = ChainConstraints

ListAcceptInv ==
  /\ hist \in Histories
  /\ ListBuilt
  /\ verdict = "accept" => bpc = "built" /\ ~Unsat(edges, conn)

LEMMA ListAcceptInit == AInit => ListAcceptInv
  BY DEF AInit, ListAcceptInv, ListBuilt

LEMMA ListEdgesUnchanged ==
  ASSUME hist' = hist
  PROVE  /\ SessionEdges' = SessionEdges /\ ListLoopEdges' = ListLoopEdges
         /\ ListReadsFine' = ListReadsFine
<1>1. \A key, v : AppendersOf(key, v)' = AppendersOf(key, v)
  BY DEF AppendersOf
<1>2. \A key, v : LastAppenders(key, v)' = LastAppenders(key, v)
  BY <1>1 DEF LastAppenders
<1>3. SessionEdges' = SessionEdges
  BY DEF SessionEdges
<1>4. ListLoopEdges' = ListLoopEdges
  BY <1>2, ListsUnchanged DEF ListLoopEdges, UnseenEdges
<1>5. ListReadsFine' = ListReadsFine
  BY <1>1, <1>2 DEF ListReadsFine, LastUnknown, ReadAsserts
<1> QED
  BY <1>3, <1>4, <1>5

LEMMA ListBuiltKept ==
  ASSUME ListBuilt, UNCHANGED bvars
  PROVE  ListBuilt'
<1>1. /\ hist' = hist /\ edges' = edges /\ readfrom' = readfrom /\ wwpairs' = wwpairs
      /\ chains' = chains /\ conn' = conn /\ bpc' = bpc
  BY DEF bvars
<1>2. /\ SessionEdges' = SessionEdges /\ ListLoopEdges' = ListLoopEdges
      /\ ListReadsFine' = ListReadsFine
  BY <1>1, ListEdgesUnchanged
<1>3. ListChains => ListChains'
  BY <1>1, ChainsKept
<1>4. ChainConstraints' = ChainConstraints
  BY <1>1 DEF ChainConstraints, gen_chain2chain_edges
<1> QED
  BY <1>1, <1>2, <1>3, <1>4 DEF ListBuilt, Covers

LEMMA ListBuiltStep ==
  ASSUME WellFormed(hist), ListBuilt, ABuild
  PROVE  ListBuilt'
<1>1. CASE AReadReject \/ AReadCrash \/ ACombineCrash
  <2>1. bpc' \in {"reject", "crash"} /\ edges' = edges
    BY <1>1 DEF AReadReject, AReadCrash, ACombineCrash, Stop
  <2> QED
    BY <2>1 DEF ListBuilt
<1>2. CASE KnownStart
  <2> DEFINE T0Edges == {<<0, i, "cb">> : i \in Txn \ {0}}
  <2>1. bpc' = "reads" /\ hist' = hist /\ edges' = AddEdges(SessionEdges, T0Edges)
    BY <1>2 DEF KnownStart
  <2>2. SessionEdges \in SUBSET ValidEdges /\ T0Edges \in SUBSET ValidEdges
    BY KnownEdgesValid
  <2> HIDE DEF T0Edges
  <2>3. edges' \subseteq ValidEdges /\ Covers(edges', SessionEdges)
    BY <2>1, <2>2, AddEdgesValid, CoversAdd
  <2>4. SessionEdges' = SessionEdges
    BY <2>1, ListEdgesUnchanged
  <2> QED
    BY <2>1, <2>3, <2>4 DEF ListBuilt, Covers
<1>3. CASE AReadLoop
  <2>1. /\ bpc = "reads" /\ bpc' = "combine" /\ hist' = hist
        /\ edges' = AddEdges(edges, ListLoopEdges) /\ ListReadsFine
    BY <1>3 DEF AReadLoop, ListLoopEdges, ListReadsFine
  <2>2. ListLoopEdges \in SUBSET ValidEdges
    BY <2>1, ListLoopValid
  <2>3. /\ edges' \subseteq ValidEdges
        /\ Covers(edges', SessionEdges) /\ Covers(edges', ListLoopEdges)
    BY <2>1, <2>2, AddEdgesValid, CoversAdd DEF ListBuilt
  <2>4. /\ SessionEdges' = SessionEdges /\ ListLoopEdges' = ListLoopEdges
        /\ ListReadsFine' = ListReadsFine
    BY <2>1, ListEdgesUnchanged
  <2>5. ListChains'
    BY <1>3, SingleAppenders
  <2> QED
    BY <2>1, <2>3, <2>4, <2>5 DEF ListBuilt, Covers
<1>4. CASE CombineWrites
  <2>1. bpc = "combine" /\ bpc' = bpc /\ hist' = hist /\ edges' = edges
    BY <1>4 DEF CombineWrites
  <2>2. ListChains'
    BY <1>4, <2>1, CombineLists DEF SoundChains, ListBuilt
  <2>3. /\ SessionEdges' = SessionEdges /\ ListLoopEdges' = ListLoopEdges
        /\ ListReadsFine' = ListReadsFine
    BY <2>1, ListEdgesUnchanged
  <2> QED
    BY <2>1, <2>2, <2>3 DEF ListBuilt, Covers
<1>5. CASE InferRWEdges
  <2>1. /\ bpc = "combine" /\ wwpairs = {} /\ bpc' = "coalesce"
        /\ edges' = AddEdges(edges, InferredEdges)
        /\ UNCHANGED <<hist, readfrom, wwpairs, chains>>
    BY <1>5 DEF InferRWEdges
  <2>2. InferredEdges \in SUBSET ValidEdges
    BY <2>1, InferredValid DEF SoundChains, ListBuilt
  <2>3. /\ edges' \subseteq ValidEdges
        /\ Covers(edges', SessionEdges) /\ Covers(edges', ListLoopEdges)
    BY <2>1, <2>2, AddEdgesValid, CoversAdd DEF ListBuilt
  <2>4. /\ SessionEdges' = SessionEdges /\ ListLoopEdges' = ListLoopEdges
        /\ ListReadsFine' = ListReadsFine
    BY <2>1, ListEdgesUnchanged
  <2>5. ListChains'
    BY <2>1, ChainsKept DEF ListBuilt
  <2> QED
    BY <2>1, <2>3, <2>4, <2>5 DEF ListBuilt, Covers
<1>6. CASE Coalesce
  <2>1. /\ bpc = "coalesce" /\ bpc' = "built" /\ edges' = edges /\ conn' = ChainConstraints
        /\ UNCHANGED <<hist, readfrom, wwpairs, chains>>
    BY <1>6 DEF Coalesce, ChainConstraints
  <2>2. /\ SessionEdges' = SessionEdges /\ ListLoopEdges' = ListLoopEdges
        /\ ListReadsFine' = ListReadsFine
    BY <2>1, ListEdgesUnchanged
  <2>3. ListChains'
    BY <2>1, ChainsKept DEF ListBuilt
  <2>4. ChainConstraints' = ChainConstraints
    BY <2>1 DEF ChainConstraints, gen_chain2chain_edges
  <2> QED
    BY <2>1, <2>2, <2>3, <2>4 DEF ListBuilt, Covers
<1> QED
  BY <1>1, <1>2, <1>3, <1>4, <1>5, <1>6 DEF ABuild

LEMMA ListAcceptStep == ASSUME ListAcceptInv, [ANext]_vvars PROVE ListAcceptInv'
<1>w. WellFormed(hist)
  BY HistoriesAssumption DEF ListAcceptInv
<1>1. CASE ABuild /\ UNCHANGED verdict
  <2>1. ListBuilt'
    BY <1>1, <1>w, ListBuiltStep DEF ListAcceptInv
  <2>2. bpc # "built" /\ hist' = hist
    BY <1>1 DEF ABuild, KnownStart, AReadReject, AReadCrash, AReadLoop, CombineWrites,
       ACombineCrash, InferRWEdges, Coalesce, Stop
  <2> QED
    BY <1>1, <2>1, <2>2 DEF ListAcceptInv
<1>2. CASE CatchReject
  <2>1. UNCHANGED bvars /\ verdict' = "reject"
    BY <1>2 DEF CatchReject
  <2>2. ListBuilt' /\ hist' = hist
    BY <2>1, ListBuiltKept DEF ListAcceptInv, bvars
  <2> QED
    BY <2>1, <2>2 DEF ListAcceptInv
<1>3. CASE RunChecker
  <2>1. bpc = "built" /\ UNCHANGED bvars /\ Direct!Check
    BY <1>3 DEF RunChecker
  <2>2. ListBuilt' /\ hist' = hist
    BY <2>1, ListBuiltKept DEF ListAcceptInv, bvars
  <2>3. verdict' = "accept" => ~Unsat(edges, conn)
    BY <2>1, DirectUnsat DEF Direct!Check, Direct!Accept, Direct!Reject
  <2>4. Unsat(edges, conn)' = Unsat(edges, conn) /\ bpc' = bpc
    BY <2>1 DEF bvars
  <2> QED
    BY <2>1, <2>2, <2>3, <2>4 DEF ListAcceptInv
<1>4. CASE UNCHANGED vvars
  <2>1. UNCHANGED bvars /\ verdict' = verdict
    BY <1>4 DEF vvars
  <2>2. ListBuilt' /\ hist' = hist
    BY <2>1, ListBuiltKept DEF ListAcceptInv, bvars
  <2>3. Unsat(edges, conn)' = Unsat(edges, conn) /\ bpc' = bpc
    BY <2>1 DEF bvars
  <2> QED
    BY <2>1, <2>2, <2>3 DEF ListAcceptInv
<1> QED
  BY <1>1, <1>2, <1>3, <1>4 DEF ANext, AStep

-----------------------------------------------------------------------------
(* Lists with the same writers are the same list. *)

\* The first n elements of a are in the order R, and among the first m of b.
Ascending(R, a, n) == \A i, j \in 1..n : i < j => <<a[i], a[j]>> \in R
FoundIn(a, n, b, m) == \A i \in 1..n : \E j \in 1..m : b[j] = a[i]

\* Elements of lists that are in the same order, a relation without cycles of
\* length one or two, are at the same places.
LEMMA SamePlaces ==
  ASSUME NEW R, \A x, y : ~(<<x, y>> \in R /\ <<y, x>> \in R),
         NEW a, NEW b, Len(a) \in Nat, Len(b) \in Nat,
         Ascending(R, a, Len(a)), Ascending(R, b, Len(b)),
         FoundIn(a, Len(a), b, Len(b)), FoundIn(b, Len(b), a, Len(a))
  PROVE  \A k \in 1..Len(a) : k \in 1..Len(b) /\ a[k] = b[k]
<1> USE DEF Ascending, FoundIn
<1> DEFINE Bad == {k \in 1..Len(a) : ~(k \in 1..Len(b) /\ a[k] = b[k])}
<1> SUFFICES ASSUME Bad # {} PROVE FALSE
  OBVIOUS
<1>1. Bad \in SUBSET Nat
  OBVIOUS
<1>2. PICK k \in Bad : \A y \in Bad : k <= y
  BY <1>1, LeastNat
<1>3. k \in 1..Len(a) /\ ~(k \in 1..Len(b) /\ a[k] = b[k])
  BY <1>2
<1>4. ASSUME NEW i \in 1..Len(a), i < k PROVE i \in 1..Len(b) /\ a[i] = b[i]
  <2>1. ~(k <= i)
    BY <1>3, <1>4
  <2>2. i \notin Bad
    BY <1>2, <2>1
  <2> QED
    BY <2>2
<1> HIDE DEF Bad
<1>5. PICK j \in 1..Len(b) : b[j] = a[k]
  BY <1>3
<1>6. ~(j < k)
  <2> SUFFICES ASSUME j < k PROVE FALSE
    OBVIOUS
  <2>1. j \in 1..Len(a)
    BY <1>3
  <2>2. a[j] = b[j]
    BY <1>4, <2>1
  <2>3. <<a[j], a[k]>> \in R
    BY <1>3, <2>1
  <2> QED
    BY <1>5, <2>2, <2>3
<1>7. k < j /\ k \in 1..Len(b)
  <2>1. j # k
    BY <1>3, <1>5
  <2> QED
    BY <1>3, <1>6, <2>1
<1>8. PICK l \in 1..Len(a) : a[l] = b[k]
  BY <1>7
<1>9. ~(l < k)
  <2> SUFFICES ASSUME l < k PROVE FALSE
    OBVIOUS
  <2>1. l \in 1..Len(b) /\ a[l] = b[l]
    BY <1>4
  <2>2. <<b[l], b[k]>> \in R
    BY <1>7, <2>1
  <2> QED
    BY <1>8, <2>1, <2>2
<1>10. k < l
  <2>1. l # k
    BY <1>3, <1>7, <1>8
  <2> QED
    BY <1>3, <1>9, <2>1
<1>11. <<a[k], b[k]>> \in R
  BY <1>3, <1>8, <1>10
<1>12. <<b[k], a[k]>> \in R
  BY <1>5, <1>7
<1> QED
  BY <1>11, <1>12

LEMMA SameOrder ==
  ASSUME NEW R, \A x, y : ~(<<x, y>> \in R /\ <<y, x>> \in R),
         NEW a, NEW b, IsSeq(a), IsSeq(b),
         Ascending(R, a, Len(a)), Ascending(R, b, Len(b)),
         FoundIn(a, Len(a), b, Len(b)), FoundIn(b, Len(b), a, Len(a))
  PROVE  a = b
<1>1. Len(a) \in Nat /\ Len(b) \in Nat
  BY DEF IsSeq
<1>2. \A k \in 1..Len(a) : k \in 1..Len(b) /\ a[k] = b[k]
  BY <1>1, SamePlaces
<1>3. \A k \in 1..Len(b) : k \in 1..Len(a) /\ b[k] = a[k]
  BY <1>1, SamePlaces
<1>4. Len(a) = Len(b)
  <2>1. Len(a) # 0 => Len(a) \in 1..Len(a)
    BY <1>1
  <2>2. Len(b) # 0 => Len(b) \in 1..Len(b)
    BY <1>1
  <2>3. Len(a) # 0 => Len(a) <= Len(b)
    BY <1>1, <1>2, <2>1
  <2>4. Len(b) # 0 => Len(b) <= Len(a)
    BY <1>1, <1>3, <2>2
  <2> QED
    BY <1>1, <2>3, <2>4
<1>5. [i \in 1..Len(a) |-> a[i]] = [i \in 1..Len(b) |-> b[i]]
  BY <1>2, <1>4
<1>6. a = [i \in 1..Len(a) |-> a[i]] /\ b = [i \in 1..Len(b) |-> b[i]]
  BY DEF IsSeq
<1> QED
  BY <1>5, <1>6

\* A value is appended to a list at one place only.
LEMMA OnePlace ==
  ASSUME WellFormed(hist), ListHistory(hist), TransparentLists(hist), NEW key, NEW e,
         NEW x \in Ids(hist), NEW i, AppendsAt(x, i, key, e),
         NEW y \in Ids(hist), NEW j, AppendsAt(y, j, key, e)
  PROVE  x = y /\ i = j
<1>1. <<key, e, x>> \in AllAppends(hist) /\ <<key, e, y>> \in AllAppends(hist)
  BY AllAppendsFacts DEF AppendsAt
<1>2. x = y
  BY <1>1, OneAppender
<1>3. i \in DOMAIN hist.txns[x] /\ j \in DOMAIN hist.txns[x]
  BY <1>2 DEF AppendsAt
<1>4. ASSUME NEW k, NEW l, AppendsAt(x, k, key, e), AppendsAt(x, l, key, e), l \in 1..k-1
      PROVE  FALSE
  BY <1>4 DEF AppendsAt, TransparentLists
<1>5. DOMAIN hist.txns[x] = 1..Len(hist.txns[x]) /\ Len(hist.txns[x]) \in Nat
  BY DEF WellFormed
<1>6. i \in 1..j-1 \/ j \in 1..i-1 \/ i = j
  BY <1>3, <1>5
<1> QED
  BY <1>2, <1>4, <1>6

\* e is appended to key after d.
AppendedAfter(tm, key, d, e) ==
  \E x, y \in Ids(hist) : \E i, j \in Int :
    /\ AppendsAt(x, i, key, d) /\ AppendsAt(y, j, key, e)
    /\ tm.commit[x] < tm.commit[y] \/ (x = y /\ i < j)

LEMMA NotAfterEachOther ==
  ASSUME WellFormed(hist), ListHistory(hist), TransparentLists(hist), NEW tm \in Timings(NTxns),
         NEW key, NEW d, NEW e, AppendedAfter(tm, key, d, e), AppendedAfter(tm, key, e, d)
  PROVE  FALSE
<1>1. PICK x, y \in Ids(hist) : \E i, j \in Int :
        /\ AppendsAt(x, i, key, d) /\ AppendsAt(y, j, key, e)
        /\ tm.commit[x] < tm.commit[y] \/ (x = y /\ i < j)
  BY DEF AppendedAfter
<1>2. PICK i, j \in Int : /\ AppendsAt(x, i, key, d) /\ AppendsAt(y, j, key, e)
                          /\ tm.commit[x] < tm.commit[y] \/ (x = y /\ i < j)
  BY <1>1
<1>3. PICK v, w \in Ids(hist) : \E k, l \in Int :
        /\ AppendsAt(v, k, key, e) /\ AppendsAt(w, l, key, d)
        /\ tm.commit[v] < tm.commit[w] \/ (v = w /\ k < l)
  BY DEF AppendedAfter
<1>4. PICK k, l \in Int : /\ AppendsAt(v, k, key, e) /\ AppendsAt(w, l, key, d)
                          /\ tm.commit[v] < tm.commit[w] \/ (v = w /\ k < l)
  BY <1>3
<1>5. v = y /\ k = j /\ w = x /\ l = i
  BY <1>2, <1>4, OnePlace
<1>6. tm.commit[x] \in Int /\ tm.commit[y] \in Int
  BY TimingTypes
<1> QED
  BY <1>2, <1>4, <1>5, <1>6

LEMMA AppendPlace ==
  ASSUME WellFormed(hist), NEW key, NEW e, NEW x, <<key, e, x>> \in AllAppends(hist)
  PROVE  \E k \in Int : AppendsAt(x, k, key, e)
<1>1. PICK t \in Ids(hist) : \E k \in DOMAIN hist.txns[t] :
        /\ hist.txns[t][k].f = "append"
        /\ <<key, e, x>> = <<hist.txns[t][k].k, hist.txns[t][k].e, t>>
  BY AllAppendsFacts
<1>2. PICK k \in DOMAIN hist.txns[t] :
        /\ hist.txns[t][k].f = "append"
        /\ <<key, e, x>> = <<hist.txns[t][k].k, hist.txns[t][k].e, t>>
  BY <1>1
<1>3. AppendsAt(x, k, key, e)
  BY <1>2 DEF AppendsAt
<1>4. k \in Int
  BY DEF WellFormed
<1> QED
  BY <1>3, <1>4

LEMMA WritersInOrder ==
  ASSUME WellFormed(hist), NEW tm \in Timings(NTxns), NEW r, NEW by, ListWriters(tm, r, by),
         NEW i \in 1..Len(r[2]), NEW j \in 1..Len(r[2]), i < j
  PROVE  AppendedAfter(tm, r[1], r[2][i], r[2][j])
<1>1. /\ <<r[1], r[2][i], by[i]>> \in AllAppends(hist) /\ by[i] \in Ids(hist)
      /\ <<r[1], r[2][j], by[j]>> \in AllAppends(hist) /\ by[j] \in Ids(hist)
      /\ tm.commit[by[i]] <= tm.commit[by[j]]
  <2>1. i <= j
    BY DEF ListWriters, IsSeq
  <2> QED
    BY <2>1 DEF ListWriters
<1>2. CASE by[i] = by[j]
  <2>1. PICK k, l \in Int :
          k < l /\ AppendsAt(by[i], k, r[1], r[2][i]) /\ AppendsAt(by[i], l, r[1], r[2][j])
    BY <1>2 DEF ListWriters
  <2> QED
    BY <1>1, <2>1 DEF AppendedAfter
<1>3. CASE by[i] # by[j]
  <2>1. tm.commit[by[i]] < tm.commit[by[j]]
    BY <1>1, <1>3, TimingTypes
  <2>2. PICK k \in Int : AppendsAt(by[i], k, r[1], r[2][i])
    BY <1>1, AppendPlace
  <2>3. PICK l \in Int : AppendsAt(by[j], l, r[1], r[2][j])
    BY <1>1, AppendPlace
  <2> QED
    BY <1>1, <2>1, <2>2, <2>3 DEF AppendedAfter
<1> QED
  BY <1>2, <1>3

LEMMA SameWriters ==
  ASSUME WellFormed(hist), ListHistory(hist), TransparentLists(hist), NEW tm \in Timings(NTxns),
         NEW r, NEW by, ListWriters(tm, r, by), NEW q, NEW wy, ListWriters(tm, q, wy),
         r[1] = q[1], r[3] = q[3]
  PROVE  r[2] = q[2]
<1> PICK a, b, key : a = r[2] /\ b = q[2] /\ key = r[1]
  OBVIOUS
<1> DEFINE V == {a[i] : i \in 1..Len(a)} \cup {b[i] : i \in 1..Len(b)}
           R == {p \in V \X V : AppendedAfter(tm, key, p[1], p[2])}
<1>1. IsSeq(a) /\ IsSeq(b)
  BY DEF ListWriters
<1>2. \A x, y : <<x, y>> \in R <=> x \in V /\ y \in V /\ AppendedAfter(tm, key, x, y)
  OBVIOUS
<1>v. (\A i \in 1..Len(a) : a[i] \in V) /\ (\A i \in 1..Len(b) : b[i] \in V)
  OBVIOUS
<1> HIDE DEF R, V
<1>3. \A x, y : ~(<<x, y>> \in R /\ <<y, x>> \in R)
  BY <1>2, NotAfterEachOther
<1>4. Ascending(R, a, Len(a))
  BY <1>2, <1>v, WritersInOrder DEF Ascending
<1>5. Ascending(R, b, Len(b))
  BY <1>2, <1>v, WritersInOrder DEF Ascending
<1>6. ASSUME NEW i \in 1..Len(a) PROVE \E j \in 1..Len(b) : b[j] = a[i]
  <2>1. /\ <<key, a[i], by[i]>> \in AllAppends(hist) /\ by[i] \in Ids(hist)
        /\ tm.commit[by[i]] <= tm.begin[r[3]]
    BY DEF ListWriters
  <2>2. \A x \in Ids(hist) : \A e :
          (<<q[1], e, x>> \in AllAppends(hist) /\ tm.commit[x] <= tm.begin[q[3]])
            => \E j \in 1..Len(q[2]) : wy[j] = x /\ q[2][j] = e
    BY DEF ListWriters
  <2> QED
    BY <2>1, <2>2
<1>7. ASSUME NEW i \in 1..Len(b) PROVE \E j \in 1..Len(a) : a[j] = b[i]
  <2>1. /\ <<key, b[i], wy[i]>> \in AllAppends(hist) /\ wy[i] \in Ids(hist)
        /\ tm.commit[wy[i]] <= tm.begin[r[3]]
    BY DEF ListWriters
  <2>2. \A x \in Ids(hist) : \A e :
          (<<r[1], e, x>> \in AllAppends(hist) /\ tm.commit[x] <= tm.begin[r[3]])
            => \E j \in 1..Len(r[2]) : by[j] = x /\ r[2][j] = e
    BY DEF ListWriters
  <2> QED
    BY <2>1, <2>2
<1>8. FoundIn(a, Len(a), b, Len(b)) /\ FoundIn(b, Len(b), a, Len(a))
  BY <1>6, <1>7 DEF FoundIn
<1>9. a = b
  BY <1>1, <1>3, <1>4, <1>5, <1>8, SameOrder
<1> QED
  BY <1>9

-----------------------------------------------------------------------------
(* The times that the checker's assignment gives to an accepted history. *)

ListTimed(tm) ==
  /\ SoundChains /\ ListReadsFine /\ wwpairs = {}
  /\ tm \in Timings(NTxns)
  /\ ListOrder \subseteq AppendReadFrom
  /\ \A e \in SessionEdges : Forward(tm, e)
  /\ \A e \in ListLoopEdges : Forward(tm, e)
  /\ \A c, d \in chains : (c # d /\ c[1] = d[1]) =>
       \/ \A e \in gen_chain2chain_edges(c[2], d[2], c[1]) : Forward(tm, e)
       \/ \A e \in gen_chain2chain_edges(d[2], c[2], c[1]) : Forward(tm, e)

LEMMA AcceptedListTimed ==
  ASSUME ListAcceptInv, verdict = "accept", ListOrder \subseteq AppendReadFrom
  PROVE  \E tm : ListTimed(tm)
<1>1. /\ bpc = "built" /\ ~Unsat(edges, conn) /\ edges \subseteq ValidEdges /\ wwpairs = {}
      /\ ListReadsFine /\ conn = ChainConstraints
      /\ Covers(edges, SessionEdges) /\ Covers(edges, ListLoopEdges)
  BY DEF ListAcceptInv, ListBuilt
<1>2. SoundChains
  BY <1>1, HistoriesAssumption DEF ListAcceptInv, ListBuilt, SoundChains
<1>3. ValidConstraints(conn)
  BY <1>1, <1>2, ListConstraintsValid
<1>u. edges \in SUBSET ValidEdges /\ ~Unsat(edges, conn)
  BY <1>1
<1>4. PICK tm \in Timings(NTxns) :
        /\ \A e \in edges : Forward(tm, e)
        /\ \A c \in conn : (\A e \in c[1] : Forward(tm, e)) \/ (\A e \in c[2] : Forward(tm, e))
  BY <1>u, <1>3, SatForward, ZenonT(20)
<1>5. /\ \A e \in SessionEdges : Forward(tm, e)
      /\ \A e \in ListLoopEdges : Forward(tm, e)
  BY <1>1, <1>4, CoversForward
<1>6. ASSUME NEW c \in chains, NEW d \in chains, c # d, c[1] = d[1]
      PROVE  \/ \A e \in gen_chain2chain_edges(c[2], d[2], c[1]) : Forward(tm, e)
             \/ \A e \in gen_chain2chain_edges(d[2], c[2], c[1]) : Forward(tm, e)
  <2> PICK a, b : a = First(c[2]) /\ b = First(d[2])
    OBVIOUS
  <2>1. /\ 1 \in DOMAIN c[2] /\ a = c[2][1] /\ a \in Appenders(c[1])
        /\ 1 \in DOMAIN d[2] /\ b = d[2][1] /\ b \in Appenders(d[1])
    BY <1>2, ListChainEnds
  <2>2. a # b
    BY <1>2, <1>6, <2>1, DistinctFacts DEF SoundChains, ListChains, NoRepetition
  <2>3. a \in Ids(hist) /\ b \in Ids(hist) /\ Ids(hist) = 1..NTxns
    BY <1>2, <2>1, AppenderFacts, IdsFacts DEF SoundChains
  <2>4. a \in Int /\ b \in Int
    BY <2>3
  <2>5. a < b \/ b < a
    BY <2>2, <2>4
  <2> PICK C, D : /\ C = gen_chain2chain_edges(c[2], d[2], c[1])
                  /\ D = gen_chain2chain_edges(d[2], c[2], c[1])
    OBVIOUS
  <2>6. CASE a < b
    <3> PICK p : p = <<c, d>>
      OBVIOUS
    <3>1. p \in chains \X chains /\ p[1] = c /\ p[2] = d
      OBVIOUS
    <3>2. <<C, D>> \in ChainConstraints
      BY <1>6, <2>6, <3>1 DEF ChainConstraints
    <3> QED
      BY <1>1, <1>4, <3>2
  <2>7. CASE b < a
    <3> PICK p : p = <<d, c>>
      OBVIOUS
    <3>1. p \in chains \X chains /\ p[1] = d /\ p[2] = c
      OBVIOUS
    <3>2. <<D, C>> \in ChainConstraints
      BY <1>6, <2>7, <3>1 DEF ChainConstraints
    <3> QED
      BY <1>1, <1>4, <3>2
  <2> QED
    BY <2>5, <2>6, <2>7
<1> QED
  BY <1>1, <1>2, <1>4, <1>5, <1>6 DEF ListTimed

\* A list is read after its last appender commits, and before the others that
\* append what it does not show do.
LEMMA ListReadForward ==
  ASSUME NEW tm, ListTimed(tm), NEW f \in AppendReadFrom, f[2] # 0
  PROVE  Precedes(tm, f[2], f[3])
<1> PICK e : e = <<f[2], f[3], "wr">>
  OBVIOUS
<1>1. e \in ListLoopEdges
  BY DEF ListLoopEdges
<1>2. Forward(tm, e) /\ e[1] = f[2] /\ e[2] = f[3] /\ e[3] = "wr"
  BY <1>1 DEF ListTimed
<1> QED
  BY <1>2 DEF Forward

LEMMA ListUnseenForward ==
  ASSUME NEW tm, ListTimed(tm), NEW r \in ext_reads(hist),
         NEW e, NEW x, <<r[1], e, x>> \in AllAppends(hist),
         e \notin Range(r[2]), x # r[3], x \notin LastAppenders(r[1], r[2])
  PROVE  tm.begin[r[3]] < tm.commit[x]
<1> PICK w, d : w = <<r[1], e, x>> /\ d = <<r[3], x, "rw">>
  OBVIOUS
<1>1. w \in AllAppends(hist) /\ w[1] = r[1] /\ w[2] = e /\ w[3] = x
  OBVIOUS
<1>2. d \in UnseenEdges
  BY <1>1 DEF UnseenEdges
<1>3. Forward(tm, d) /\ d[1] = r[3] /\ d[2] = x /\ d[3] = "rw"
  BY <1>2 DEF ListTimed, ListLoopEdges
<1>4. r[3] # 0
  BY IdsFacts DEF ext_reads, ListTimed, SoundChains
<1> QED
  BY <1>3, <1>4 DEF Forward

\* Neighbours in ListOrder, and with them all of a chain, follow in time.
LEMMA ListOrderForward ==
  ASSUME NEW tm, ListTimed(tm), NEW p \in ListOrder
  PROVE  Precedes(tm, p[2], p[3])
<1>1. p \in AppendReadFrom /\ WellFormed(hist)
  BY DEF ListTimed, SoundChains
<1>2. p[2] # 0
  BY <1>1, ListOrderTypes, AppenderFacts
<1> QED
  BY <1>1, <1>2, ListReadForward

LEMMA ListChainForward ==
  ASSUME NEW tm, ListTimed(tm), NEW c \in chains,
         NEW i \in DOMAIN c[2], NEW j \in DOMAIN c[2], i < j
  PROVE  Precedes(tm, c[2][i], c[2][j])
<1>1. SoundChains /\ WellFormed(hist) /\ tm \in Timings(NTxns)
  BY DEF ListTimed, SoundChains
<1>2. /\ Len(c[2]) \in Nat /\ DOMAIN c[2] = 1..Len(c[2])
      /\ \A l \in DOMAIN c[2] : c[2][l] \in Appenders(c[1])
  BY <1>1, ListChainEnds
<1>3. \A l \in 1..Len(c[2]) : c[2][l] \in 1..NTxns
  BY <1>1, <1>2, AppenderFacts, IdsFacts
<1>4. ASSUME NEW l \in 1..Len(c[2])-1 PROVE Precedes(tm, c[2][l], c[2][l+1])
  <2> PICK p : p = <<c[1], c[2][l], c[2][l+1]>>
    OBVIOUS
  <2>1. p \in ListOrder /\ p[2] = c[2][l] /\ p[3] = c[2][l+1]
    BY <1>1, LinkInOrder
  <2> QED
    BY <2>1, ListOrderForward
<1> QED
  BY <1>1, <1>2, <1>3, <1>4, PrecedesAlong

LEMMA ListChainAcross ==
  ASSUME NEW tm, ListTimed(tm), NEW c \in chains, NEW d \in chains,
         \A e \in gen_chain2chain_edges(c[2], d[2], c[1]) : Forward(tm, e),
         NEW i \in DOMAIN c[2], NEW j \in DOMAIN d[2]
  PROVE  Precedes(tm, c[2][i], d[2][j])
<1>1. SoundChains /\ WellFormed(hist) /\ tm \in Timings(NTxns)
  BY DEF ListTimed, SoundChains
<1> PICK x, y, a, b : x = c[2][i] /\ y = Final(c[2]) /\ a = First(d[2]) /\ b = d[2][j]
  OBVIOUS
<1>2. /\ Len(c[2]) \in Nat /\ DOMAIN c[2] = 1..Len(c[2]) /\ Len(c[2]) \in DOMAIN c[2]
      /\ y = c[2][Len(c[2])]
      /\ Len(d[2]) \in Nat /\ DOMAIN d[2] = 1..Len(d[2]) /\ 1 \in DOMAIN d[2] /\ a = d[2][1]
  BY <1>1, ListChainEnds
<1>3. x \in Appenders(c[1]) /\ y \in Appenders(c[1]) /\ a \in Appenders(d[1]) /\ b \in Appenders(d[1])
  BY <1>1, <1>2, ListChainEnds
<1>4. /\ x \in 1..NTxns /\ y \in 1..NTxns /\ a \in 1..NTxns /\ b \in 1..NTxns /\ y # 0
  BY <1>1, <1>3, AppenderFacts, IdsFacts
<1>5. x = y \/ Precedes(tm, x, y)
  <2>1. i = Len(c[2]) \/ i < Len(c[2])
    BY <1>2
  <2> QED
    BY <1>2, <2>1, ListChainForward
<1>6. a = b \/ Precedes(tm, a, b)
  <2>1. j = 1 \/ 1 < j
    BY <1>2
  <2> QED
    BY <1>2, <2>1, ListChainForward
<1> PICK e : e = <<y, a, "ww">>
  OBVIOUS
<1>7. e \in gen_chain2chain_edges(c[2], d[2], c[1])
  BY DEF gen_chain2chain_edges
<1>8. Forward(tm, e) /\ e[1] = y /\ e[2] = a /\ e[3] = "ww"
  BY <1>7
<1>9. Precedes(tm, y, a)
  BY <1>4, <1>8 DEF Forward
<1>10. Precedes(tm, x, a)
  BY <1>1, <1>4, <1>5, <1>9, PrecedesFacts
<1>11. Precedes(tm, x, b)
  BY <1>1, <1>4, <1>6, <1>10, PrecedesFacts
<1> QED
  BY <1>11

\* The transactions that append to a list do it one after the other.
LEMMA AppendersTimed ==
  ASSUME NEW tm, ListTimed(tm), NEW key, NEW x \in Appenders(key), NEW y \in Appenders(key), x # y
  PROVE  Precedes(tm, x, y) \/ Precedes(tm, y, x)
<1>1. SoundChains
  BY DEF ListTimed
<1>2. PICK c \in chains : c[1] = key /\ \E i \in DOMAIN c[2] : c[2][i] = x
  BY <1>1, AppenderInChain
<1>3. PICK i \in DOMAIN c[2] : c[2][i] = x
  BY <1>2
<1>4. PICK d \in chains : d[1] = key /\ \E j \in DOMAIN d[2] : d[2][j] = y
  BY <1>1, AppenderInChain
<1>5. PICK j \in DOMAIN d[2] : d[2][j] = y
  BY <1>4
<1>6. CASE c = d
  <2>1. i < j \/ j < i
    BY <1>1, <1>3, <1>5, <1>6, ListChainEnds
  <2> QED
    BY <1>3, <1>5, <1>6, <2>1, ListChainForward
<1>7. CASE c # d
  <2>1. \/ \A e \in gen_chain2chain_edges(c[2], d[2], c[1]) : Forward(tm, e)
        \/ \A e \in gen_chain2chain_edges(d[2], c[2], d[1]) : Forward(tm, e)
    BY <1>2, <1>4, <1>7 DEF ListTimed
  <2> QED
    BY <1>3, <1>5, <2>1, ListChainAcross
<1> QED
  BY <1>6, <1>7

-----------------------------------------------------------------------------
(* These times explain the lists. *)

LEMMA NeverLess ==
  ASSUME NEW n \in Nat, NEW f, \A i \in 1..n : f[i] \in Int,
         \A i \in 1..n-1 : f[i] <= f[i+1], NEW i \in 1..n, NEW j \in 1..n, i <= j
  PROVE  f[i] <= f[j]
<1> DEFINE X == {l \in i..n : ~(f[i] <= f[l])}
<1>1. X = {}
  <2> SUFFICES ASSUME X # {} PROVE FALSE
    OBVIOUS
  <2>1. X \in SUBSET Nat
    OBVIOUS
  <2>2. PICK l \in X : \A y \in X : l <= y
    BY <2>1, LeastNat
  <2> DEFINE o == l - 1
  <2>3. l # i
    BY <2>2
  <2>4. o \in i..n /\ o \in 1..n-1 /\ o + 1 = l /\ ~(l <= o)
    BY <2>3
  <2>5. o \notin X
    BY <2>2, <2>4
  <2>6. f[i] <= f[o]
    BY <2>4, <2>5
  <2>7. f[o] <= f[l]
    BY <2>4
  <2>8. f[i] \in Int /\ f[o] \in Int /\ f[l] \in Int /\ ~(f[i] <= f[l])
    BY <2>2, <2>4
  <2> HIDE DEF o
  <2> QED
    BY <2>6, <2>7, <2>8
<1>2. j \notin X /\ j \in i..n
  BY <1>1
<1> QED
  BY <1>2

\* An external read is a read mop, whose list is whole.
LEMMA ExternalList ==
  ASSUME WellFormed(hist), ListHistory(hist), TransparentLists(hist), NEW r \in ext_reads(hist)
  PROVE  /\ r = <<r[1], r[2], r[3]>> /\ r[3] \in Ids(hist)
         /\ WholeList(hist, r[1], r[2])
<1>1. PICK t \in Ids(hist) : \E p \in ext_reads_fn(hist.txns[t]) : r = <<p[1], p[2], t>>
  BY DEF ext_reads
<1>2. PICK p \in ext_reads_fn(hist.txns[t]) : r = <<p[1], p[2], t>>
  BY <1>1
<1>t. PICK txn : txn = hist.txns[t]
  OBVIOUS
<1>3. PICK j \in DOMAIN txn : p \in Observed(txn[j])
  BY <1>t DEF ext_reads_fn
<1>4. txn[j].f \in {"r", "append"}
  BY <1>t DEF ListHistory
<1>5. txn[j].f = "r" /\ p = <<txn[j].k, txn[j].v>>
  BY <1>3, <1>4 DEF Observed
<1>6. WholeList(hist, txn[j].k, txn[j].v)
  BY <1>5, <1>t DEF TransparentLists
<1>7. r[1] = txn[j].k /\ r[2] = txn[j].v /\ r[3] = t
  BY <1>2, <1>5
<1> QED
  BY <1>2, <1>6, <1>7

\* The transactions that appended the elements of a list, one each.
LEMMA ElementAppenders ==
  ASSUME WellFormed(hist), ListHistory(hist), ListReadsFine, NEW r \in ext_reads(hist),
         DOMAIN r[2] = 1..Len(r[2])
  PROVE  \E by : \A i \in 1..Len(r[2]) :
           /\ AppendersOf(r[1], r[2][i]) = {by[i]}
           /\ <<r[1], r[2][i], by[i]>> \in AllAppends(hist)
           /\ by[i] \in Ids(hist) /\ by[i] \in Appenders(r[1])
<1> PICK key, v, n : key = r[1] /\ v = r[2] /\ n = Len(v)
  OBVIOUS
<1>1. ASSUME NEW i \in 1..n
      PROVE  \E x : /\ AppendersOf(key, v[i]) = {x} /\ <<key, v[i], x>> \in AllAppends(hist)
                    /\ x \in Ids(hist) /\ x \in Appenders(key)
  <2>1. Cardinality(AppendersOf(key, v[i])) = 1
    BY DEF ListReadsFine, ReadAsserts
  <2>0. Cardinality({}) = 0
    BY FS_EmptySet
  <2>2. AppendersOf(key, v[i]) # {}
    <3>1. AppendersOf(key, v[i]) = {} => Cardinality({}) = 1
      BY <2>1, Zenon
    <3>2. Cardinality({}) # 1
      BY <2>0
    <3> QED
      BY <3>1, <3>2, Zenon
  <2>3. PICK x \in AppendersOf(key, v[i]) : TRUE
    BY <2>2
  <2>4. PICK w \in AllAppends(hist) : w[1] = key /\ w[2] = v[i] /\ w[3] = x
    BY DEF AppendersOf
  <2>5. <<key, v[i], x>> \in AllAppends(hist)
    <3>1. w = <<w[1], w[2], w[3]>>
      BY AllAppendsFacts
    <3> QED
      BY <2>4, <3>1
  <2> QED
    BY <2>5, OneAppender, AppenderFacts
<1> DEFINE by == [i \in 1..n |->
                    CHOOSE x : /\ AppendersOf(key, v[i]) = {x}
                               /\ <<key, v[i], x>> \in AllAppends(hist)
                               /\ x \in Ids(hist) /\ x \in Appenders(key)]
<1>2. ASSUME NEW i \in 1..n
      PROVE  /\ AppendersOf(key, v[i]) = {by[i]} /\ <<key, v[i], by[i]>> \in AllAppends(hist)
             /\ by[i] \in Ids(hist) /\ by[i] \in Appenders(key)
  BY <1>1
<1> HIDE DEF by
<1> QED
  BY <1>2

\* The elements of a list are in the order of the commits, all before the read.
LEMMA ElementsInOrder ==
  ASSUME NEW tm, ListTimed(tm), NEW r \in ext_reads(hist), r = <<r[1], r[2], r[3]>>,
         r[3] \in Ids(hist), IsSeq(r[2]), NEW by,
         \A i \in 1..Len(r[2]) : AppendersOf(r[1], r[2][i]) = {by[i]} /\ by[i] \in Ids(hist)
  PROVE  /\ \A i, j \in 1..Len(r[2]) : i <= j => tm.commit[by[i]] <= tm.commit[by[j]]
         /\ \A i \in 1..Len(r[2]) : tm.commit[by[i]] <= tm.begin[r[3]]
<1> PICK key, v, t, n : key = r[1] /\ v = r[2] /\ t = r[3] /\ n = Len(v)
  OBVIOUS
<1>1. WellFormed(hist) /\ tm \in Timings(NTxns) /\ n \in Nat
  BY DEF ListTimed, SoundChains, IsSeq
<1> DEFINE f == [i \in 1..n |-> tm.commit[by[i]]]
<1>2. \A i \in 1..n : f[i] \in Int /\ by[i] \in 1..NTxns
  BY <1>1, TimingTypes, IdsFacts
<1>3. ASSUME NEW i \in 1..n-1 PROVE f[i] <= f[i+1]
  <2>1. i \in 1..n /\ i+1 \in 1..n
    BY <1>1
  <2> PICK x, y : x = by[i] /\ y = by[i+1]
    OBVIOUS
  <2>2. x \in AppendersOf(key, v[i]) /\ y \in AppendersOf(key, v[i+1]) /\ x \in 1..NTxns /\ y \in 1..NTxns
    BY <1>2, <2>1
  <2>3. f[i] = tm.commit[x] /\ f[i+1] = tm.commit[y] /\ f[i] \in Int
    BY <1>2, <2>1
  <2>4. ASSUME x # y PROVE tm.commit[x] < tm.commit[y]
    <3> PICK p, q : p = <<key, x, y>> /\ q = <<x, y>>
      OBVIOUS
    <3>1. q \in AppendersOf(key, v[i]) \X AppendersOf(key, v[i+1]) /\ q[1] # q[2] /\ p = <<key, q[1], q[2]>>
      BY <2>2, <2>4
    <3>2. p \in Neighbours(r)
      BY <3>1 DEF Neighbours
    <3>3. p \in ListOrder /\ p[2] = x /\ p[3] = y
      BY <3>2 DEF ListOrder
    <3>4. Precedes(tm, x, y)
      BY <3>3, ListOrderForward
    <3> QED
      BY <1>1, <2>2, <3>4, PrecedesFacts
  <2>5. tm.commit[x] \in Int /\ tm.commit[y] \in Int
    BY <1>2, <2>1
  <2> QED
    BY <2>3, <2>4, <2>5
<1> HIDE DEF f
<1>4. \A i, j \in 1..n : i <= j => f[i] <= f[j]
  BY <1>1, <1>2, <1>3, NeverLess
<1>5. \A i, j \in 1..n : i <= j => tm.commit[by[i]] <= tm.commit[by[j]]
  BY <1>4 DEF f
<1>6. ASSUME NEW i \in 1..n PROVE tm.commit[by[i]] <= tm.begin[t]
  <2>1. n \in 1..n /\ i <= n /\ n # 0
    BY <1>1
  <2>2. v # << >>
    BY <2>1, EmptyIsSeq
  <2>3. LastAppenders(key, v) = {by[n]}
    BY <2>1, <2>2 DEF LastAppenders, Last
  <2> PICK g : g = <<key, by[n], t>>
    OBVIOUS
  <2>4. g \in AppendReadFrom /\ g[2] = by[n] /\ g[3] = t
    BY <2>3 DEF AppendReadFrom
  <2>5. g[2] # 0
    BY <1>1, <2>1, <2>4, IdsFacts
  <2>6. tm.commit[by[n]] <= tm.begin[t]
    BY <2>4, <2>5, ListReadForward DEF Precedes
  <2>7. tm.commit[by[i]] <= tm.commit[by[n]]
    BY <1>5, <2>1
  <2>8. tm.commit[by[i]] \in Int /\ tm.commit[by[n]] \in Int /\ tm.begin[t] \in Int
    BY <1>1, <2>1, TimingTypes
  <2> QED
    BY <2>6, <2>7, <2>8
<1> QED
  BY <1>5, <1>6

LEMMA ReadWriters ==
  ASSUME NEW tm, ListTimed(tm), ListHistory(hist), TransparentLists(hist),
         NEW r \in ext_reads(hist)
  PROVE  \E by : ListWriters(tm, r, by)
<1> PICK key, v, t, n : key = r[1] /\ v = r[2] /\ t = r[3] /\ n = Len(v)
  OBVIOUS
<1>1. WellFormed(hist) /\ tm \in Timings(NTxns) /\ ListReadsFine
  BY DEF ListTimed, SoundChains
<1>2. /\ r = <<r[1], r[2], r[3]>> /\ t \in Ids(hist) /\ WholeList(hist, key, v)
  BY <1>1, ExternalList
<1>3. IsSeq(v) /\ n \in Nat /\ DOMAIN v = 1..n
  <2>1. v \in Seq(Range(v))
    BY <1>2 DEF WholeList
  <2> QED
    BY <2>1, SeqIsFunction DEF IsSeq
<1>4. PICK by : \A i \in 1..n : /\ AppendersOf(key, v[i]) = {by[i]}
                                /\ <<key, v[i], by[i]>> \in AllAppends(hist)
                                /\ by[i] \in Ids(hist) /\ by[i] \in Appenders(key)
  BY <1>1, <1>3, ElementAppenders
<1>5. /\ \A i, j \in 1..n : i <= j => tm.commit[by[i]] <= tm.commit[by[j]]
      /\ \A i \in 1..n : tm.commit[by[i]] <= tm.begin[t]
  BY <1>2, <1>3, <1>4, ElementsInOrder
<1>6. ASSUME NEW i \in 1..n, NEW j \in 1..n, i < j, by[i] = by[j]
      PROVE  \E k, l \in Int :
               k < l /\ AppendsAt(by[i], k, key, v[i]) /\ AppendsAt(by[i], l, key, v[j])
  <2> PICK x : x = by[i]
    OBVIOUS
  <2>1. PICK k \in Int : AppendsAt(x, k, key, v[i])
    BY <1>1, <1>4, AppendPlace
  <2>2. PICK l \in Int : AppendsAt(x, l, key, v[j])
    BY <1>1, <1>4, <1>6, AppendPlace
  <2>3. x \in Ids(hist) /\ i \in DOMAIN v /\ j \in DOMAIN v /\ ~(j < i)
    <3>1. ~(j < i)
      BY <1>6
    <3>2. i \in DOMAIN v /\ j \in DOMAIN v
      BY <1>3, Zenon
    <3> QED
      BY <1>4, <3>1, <3>2
  <2>4. ~(l < k)
    <3> SUFFICES ASSUME l < k PROVE FALSE
      OBVIOUS
    <3>1. /\ l \in DOMAIN hist.txns[x] /\ k \in DOMAIN hist.txns[x]
          /\ hist.txns[x][l].f = "append" /\ hist.txns[x][l].k = key /\ v[j] = hist.txns[x][l].e
          /\ hist.txns[x][k].f = "append" /\ hist.txns[x][k].k = key /\ v[i] = hist.txns[x][k].e
      BY <2>1, <2>2 DEF AppendsAt
    <3>2. \A a, b \in DOMAIN v : (v[a] = hist.txns[x][l].e /\ v[b] = hist.txns[x][k].e) => a < b
      BY <1>2, <2>3, <3>1 DEF WholeList
    <3> QED
      BY <2>3, <3>1, <3>2
  <2>5. l # k
    <3>1. l = k => v[i] = v[j]
      BY <2>1, <2>2 DEF AppendsAt
    <3>2. v[i] # v[j]
      BY <1>2, <1>3, <1>6, <2>3 DEF WholeList, IsInjective
    <3> QED
      BY <3>1, <3>2
  <2>6. k < l
    BY <2>4, <2>5
  <2> QED
    BY <2>1, <2>2, <2>6
<1>7. ASSUME NEW x \in Ids(hist), NEW e, <<key, e, x>> \in AllAppends(hist),
             tm.commit[x] <= tm.begin[t]
      PROVE  \E i \in 1..n : by[i] = x /\ v[i] = e
  <2>1. tm.commit[x] \in Int /\ tm.begin[t] \in Int /\ tm.commit[t] \in Int
        /\ tm.begin[t] < tm.commit[t]
    BY <1>1, <1>2, TimingTypes
  <2>2. x # t
    BY <1>7, <2>1
  <2>3. ASSUME x \in LastAppenders(key, v) PROVE e \in Range(v)
    <3>1. x # 0
      BY <1>1, IdsFacts
    <3>2. v # << >> /\ x \in AppendersOf(key, Last(v))
      BY <2>3, <3>1 DEF LastAppenders
    <3>3. PICK w \in AllAppends(hist) : w[1] = key /\ w[2] = Last(v) /\ w[3] = x
      BY <3>2 DEF AppendersOf
    <3>4. <<key, Last(v), x>> \in AllAppends(hist)
      <4>1. w = <<w[1], w[2], w[3]>>
        BY AllAppendsFacts
      <4> QED
        BY <3>3, <4>1
    <3>5. PICK k \in Int : AppendsAt(x, k, key, Last(v))
      BY <1>1, <3>4, AppendPlace
    <3>6. PICK l \in Int : AppendsAt(x, l, key, e)
      BY <1>1, <1>7, AppendPlace
    <3>7. /\ k \in DOMAIN hist.txns[x] /\ l \in DOMAIN hist.txns[x]
          /\ hist.txns[x][k].f = "append" /\ hist.txns[x][k].k = key /\ Last(v) = hist.txns[x][k].e
          /\ hist.txns[x][l].f = "append" /\ hist.txns[x][l].k = key /\ e = hist.txns[x][l].e
      BY <3>5, <3>6 DEF AppendsAt
    <3> QED
      BY <1>2, <3>2, <3>7 DEF WholeList
  <2>4. e \in Range(v)
    <3> SUFFICES ASSUME e \notin Range(v) PROVE FALSE
      OBVIOUS
    <3>1. tm.begin[t] < tm.commit[x]
      BY <1>7, <2>2, <2>3, ListUnseenForward
    <3> QED
      BY <1>7, <2>1, <3>1
  <2>5. PICK i \in 1..n : v[i] = e
    BY <1>3, <2>4 DEF Range
  <2>6. x \in AppendersOf(key, v[i])
    BY <1>7, <2>5, OneAppender
  <2>7. by[i] = x
    BY <1>4, <2>6
  <2> QED
    BY <2>5, <2>7
<1>8. ListWriters(tm, r, by)
  <2>1. \A x \in Ids(hist) : \A e :
          (<<r[1], e, x>> \in AllAppends(hist) /\ tm.commit[x] <= tm.begin[r[3]])
            => \E i \in 1..Len(r[2]) : by[i] = x /\ r[2][i] = e
    BY <1>7
  <2>2. \A i, j \in 1..Len(r[2]) : (i < j /\ by[i] = by[j]) =>
          \E k, l \in Int :
            k < l /\ AppendsAt(by[i], k, r[1], r[2][i]) /\ AppendsAt(by[i], l, r[1], r[2][j])
    BY <1>6
  <2>3. \A i \in 1..Len(r[2]) : /\ <<r[1], r[2][i], by[i]>> \in AllAppends(hist)
                                /\ by[i] \in Ids(hist)
                                /\ tm.commit[by[i]] <= tm.begin[r[3]]
    BY <1>4, <1>5
  <2>4. \A i, j \in 1..Len(r[2]) : i <= j => tm.commit[by[i]] <= tm.commit[by[j]]
    BY <1>5
  <2>5. r[3] \in Ids(hist) /\ IsSeq(r[2])
    BY <1>2, <1>3
  <2> QED
    BY <2>1, <2>2, <2>3, <2>4, <2>5, Zenon DEF ListWriters
<1> QED
  BY <1>8

\* The read mop at j of t has the value of an external read of t, with no append
\* to the key before.
LEMMA ReadIsExternal ==
  ASSUME WellFormed(hist), ListHistory(hist), TransparentLists(hist),
         NEW t \in Ids(hist), NEW j \in DOMAIN hist.txns[t], hist.txns[t][j].f = "r"
  PROVE  /\ <<hist.txns[t][j].k, hist.txns[t][j].v, t>> \in ext_reads(hist)
         /\ \A i \in 1..j-1 : ~(hist.txns[t][i].f = "append" /\ hist.txns[t][i].k = hist.txns[t][j].k)
<1> PICK txn : txn = hist.txns[t]
  OBVIOUS
<1> PICK key, v : key = txn[j].k /\ v = txn[j].v
  OBVIOUS
<1>1. DOMAIN txn = 1..Len(txn) /\ Len(txn) \in Nat
  BY DEF WellFormed
<1>2. \A i \in 1..j-1 : txn[i].k = key => txn[i].f = "r" /\ txn[i].v = v
  BY DEF TransparentLists
<1> DEFINE X == {i \in 1..j : txn[i].k = key}
<1>3. X \in SUBSET Nat /\ j \in X
  BY <1>1
<1>4. PICK o \in X : \A y \in X : o <= y
  BY <1>3, LeastNat
<1>5. o \in 1..j /\ txn[o].k = key /\ o \in DOMAIN txn
  BY <1>1, <1>4
<1>6. txn[o].f = "r" /\ txn[o].v = v
  <2>1. o = j \/ o \in 1..j-1
    BY <1>1, <1>5
  <2> QED
    BY <1>2, <1>5, <2>1
<1> PICK p : p = <<key, v>>
  OBVIOUS
<1>7. p \in Observed(txn[o])
  BY <1>5, <1>6 DEF Observed
<1>8. ASSUME NEW i \in 1..o-1 PROVE p[1] \notin Ignored(txn[i])
  <2>1. i \in 1..j /\ ~(o <= i) /\ i \in DOMAIN txn
    BY <1>1, <1>5
  <2>2. txn[i].k # key
    BY <1>4, <2>1
  <2>3. txn[i].f \in {"r", "append"}
    BY <2>1 DEF ListHistory
  <2>4. KeysOf(Observed(txn[i])) \subseteq {txn[i].k}
    BY <2>3, KeysOfFacts DEF Observed
  <2> QED
    BY <2>2, <2>3, <2>4 DEF Ignored
<1>9. p \in ext_reads_fn(txn)
  BY <1>5, <1>7, <1>8 DEF ext_reads_fn
<1>10. <<p[1], p[2], t>> \in ext_reads(hist)
  BY <1>9 DEF ext_reads
<1> QED
  BY <1>2, <1>10

LEMMA ListTimedExplains ==
  ASSUME NEW tm, ListTimed(tm), ListHistory(hist), TransparentLists(hist)
  PROVE  ExplainsLists(tm)
<1>1. WellFormed(hist) /\ tm \in Timings(NTxns)
  BY DEF ListTimed, SoundChains
<1>2. ASSUME NEW t \in Ids(hist), NEW u \in Ids(hist), t # u,
             AppendedKeys(t) \cap AppendedKeys(u) # {}
      PROVE  tm.commit[t] <= tm.begin[u] \/ tm.commit[u] <= tm.begin[t]
  <2>1. PICK key : key \in AppendedKeys(t) /\ key \in AppendedKeys(u)
    BY <1>2
  <2>2. ASSUME NEW x \in Ids(hist), key \in AppendedKeys(x) PROVE x \in Appenders(key)
    <3>1. PICK j \in DOMAIN hist.txns[x] : hist.txns[x][j].f = "append" /\ hist.txns[x][j].k = key
      BY <2>2 DEF AppendedKeys, Range
    <3>2. <<key, hist.txns[x][j].e, x>> \in AllAppends(hist)
      BY <3>1, AllAppendsFacts
    <3> QED
      BY <1>1, <3>2, AppenderFacts
  <2>3. t \in Appenders(key) /\ u \in Appenders(key)
    BY <2>1, <2>2
  <2> QED
    BY <1>2, <2>3, AppendersTimed DEF Precedes
<1>3. StrongSession => SessionsOrdered(hist, tm)
  BY <1>1, SessionsForward DEF ListTimed
<1>4. ASSUME NEW t \in Ids(hist), NEW j \in DOMAIN hist.txns[t], hist.txns[t][j].f = "r"
      PROVE  hist.txns[t][j].v = SnapshotList(tm, t, hist.txns[t][j].k)
                                   \o AppendsTo(hist.txns[t], j - 1, hist.txns[t][j].k)
  <2> PICK txn : txn = hist.txns[t]
    OBVIOUS
  <2> PICK key, v, own : key = txn[j].k /\ v = txn[j].v /\ own = AppendsTo(txn, j - 1, txn[j].k)
    OBVIOUS
  <2> PICK r, q : r = <<key, v, t>> /\ q = <<key, SnapshotList(tm, t, key), t>>
    OBVIOUS
  <2>1. /\ r \in ext_reads(hist)
        /\ \A i \in 1..j-1 : ~(txn[i].f = "append" /\ txn[i].k = key)
    BY <1>1, <1>4, ReadIsExternal
  <2>2. PICK by : ListWriters(tm, r, by)
    BY <2>1, ReadWriters
  <2>3. PICK wy : ListWriters(tm, q, wy)
    BY <1>1, SnapshotWriters
  <2>4. r[2] = q[2]
    BY <1>1, <2>2, <2>3, SameWriters
  <2>5. IsSeq(q[2])
    BY <2>3 DEF ListWriters
  <2>6. IsSeq(own) /\ Len(own) = 0
    <3>1. j - 1 \in Nat
      BY <1>1 DEF WellFormed
    <3>2. IsSeq(own) /\ \A i \in DOMAIN own : \E l \in 1..j-1 : txn[l].f = "append" /\ txn[l].k = key
      BY <3>1, AppendsToFacts DEF IsAppends
    <3>3. DOMAIN own = {} /\ Len(own) \in Nat /\ DOMAIN own = 1..Len(own)
      BY <2>1, <3>2 DEF IsSeq
    <3>4. Len(own) = 0
      BY <3>3
    <3> QED
      BY <3>2, <3>4
  <2>7. q[2] \o own = q[2]
    BY <2>5, <2>6, ConcatEmpty
  <2>8. v = q[2] /\ q[2] = SnapshotList(tm, t, key)
    BY <2>4
  <2> QED
    BY <2>7, <2>8
<1> QED
  BY <1>2, <1>3, <1>4 DEF ExplainsLists

-----------------------------------------------------------------------------
(* The theorems. *)

\* The inductive invariant holds in every state of algorithm 8.
THEOREM ListInvariant == ASpec => []ListInv
<1>1. ListInv /\ [ANext]_vvars => ListInv'
  BY ListStepInv
<1> QED
  BY <1>1, ListInitInv, PTL DEF ASpec

LEMMA ListInvSound ==
  ListInv => (ListHistory(hist) => AppendRejectedIsNotSI /\ AppendCrashIsNotSI)
<1> SUFFICES ASSUME ListInv, ListHistory(hist), AppendSI
             PROVE  verdict # "reject" /\ bpc # "crash"
  BY DEF AppendRejectedIsNotSI, AppendCrashIsNotSI
<1>1. PICK tm \in Timings(NTxns) : ExplainsLists(tm)
  BY DEF AppendSI
<1>2. ListsExplained(tm)
  BY <1>1, HistoriesAssumption DEF ListInv, ListsExplained
<1> QED
  BY <1>2 DEF ListInv, AgreesLists

(***************************************************************************)
(* The rejections of algorithm 8 are right: for any number of transactions *)
(* and lists, a history of reads and appends that it rejects, for a list   *)
(* without a writer, for lists that diverge or in the checker, is not      *)
(* snapshot isolated.                                                      *)
(***************************************************************************)
THEOREM AppendRejectionTheorem == ASpec => [](ListHistory(hist) => AppendRejectedIsNotSI)
<1>1. ListInv => (ListHistory(hist) => AppendRejectedIsNotSI)
  BY ListInvSound
<1> QED
  BY <1>1, ListInvariant, PTL

(***************************************************************************)
(* No snapshot isolated history of reads and appends ends algorithm 8 with *)
(* an AssertionError or a KeyError, in whatever order combine_writes walks *)
(* wwpairs.                                                                *)
(***************************************************************************)
THEOREM AppendCrashTheorem == ASpec => [](ListHistory(hist) => AppendCrashIsNotSI)
<1>1. ListInv => (ListHistory(hist) => AppendCrashIsNotSI)
  BY ListInvSound
<1> QED
  BY <1>1, ListInvariant, PTL

\* The polygraph of an accepted history has all its edges and is satisfiable.
THEOREM ListAcceptInvariant == ASpec => []ListAcceptInv
<1>1. ListAcceptInv /\ [ANext]_vvars => ListAcceptInv'
  BY ListAcceptStep
<1> QED
  BY <1>1, ListAcceptInit, PTL DEF ASpec

LEMMA ListAcceptSound ==
  ListAcceptInv =>
    ((ListHistory(hist) /\ TransparentLists(hist)) => AppendAcceptedOrderIsSI)
<1> SUFFICES ASSUME ListAcceptInv, ListHistory(hist), TransparentLists(hist),
                    verdict = "accept", ListOrder \subseteq AppendReadFrom
             PROVE  AppendSI
  BY DEF AppendAcceptedOrderIsSI
<1>1. PICK tm : ListTimed(tm)
  BY AcceptedListTimed
<1>2. ExplainsLists(tm) /\ tm \in Timings(NTxns)
  BY <1>1, ListTimedExplains DEF ListTimed
<1> QED
  BY <1>2 DEF AppendSI

(***************************************************************************)
(* The acceptances of algorithm 8 are right as well where each transaction *)
(* that follows another one in a list has read that one's append: for any  *)
(* number of transactions and lists, such a history that it accepts is     *)
(* snapshot isolated, provided that there is nothing in it that the loops  *)
(* over the reads leave out (TransparentLists).                            *)
(***************************************************************************)
THEOREM AppendAcceptanceTheorem ==
  ASpec => []((ListHistory(hist) /\ TransparentLists(hist)) => AppendAcceptedOrderIsSI)
<1>1. ListAcceptInv =>
        ((ListHistory(hist) /\ TransparentLists(hist)) => AppendAcceptedOrderIsSI)
  BY ListAcceptSound
<1> QED
  BY <1>1, ListAcceptInvariant, PTL
=============================================================================
