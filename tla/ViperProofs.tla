---------------------------- MODULE ViperProofs ----------------------------
(***************************************************************************)
(* Viper rejects no regular history that is snapshot isolated, and ends on *)
(* none with an exception, however many transactions and keys it has.      *)
(*                                                                         *)
(* Given timings that explain a history, the proof follows the builder.    *)
(* What a transaction reads is the write of the last visible writer, so    *)
(* none of the builder's rejections can happen, and every edge that it     *)
(* adds, and one side of every constraint, points forward in time.  The    *)
(* times then order the graph of these edges, which therefore has no       *)
(* cycle, and the checker is satisfied.                                    *)
(***************************************************************************)
EXTENDS Viper, ChainBuilderProofs

-----------------------------------------------------------------------------
(* Least and greatest numbers. *)

LEMMA LeastNat ==
  ASSUME NEW S \in SUBSET Nat, S # {}
  PROVE  \E x \in S : \A y \in S : x <= y
<1>1. IsWellFoundedOn(OpToRel(<, Nat), Nat)
  BY NatLessThanWellFounded
<1>2. PICK x \in S : \A y \in S : ~(<<y, x>> \in OpToRel(<, Nat))
  BY <1>1, WFMin
<1>3. \A y \in S : ~(y < x)
  BY <1>2 DEF OpToRel
<1> QED
  BY <1>3

LEMMA GreatestNat ==
  ASSUME NEW n \in Nat, NEW S \in SUBSET (0..n), S # {}
  PROVE  \E x \in S : \A y \in S : y <= x
<1> DEFINE D == {n - y : y \in S}
<1>0. \A y \in S : n - y \in Nat
  OBVIOUS
<1>1. D \in SUBSET Nat /\ D # {}
  BY <1>0
<1>2. PICK d \in D : \A e \in D : d <= e
  BY <1>1, LeastNat
<1>3. PICK x \in S : d = n - x
  BY <1>2
<1>4. \A y \in S : n - x <= n - y
  BY <1>2, <1>3
<1> QED
  BY <1>4

-----------------------------------------------------------------------------
(* What a mop observes and writes. *)

LEMMA ObservedFacts ==
  ASSUME NEW m
  PROVE  /\ m.f = "r" => Observed(m) = {<<m.k, m.v>>}
         /\ m.f = "range" => Observed(m) = RangeItems(m)
         /\ m.f \in {"i", "d"} => Observed(m) = {<<m.k, m.rv>>}
         /\ m.f \notin {"r", "range", "i", "d"} => Observed(m) = {}
  BY Zenon DEF Observed

LEMMA LastRwFacts ==
  ASSUME NEW m
  PROVE  /\ m.f \in {"r", "range"} => LastRw(m) = Observed(m)
         /\ m.f = "d" => LastRw(m) = {<<m.k, m.v>>}
         /\ (m.f = "w" /\ m.succ) => LastRw(m) = {<<m.k, m.v>>}
         /\ m.f \notin {"r", "range", "d", "w"} => LastRw(m) = {}
         /\ (m.f = "w" /\ ~m.succ) => LastRw(m) = {}
<1>1. m.f \in {"r", "range"} => LastRw(m) = Observed(m)
  BY Zenon DEF LastRw
<1>2. m.f = "d" => LastRw(m) = {<<m.k, m.v>>}
  BY Zenon DEF LastRw
<1>3. (m.f = "w" /\ m.succ) => LastRw(m) = {<<m.k, m.v>>}
  BY Zenon DEF LastRw
<1>4. m.f \notin {"r", "range", "d", "w"} => LastRw(m) = {}
  BY Zenon DEF LastRw
<1>5. (m.f = "w" /\ ~m.succ) => LastRw(m) = {}
  BY Zenon DEF LastRw
<1> QED
  BY <1>1, <1>2, <1>3, <1>4, <1>5

LEMMA KeysOfFacts ==
  ASSUME NEW items, NEW key
  PROVE  key \in KeysOf(items) <=> \E p \in items : p[1] = key
  BY DEF KeysOf

LEMMA WrittenKeysFacts ==
  ASSUME NEW txn, NEW key
  PROVE  key \in WrittenKeys(txn) <=> \E i \in DOMAIN txn : Writes(txn[i], key)
  BY DEF WrittenKeys, Writes

\* A writer of the key for the builder has written it successfully.
LEMMA WritersWrite ==
  ASSUME NEW h, NEW key, NEW t \in k_writes_fn(h, key)
  PROVE  t \in Ids(h) /\ key \in WrittenKeys(h.txns[t])
<1>1. PICK w \in ext_writes(h) : w[1] = key /\ w[3] = t
  BY KWritesFacts
<1>2. PICK u \in Ids(h) : \E p \in ext_writes_fn(h.txns[u]) : w = <<p[1], p[2], u>>
  BY ExtWritesFacts
<1>3. PICK p \in ext_writes_fn(h.txns[u]) : w = <<p[1], p[2], u>>
  BY <1>2
<1>4. u = t /\ p[1] = key
  BY <1>1, <1>3
<1>5. PICK j \in DOMAIN h.txns[t] : IsWrite(h.txns[t][j]) /\ h.txns[t][j].succ
                                  /\ p = <<h.txns[t][j].k, h.txns[t][j].v>>
  BY <1>4 DEF ext_writes_fn
<1>6. Writes(h.txns[t][j], key)
  BY <1>4, <1>5 DEF Writes
<1> QED
  BY <1>2, <1>4, <1>6, WrittenKeysFacts

\* The last write of a transaction is its external write.
LEMMA LastWriteIsExternal ==
  ASSUME NEW h, WellFormed(h), NEW t \in Ids(h), NEW key, NEW val,
         LastWriteIs(h.txns[t], Len(h.txns[t]) + 1, key, val)
  PROVE  t \in WritersOf(h, key, val)
<1> DEFINE txn == h.txns[t]
<1>1. Len(txn) \in Nat /\ DOMAIN txn = 1..Len(txn)
  BY DEF WellFormed
<1>2. PICK i \in WritesBefore(txn, Len(txn) + 1, key) :
        txn[i].v = val /\ \A l \in WritesBefore(txn, Len(txn) + 1, key) : l <= i
  BY DEF LastWriteIs
<1>3. i \in 1..(Len(txn) + 1)-1 /\ Writes(txn[i], key)
  BY DEF WritesBefore
<1>4. i \in DOMAIN txn
  BY <1>1, <1>3
<1>5. \A l \in DOMAIN txn : l > i => ~Writes(txn[l], key)
  <2> SUFFICES ASSUME NEW l \in DOMAIN txn, l > i, Writes(txn[l], key) PROVE FALSE
    OBVIOUS
  <2>1. l \in 1..(Len(txn) + 1)-1
    BY <1>1
  <2>2. l <= i
    BY <1>2, <2>1 DEF WritesBefore
  <2> QED
    BY <1>1, <1>4, <2>2
<1> HIDE DEF txn
<1>6. txn[i].k = key /\ IsWrite(txn[i]) /\ txn[i].succ
  BY <1>3 DEF Writes
<1>7. <<key, val>> \in ext_writes_fn(txn)
  BY <1>2, <1>4, <1>5, <1>6 DEF ext_writes_fn
<1>8. <<key, val, t>> \in ext_writes(h)
  BY <1>7, ExtWritesFacts DEF txn
<1> QED
  BY <1>8, WritersOfFacts

\* A read from outside has no write of its own transaction before it.
LEMMA ExternalRead ==
  ASSUME NEW h, WellFormed(h), NEW r \in ext_reads(h)
  PROVE  /\ r[3] \in Ids(h)
         /\ \E j \in DOMAIN h.txns[r[3]] :
              /\ \E p \in Observed(h.txns[r[3]][j]) : p[1] = r[1] /\ p[2] = r[2]
              /\ WritesBefore(h.txns[r[3]], j, r[1]) = {}
<1>1. PICK t \in Ids(h) : \E p \in ext_reads_fn(h.txns[t]) : r = <<p[1], p[2], t>>
  BY ExtReadsFacts
<1>2. PICK p \in ext_reads_fn(h.txns[t]) : r = <<p[1], p[2], t>>
  BY <1>1
<1> DEFINE txn == h.txns[t]
<1>3. PICK j \in DOMAIN txn :
        p \in Observed(txn[j]) /\ \A l \in 1..j-1 : p[1] \notin Ignored(txn[l])
  BY <1>2 DEF ext_reads_fn
<1> HIDE DEF txn
<1>4. ASSUME NEW l \in 1..j-1, Writes(txn[l], p[1]) PROVE FALSE
  <2>1. p[1] \notin Ignored(txn[l])
    BY <1>3
  <2>2. IsWrite(txn[l]) /\ txn[l].succ /\ txn[l].k = p[1]
    BY <1>4 DEF Writes
  <2>3. CASE txn[l].f = "w"
    BY <2>1, <2>2, <2>3 DEF Ignored
  <2>4. CASE txn[l].f \in {"i", "d"}
    <3>1. <<txn[l].k, txn[l].rv>> \in Observed(txn[l])
      BY <2>4, ObservedFacts
    <3>2. p[1] \in KeysOf(Observed(txn[l]))
      BY <2>2, <3>1, KeysOfFacts
    <3> QED
      BY <2>1, <3>2 DEF Ignored
  <2> QED
    BY <2>2, <2>3, <2>4 DEF IsWrite
<1>5. WritesBefore(txn, j, p[1]) = {}
  BY <1>4 DEF WritesBefore
<1> QED
  BY <1>2, <1>3, <1>5 DEF txn

-----------------------------------------------------------------------------
(* Timings that explain a history. *)

Explained(h, tm, init) ==
  /\ WellFormed(h)
  /\ Regular(h)
  /\ init \in InitialStates(h)
  /\ tm \in Timings(NTxns)
  /\ Explains(h, tm, init, StrongSession)

LEMMA TimingTypes ==
  ASSUME NEW h, WellFormed(h), NEW tm \in Timings(NTxns)
  PROVE  /\ \A t \in Ids(h) : /\ tm.commit[t] \in 1..NTxns /\ tm.begin[t] \in 0..NTxns-1
                              /\ tm.begin[t] < tm.commit[t]
                              /\ tm.commit[t] \in Int /\ tm.begin[t] \in Int
         /\ \A t, u \in Ids(h) : t # u => tm.commit[t] # tm.commit[u]
<1>1. Ids(h) = 1..NTxns
  BY IdsFacts
<1>2. tm \in [commit : CommitOrders(NTxns), begin : [1..NTxns -> 0..NTxns-1]]
      /\ \A t \in 1..NTxns : tm.begin[t] < tm.commit[t]
  BY DEF Timings
<1>3. tm.commit \in [1..NTxns -> 1..NTxns] /\ tm.begin \in [1..NTxns -> 0..NTxns-1]
      /\ \A t, u \in 1..NTxns : t # u => tm.commit[t] # tm.commit[u]
  BY <1>2 DEF CommitOrders
<1>4. ASSUME NEW t \in 1..NTxns
      PROVE  /\ tm.commit[t] \in 1..NTxns /\ tm.begin[t] \in 0..NTxns-1
             /\ tm.commit[t] \in Int /\ tm.begin[t] \in Int
  <2>1. tm.commit[t] \in 1..NTxns
    BY <1>3
  <2>2. tm.begin[t] \in 0..NTxns-1
    BY <1>3
  <2> QED
    BY <2>1, <2>2, NTxnsAssumption
<1> QED
  BY <1>1, <1>2, <1>3, <1>4

LEMMA TimingFacts ==
  ASSUME NEW h, NEW tm, NEW init, Explained(h, tm, init)
  PROVE  /\ \A t \in Ids(h) : /\ tm.commit[t] \in 1..NTxns /\ tm.begin[t] \in 0..NTxns-1
                              /\ tm.begin[t] < tm.commit[t]
                              /\ tm.commit[t] \in Int /\ tm.begin[t] \in Int
         /\ \A t, u \in Ids(h) : t # u => tm.commit[t] # tm.commit[u]
  BY TimingTypes DEF Explained

\* The snapshot has the last visible write.
LEMMA SnapshotFacts ==
  ASSUME NEW h, NEW tm, NEW init, Explained(h, tm, init), NEW t \in Ids(h), NEW key,
         NEW u, u = SnapshotWriter(h, tm, t, key)
  PROVE  /\ u = 0 => Visible(h, tm, t, key) = {}
         /\ u # 0 => /\ u \in Visible(h, tm, t, key)
                     /\ \A w \in Visible(h, tm, t, key) : tm.commit[w] <= tm.commit[u]
<1> DEFINE V == Visible(h, tm, t, key)
<1>1. V \subseteq Ids(h)
  BY DEF Visible
<1>2. \A w \in Ids(h) : w # 0
  BY IdsFacts DEF Explained
<1>3. CASE V = {}
  BY <1>3 DEF SnapshotWriter
<1>4. CASE V # {}
  <2> DEFINE C == {tm.commit[w] : w \in V}
  <2>1. C \in SUBSET (0..NTxns) /\ C # {}
    BY <1>1, <1>4, TimingFacts, NTxnsAssumption
  <2>2. PICK c \in C : \A d \in C : d <= c
    BY <2>1, GreatestNat, NTxnsAssumption
  <2>3. \E w \in V : \A x \in V : tm.commit[x] <= tm.commit[w]
    BY <2>2
  <2>4. u = CHOOSE w \in V : \A x \in V : tm.commit[x] <= tm.commit[w]
    BY <1>4 DEF SnapshotWriter
  <2>5. u \in V /\ \A x \in V : tm.commit[x] <= tm.commit[u]
    BY <2>3, <2>4, Zenon
  <2> QED
    BY <1>1, <1>2, <2>5
<1> QED
  BY <1>3, <1>4

\* A transaction observes at mop j what Explains says it does.
LEMMA ObservedValue ==
  ASSUME NEW h, NEW tm, NEW init, Explained(h, tm, init),
         NEW t \in Ids(h), NEW j \in DOMAIN h.txns[t], NEW p \in Observed(h.txns[t][j])
  PROVE  HasValue(h, tm, init, t, j, p[1], p[2])
  BY DEF Explained, Explains

\* T0's values and NULL_VALUE are nobody's.
LEMMA InitialNotWritten ==
  ASSUME NEW h, NEW tm, NEW init, Explained(h, tm, init), NEW key, NEW val,
         val = IF key \in DOMAIN init THEN init[key] ELSE NULL_VALUE,
         NEW t \in Ids(h), NEW i \in DOMAIN h.txns[t], IsWrite(h.txns[t][i]),
         h.txns[t][i].k = key
  PROVE  h.txns[t][i].v # val
<1>1. Regular(h) /\ init \in InitialStates(h)
  BY DEF Explained
<1>2. CASE key \notin DOMAIN init
  BY <1>1, <1>2 DEF Regular, NoInitialWrites
<1>3. CASE key \in DOMAIN init /\ h.hasInit
  <2>1. init = h.init
    BY <1>1, <1>3 DEF InitialStates
  <2> QED
    BY <1>1, <1>3, <2>1 DEF Regular, NoInitialWrites
<1>4. CASE key \in DOMAIN init /\ ~h.hasInit
  <2>1. ~SomeoneWrote(h, key, init[key])
    BY <1>1, <1>4 DEF InitialStates
  <2> QED
    BY <1>4, <2>1 DEF SomeoneWrote
<1> QED
  BY <1>2, <1>3, <1>4

\* What a transaction reads from outside: its last visible writer's value,
\* or the initial one.
LEMMA ExternalReadValue ==
  ASSUME NEW h, NEW tm, NEW init, Explained(h, tm, init), NEW r \in ext_reads(h),
         NEW u, u = SnapshotWriter(h, tm, r[3], r[1])
  PROVE  /\ r[3] \in Ids(h)
         /\ u # 0 => u \in Ids(h) /\ u \in WritersOf(h, r[1], r[2])
         /\ u = 0 => r[2] = IF r[1] \in DOMAIN init THEN init[r[1]] ELSE NULL_VALUE
<1>1. WellFormed(h)
  BY DEF Explained
<1>2. r[3] \in Ids(h)
  BY <1>1, ExternalRead
<1>3. PICK j \in DOMAIN h.txns[r[3]] :
        /\ \E p \in Observed(h.txns[r[3]][j]) : p[1] = r[1] /\ p[2] = r[2]
        /\ WritesBefore(h.txns[r[3]], j, r[1]) = {}
  BY <1>1, ExternalRead
<1>4. HasValue(h, tm, init, r[3], j, r[1], r[2])
  BY <1>2, <1>3, ObservedValue
<1>5. IF u # 0 THEN LastWriteIs(h.txns[u], Len(h.txns[u]) + 1, r[1], r[2])
      ELSE IF r[1] \in DOMAIN init THEN r[2] = init[r[1]] ELSE r[2] = NULL_VALUE
  BY <1>3, <1>4 DEF HasValue
<1>6. u # 0 => u \in Ids(h)
  <2>1. u # 0 => u \in Visible(h, tm, r[3], r[1])
    BY <1>2, SnapshotFacts
  <2> QED
    BY <2>1 DEF Visible
<1>7. u # 0 => u \in WritersOf(h, r[1], r[2])
  BY <1>1, <1>5, <1>6, LastWriteIsExternal
<1> QED
  BY <1>2, <1>5, <1>6, <1>7

\* The initial value has no writer.
LEMMA InitialHasNoWriter ==
  ASSUME NEW h, NEW tm, NEW init, Explained(h, tm, init), NEW key, NEW val,
         val = IF key \in DOMAIN init THEN init[key] ELSE NULL_VALUE
  PROVE  WritersOf(h, key, val) = {}
<1> SUFFICES ASSUME NEW t \in WritersOf(h, key, val) PROVE FALSE
  OBVIOUS
<1>1. PICK w \in ext_writes(h) : w[1] = key /\ w[2] = val /\ w[3] = t
  BY WritersOfFacts
<1>2. PICK u \in Ids(h) : \E p \in ext_writes_fn(h.txns[u]) : w = <<p[1], p[2], u>>
  BY ExtWritesFacts
<1>3. PICK p \in ext_writes_fn(h.txns[u]) : w = <<p[1], p[2], u>>
  BY <1>2
<1>4. PICK j \in DOMAIN h.txns[u] : IsWrite(h.txns[u][j])
                                  /\ p = <<h.txns[u][j].k, h.txns[u][j].v>>
  BY DEF ext_writes_fn
<1>5. h.txns[u][j].k = key /\ h.txns[u][j].v = val
  BY <1>1, <1>3, <1>4
<1> QED
  BY <1>4, <1>5, InitialNotWritten

-----------------------------------------------------------------------------
(* check_INT accepts every transaction. *)

LEMMA LastWriteUnique ==
  ASSUME NEW txn, NEW j \in Int, NEW key, NEW v, NEW w,
         LastWriteIs(txn, j, key, v), LastWriteIs(txn, j, key, w)
  PROVE  v = w
<1>1. PICK a \in WritesBefore(txn, j, key) :
        txn[a].v = v /\ \A l \in WritesBefore(txn, j, key) : l <= a
  BY DEF LastWriteIs
<1>2. PICK b \in WritesBefore(txn, j, key) :
        txn[b].v = w /\ \A l \in WritesBefore(txn, j, key) : l <= b
  BY DEF LastWriteIs
<1>3. a \in Int /\ b \in Int
  BY DEF WritesBefore
<1>4. a = b
  BY <1>1, <1>2, <1>3
<1> QED
  BY <1>1, <1>2, <1>4

\* A key has one value at a time.
LEMMA ValueUnique ==
  ASSUME NEW h, NEW tm, NEW init, Explained(h, tm, init), NEW t \in Ids(h),
         NEW i \in Int, NEW j \in Int, NEW key, NEW v, NEW w,
         HasValue(h, tm, init, t, i, key, v), HasValue(h, tm, init, t, j, key, w),
         WritesBefore(h.txns[t], i, key) = WritesBefore(h.txns[t], j, key)
  PROVE  v = w
<1> DEFINE u == SnapshotWriter(h, tm, t, key)
<1>1. CASE WritesBefore(h.txns[t], j, key) # {}
  <2>1. LastWriteIs(h.txns[t], i, key, v) /\ LastWriteIs(h.txns[t], j, key, w)
    BY <1>1 DEF HasValue
  <2>2. LastWriteIs(h.txns[t], j, key, v)
    BY <2>1 DEF LastWriteIs
  <2> QED
    BY <2>1, <2>2, LastWriteUnique
<1>2. CASE WritesBefore(h.txns[t], j, key) = {} /\ u # 0
  <2>1. u \in Ids(h)
    BY <1>2, SnapshotFacts DEF Visible
  <2>2. Len(h.txns[u]) + 1 \in Int
    BY <2>1 DEF Explained, WellFormed
  <2>3. /\ LastWriteIs(h.txns[u], Len(h.txns[u]) + 1, key, v)
        /\ LastWriteIs(h.txns[u], Len(h.txns[u]) + 1, key, w)
    BY <1>2 DEF HasValue
  <2> QED
    BY <2>2, <2>3, LastWriteUnique
<1>3. CASE WritesBefore(h.txns[t], j, key) = {} /\ u = 0
  BY <1>3 DEF HasValue
<1> QED
  BY <1>1, <1>2, <1>3

\* No write of the key between i and j but the one at i.
LEMMA NoWriteBetween ==
  ASSUME NEW h, Regular(h), NEW t \in Ids(h), NEW i \in DOMAIN h.txns[t],
         NEW j \in DOMAIN h.txns[t], DOMAIN h.txns[t] \subseteq Int, NEW key,
         key \in KeysOf(Observed(h.txns[t][j])),
         \A l \in i+1..j-1 : key \notin KeysOf(LastRw(h.txns[t][l])),
         NEW l \in i+1..j-1, l \in DOMAIN h.txns[t]
  PROVE  ~Writes(h.txns[t][l], key)
<1> SUFFICES ASSUME Writes(h.txns[t][l], key) PROVE FALSE
  OBVIOUS
<1> PICK m : m = h.txns[t][l]
  OBVIOUS
<1>1. IsWrite(m) /\ m.succ /\ m.k = key
  BY DEF Writes
<1>2. key \notin KeysOf(LastRw(m)) /\ l < j
  OBVIOUS
<1>3. CASE m.f = "i"
  BY <1>1, <1>2, <1>3 DEF Regular, InsertsUnobserved
<1>4. CASE m.f \in {"w", "d"}
  <2>1. <<key, m.v>> \in LastRw(m)
    BY <1>1, <1>4, LastRwFacts
  <2> QED
    BY <1>2, <2>1, KeysOfFacts
<1> QED
  BY <1>1, <1>3, <1>4 DEF IsWrite

LEMMA ReadsAgree ==
  ASSUME NEW h, NEW tm, NEW init, Explained(h, tm, init),
         NEW t \in Ids(h), NEW j \in DOMAIN h.txns[t], NEW p \in Observed(h.txns[t][j])
  PROVE  ~DiffersFromLast(h.txns[t], j, p[1], p[2])
<1> DEFINE txn == h.txns[t]
<1> SUFFICES ASSUME DiffersFromLast(txn, j, p[1], p[2]) PROVE FALSE
  OBVIOUS
<1>1. PICK i \in 1..j-1 :
        /\ \E q \in LastRw(txn[i]) : q[1] = p[1] /\ q[2] # p[2]
        /\ \A l \in i+1..j-1 : p[1] \notin KeysOf(LastRw(txn[l]))
  BY DEF DiffersFromLast
<1>2. PICK q \in LastRw(txn[i]) : q[1] = p[1] /\ q[2] # p[2]
  BY <1>1
<1>3. Len(txn) \in Nat /\ DOMAIN txn = 1..Len(txn)
  BY DEF Explained, WellFormed
<1> HIDE DEF txn
<1>4. i \in DOMAIN txn /\ i \in Int /\ j \in Int /\ i < j /\ 1..j-1 \subseteq DOMAIN txn
  BY <1>3 DEF txn
<1>5. HasValue(h, tm, init, t, j, p[1], p[2])
  BY ObservedValue
<1>6. p[1] \in KeysOf(Observed(txn[j])) /\ Regular(h)
  BY KeysOfFacts DEF txn, Explained
<1>7. \A l \in i+1..j-1 : ~Writes(txn[l], p[1])
  <2> TAKE l \in i+1..j-1
  <2>1. l \in DOMAIN txn
    BY <1>4
  <2>2. DOMAIN txn \subseteq Int
    BY <1>3
  <2> PICK key : key = p[1]
    OBVIOUS
  <2>3. /\ \A x \in i+1..j-1 : key \notin KeysOf(LastRw(txn[x]))
        /\ key \in KeysOf(Observed(txn[j]))
    BY <1>1, <1>6
  <2>4. ~Writes(txn[l], key)
    BY <1>4, <1>6, <2>1, <2>2, <2>3, NoWriteBetween, Zenon DEF txn
  <2> QED
    BY <2>4
<1>8. CASE txn[i].f \in {"r", "range"}
  <2>1. q \in Observed(txn[i])
    BY <1>2, <1>8, LastRwFacts
  <2>2. HasValue(h, tm, init, t, i, p[1], q[2])
    BY <1>2, <1>4, <2>1, ObservedValue DEF txn
  <2>3. ~Writes(txn[i], p[1])
    BY <1>8 DEF Writes, IsWrite
  <2>4. WritesBefore(txn, i, p[1]) = WritesBefore(txn, j, p[1])
    <3>1. \A l \in 1..j-1 : l \in 1..i-1 \/ l = i \/ l \in i+1..j-1
      BY <1>4
    <3>2. \A l \in 1..i-1 : l \in 1..j-1
      BY <1>4
    <3> QED
      BY <1>7, <2>3, <3>1, <3>2 DEF WritesBefore
  <2> QED
    BY <1>2, <1>4, <1>5, <2>2, <2>4, ValueUnique DEF txn
<1>9. CASE txn[i].f \in {"d", "w"}
  <2>1. Writes(txn[i], p[1]) /\ txn[i].v = q[2]
    <3>1. txn[i].succ
      <4>1. CASE txn[i].f = "d"
        BY <1>4, <1>6, <4>1 DEF txn, Regular, DeletionsSucceed
      <4>2. CASE txn[i].f = "w"
        BY <1>2, <4>2, LastRwFacts
      <4> QED
        BY <1>9, <4>1, <4>2
    <3>2. q = <<txn[i].k, txn[i].v>>
      BY <1>2, <1>9, <3>1, LastRwFacts
    <3> QED
      BY <1>2, <1>9, <3>1, <3>2 DEF Writes, IsWrite
  <2>2. i \in WritesBefore(txn, j, p[1])
    BY <2>1 DEF WritesBefore
  <2>3. LastWriteIs(txn, j, p[1], p[2])
    BY <1>5, <2>2 DEF HasValue, txn
  <2>4. \A l \in WritesBefore(txn, j, p[1]) : l <= i
    <3> SUFFICES ASSUME NEW l \in 1..j-1, Writes(txn[l], p[1]), ~(l <= i) PROVE FALSE
      BY DEF WritesBefore
    <3>1. l \in i+1..j-1
      BY <1>4
    <3> QED
      BY <1>7, <3>1
  <2>5. LastWriteIs(txn, j, p[1], q[2])
    BY <2>1, <2>2, <2>4 DEF LastWriteIs
  <2> QED
    BY <1>2, <1>4, <2>3, <2>5, LastWriteUnique
<1>10. CASE txn[i].f \notin {"r", "range", "d", "w"}
  BY <1>2, <1>10, LastRwFacts
<1> QED
  BY <1>8, <1>9, <1>10

LEMMA NoFutureRead ==
  ASSUME NEW h, NEW tm, NEW init, Explained(h, tm, init),
         NEW t \in Ids(h), NEW j \in DOMAIN h.txns[t], NEW p \in Observed(h.txns[t][j])
  PROVE  ~FutureRead(h.txns[t], j, p[1], p[2])
<1> SUFFICES ASSUME FutureRead(h.txns[t], j, p[1], p[2]) PROVE FALSE
  OBVIOUS
<1>1. PICK i \in j+1..Len(h.txns[t]) :
        h.txns[t][i].f = "w" /\ h.txns[t][i].k = p[1] /\ h.txns[t][i].v = p[2]
  BY DEF FutureRead
<1>2. /\ Len(h.txns[t]) \in Nat /\ DOMAIN h.txns[t] = 1..Len(h.txns[t])
      /\ \A u \in Ids(h) : Len(h.txns[u]) \in Nat /\ DOMAIN h.txns[u] = 1..Len(h.txns[u])
  BY DEF Explained, WellFormed
<1>3. i \in DOMAIN h.txns[t] /\ j \in Int /\ j < i /\ IsWrite(h.txns[t][i])
  BY <1>1, <1>2 DEF IsWrite
<1>4. HasValue(h, tm, init, t, j, p[1], p[2])
  BY ObservedValue
\* The value is written only there.
<1>5. ASSUME NEW u \in Ids(h), NEW l \in DOMAIN h.txns[u], Writes(h.txns[u][l], p[1]),
             h.txns[u][l].v = p[2]
      PROVE  u = t /\ l = i
  BY <1>1, <1>3, <1>5 DEF Writes, Explained, Regular, UniqueWrites
<1> DEFINE x == SnapshotWriter(h, tm, t, p[1])
<1>6. CASE WritesBefore(h.txns[t], j, p[1]) # {}
  <2>1. LastWriteIs(h.txns[t], j, p[1], p[2])
    BY <1>4, <1>6 DEF HasValue
  <2>2. PICK l \in 1..j-1 : Writes(h.txns[t][l], p[1]) /\ h.txns[t][l].v = p[2]
    BY <2>1 DEF LastWriteIs, WritesBefore
  <2>3. l \in DOMAIN h.txns[t] /\ l # i
    BY <1>2, <1>3
  <2> QED
    BY <1>5, <2>2, <2>3
<1>7. CASE WritesBefore(h.txns[t], j, p[1]) = {} /\ x # 0
  <2>1. x \in Ids(h) /\ tm.commit[x] <= tm.begin[t]
    BY <1>7, SnapshotFacts DEF Visible
  <2>2. x # t
    BY <2>1, TimingFacts
  <2>3. LastWriteIs(h.txns[x], Len(h.txns[x]) + 1, p[1], p[2])
    BY <1>4, <1>7 DEF HasValue
  <2>4. PICK l \in 1..(Len(h.txns[x]) + 1)-1 :
          Writes(h.txns[x][l], p[1]) /\ h.txns[x][l].v = p[2]
    BY <2>3 DEF LastWriteIs, WritesBefore
  <2>5. l \in DOMAIN h.txns[x]
    BY <1>2, <2>1
  <2> QED
    BY <1>5, <2>1, <2>2, <2>4, <2>5
<1>8. CASE WritesBefore(h.txns[t], j, p[1]) = {} /\ x = 0
  <2>1. p[2] = IF p[1] \in DOMAIN init THEN init[p[1]] ELSE NULL_VALUE
    BY <1>4, <1>8 DEF HasValue
  <2> QED
    BY <1>1, <1>3, <2>1, InitialNotWritten
<1> QED
  BY <1>6, <1>7, <1>8

LEMMA NoINTError ==
  ASSUME NEW h, NEW tm, NEW init, Explained(h, tm, init), NEW t \in Ids(h)
  PROVE  ~INTError(h.txns[t])
<1> SUFFICES ASSUME NEW j \in DOMAIN h.txns[t], NEW p \in IntReads(h.txns[t][j])
             PROVE  /\ ~DiffersFromLast(h.txns[t], j, p[1], p[2])
                    /\ ~FutureRead(h.txns[t], j, p[1], p[2])
  BY DEF INTError
<1>1. p \in Observed(h.txns[t][j])
  BY DEF IntReads
<1> QED
  BY <1>1, ReadsAgree, NoFutureRead

-----------------------------------------------------------------------------
(* The reads: what the builder takes for the writer is the snapshot's. *)

LEMMA NoDirtyRead ==
  ASSUME NEW tm, NEW init, Explained(hist, tm, init), NEW r \in ext_reads(hist)
  PROVE  ~DirtyRead(r[1], r[2])
<1> SUFFICES ASSUME DirtyRead(r[1], r[2]) PROVE FALSE
  OBVIOUS
<1>1. WritersOf(hist, r[1], r[2]) = {} /\ ~ReadsT0(r[1], r[2]) /\ r[2] # NULL_VALUE
  BY DEF DirtyRead
<1> PICK u : u = SnapshotWriter(hist, tm, r[3], r[1])
  OBVIOUS
<1>2. r[2] = IF r[1] \in DOMAIN init THEN init[r[1]] ELSE NULL_VALUE
  BY <1>1, ExternalReadValue
<1>3. r[1] \in DOMAIN init /\ r[2] = init[r[1]]
  BY <1>1, <1>2
<1>4. hist.hasInit => init = hist.init
  BY DEF Explained, InitialStates
<1> QED
  BY <1>1, <1>3, <1>4 DEF ReadsT0

LEMMA ReadFromSnapshot ==
  ASSUME NEW tm, NEW init, Explained(hist, tm, init), ReadsFine, NEW f \in ReadFrom
  PROVE  f[3] \in Ids(hist) /\ SnapshotWriter(hist, tm, f[3], f[1]) = f[2]
<1>1. PICK r \in ext_reads(hist) : \E w :
        /\ f = <<r[1], w, r[3]>>
        /\ \/ w \in WritersOf(hist, r[1], r[2])
           \/ w = 0 /\ ReadsT0(r[1], r[2])
  BY ReadFromFacts
<1> PICK u : u = SnapshotWriter(hist, tm, r[3], r[1])
  OBVIOUS
<1>2. /\ r[3] \in Ids(hist)
      /\ u # 0 => u \in Ids(hist) /\ u \in WritersOf(hist, r[1], r[2])
      /\ u = 0 => r[2] = IF r[1] \in DOMAIN init THEN init[r[1]] ELSE NULL_VALUE
  BY ExternalReadValue
<1>f. f[1] = r[1] /\ f[3] = r[3]
  BY <1>1
<1>3. CASE f[2] \in WritersOf(hist, r[1], r[2])
  <2>1. u # 0
    BY <1>2, <1>3, InitialHasNoWriter
  <2>2. u = f[2]
    BY <1>2, <1>3, <2>1, OneWriter DEF Explained
  <2> QED
    BY <1>2, <1>f, <2>2
<1>4. CASE f[2] = 0 /\ ReadsT0(r[1], r[2])
  <2>1. u = 0
    BY <1>2, <1>4 DEF ReadsT0
  <2> QED
    BY <1>2, <1>4, <1>f, <2>1
<1> QED
  BY <1>1, <1>3, <1>4

\* x comes before y: it commits before y begins.
Precedes(tm, x, y) == tm.commit[x] <= tm.begin[y]

\* A reader begins after its writer commits, and before any later writer of
\* the key does.
LEMMA ReaderTiming ==
  ASSUME NEW tm, NEW init, Explained(hist, tm, init), ReadsFine, NEW f \in ReadFrom
  PROVE  /\ f[3] \in Ids(hist)
         /\ f[2] # 0 => f[2] \in Ids(hist) /\ Precedes(tm, f[2], f[3])
         /\ \A x \in k_writes_fn(hist, f[1]) :
              \/ tm.begin[f[3]] < tm.commit[x]
              \/ f[2] # 0 /\ tm.commit[x] <= tm.commit[f[2]]
<1> PICK u : u = SnapshotWriter(hist, tm, f[3], f[1])
  OBVIOUS
<1>1. f[3] \in Ids(hist) /\ u = f[2]
  BY ReadFromSnapshot
<1>2. /\ u = 0 => Visible(hist, tm, f[3], f[1]) = {}
      /\ u # 0 => /\ u \in Visible(hist, tm, f[3], f[1])
                  /\ \A w \in Visible(hist, tm, f[3], f[1]) : tm.commit[w] <= tm.commit[u]
  BY <1>1, SnapshotFacts
<1>3. f[2] # 0 => f[2] \in Ids(hist) /\ Precedes(tm, f[2], f[3])
  BY <1>1, <1>2 DEF Visible, Precedes
<1>4. ASSUME NEW x \in k_writes_fn(hist, f[1]), ~(tm.begin[f[3]] < tm.commit[x])
      PROVE  f[2] # 0 /\ tm.commit[x] <= tm.commit[f[2]]
  <2>1. x \in Ids(hist) /\ f[1] \in WrittenKeys(hist.txns[x])
    BY WritersWrite
  <2>2. tm.commit[x] <= tm.begin[f[3]]
    BY <1>1, <1>4, <2>1, TimingFacts
  <2>3. x \in Visible(hist, tm, f[3], f[1])
    BY <2>1, <2>2 DEF Visible
  <2> QED
    BY <1>1, <1>2, <2>3
<1> QED
  BY <1>1, <1>3, <1>4

\* Two writers of a key do not overlap.
LEMMA WritersOrdered ==
  ASSUME NEW tm, NEW init, Explained(hist, tm, init), NEW key,
         NEW x \in k_writes_fn(hist, key), NEW y \in k_writes_fn(hist, key), x # y
  PROVE  /\ x \in Ids(hist) /\ y \in Ids(hist)
         /\ Precedes(tm, x, y) \/ Precedes(tm, y, x)
<1>1. x \in Ids(hist) /\ y \in Ids(hist)
      /\ key \in WrittenKeys(hist.txns[x]) /\ key \in WrittenKeys(hist.txns[y])
  BY WritersWrite
<1>2. WrittenKeys(hist.txns[x]) \cap WrittenKeys(hist.txns[y]) # {}
  BY <1>1
<1> QED
  BY <1>1, <1>2 DEF Explained, Explains, NoConflict, Precedes

\* Versions that follow each other: no writer of the key comes between.
LEMMA NextVersionTiming ==
  ASSUME NEW tm, NEW init, Explained(hist, tm, init), ReadsFine, readfrom = ReadFrom,
         NEW f \in NextVersions
  PROVE  /\ f[2] \in Ids(hist) /\ f[3] \in Ids(hist) /\ Precedes(tm, f[2], f[3])
         /\ \A x \in k_writes_fn(hist, f[1]) :
              Precedes(tm, x, f[3]) => x = f[2] \/ Precedes(tm, x, f[2])
<1>1. f \in ReadFrom /\ f[2] # 0 /\ f[3] \in k_writes_fn(hist, f[1])
  BY DEF NextVersions
<1>2. f[2] \in k_writes_fn(hist, f[1])
  BY NextVersionsTypes DEF Explained
<1>3. f[2] \in Ids(hist) /\ f[3] \in Ids(hist) /\ Precedes(tm, f[2], f[3])
  BY <1>1, ReaderTiming
<1>4. ASSUME NEW x \in k_writes_fn(hist, f[1]), Precedes(tm, x, f[3]), x # f[2]
      PROVE  Precedes(tm, x, f[2])
  <2>1. x \in Ids(hist) /\ (Precedes(tm, x, f[2]) \/ Precedes(tm, f[2], x))
    BY <1>2, <1>4, WritersOrdered
  <2>2. /\ tm.begin[f[3]] < tm.commit[x] \/ tm.commit[x] <= tm.commit[f[2]]
        /\ tm.commit[x] <= tm.begin[f[3]]
    BY <1>1, <1>4, ReaderTiming DEF Precedes
  <2>3. /\ tm.commit[x] \in Int /\ tm.begin[x] \in Int /\ tm.begin[x] < tm.commit[x]
        /\ tm.commit[f[2]] \in Int /\ tm.begin[f[3]] \in Int
    BY <1>3, <2>1, TimingFacts
  <2>4. ~Precedes(tm, f[2], x)
    BY <2>2, <2>3 DEF Precedes
  <2> QED
    BY <2>1, <2>4
<1> QED
  BY <1>3, <1>4

LEMMA NoDivergence ==
  ASSUME NEW tm, NEW init, Explained(hist, tm, init), ReadsFine, readfrom = ReadFrom
  PROVE  ~Diverges
<1> SUFFICES ASSUME NEW f \in NextVersions, NEW g \in NextVersions,
                    f[1] = g[1], f[2] = g[2], f[3] # g[3]
             PROVE  FALSE
  BY DEF Diverges
<1>1. ASSUME NEW a \in NextVersions, NEW b \in NextVersions, a[1] = b[1], a[2] = b[2],
             Precedes(tm, a[3], b[3])
      PROVE  FALSE
  <2>1. a[3] \in k_writes_fn(hist, b[1]) /\ a[2] # a[3]
    BY <1>1, NextVersionsTypes DEF Explained
  <2>2. Precedes(tm, a[3], a[2]) /\ Precedes(tm, a[2], a[3])
    BY <1>1, <2>1, NextVersionTiming
  <2>3. a[2] \in Ids(hist) /\ a[3] \in Ids(hist)
    BY NextVersionTiming
  <2>4. /\ tm.commit[a[2]] \in Int /\ tm.begin[a[2]] \in Int /\ tm.begin[a[2]] < tm.commit[a[2]]
        /\ tm.commit[a[3]] \in Int /\ tm.begin[a[3]] \in Int /\ tm.begin[a[3]] < tm.commit[a[3]]
    BY <2>3, TimingFacts
  <2> QED
    BY <2>2, <2>4 DEF Precedes
<1>2. f[3] \in k_writes_fn(hist, f[1]) /\ g[3] \in k_writes_fn(hist, f[1])
  BY DEF NextVersions
<1>3. Precedes(tm, f[3], g[3]) \/ Precedes(tm, g[3], f[3])
  BY <1>2, WritersOrdered
<1> QED
  BY <1>1, <1>3

LEMMA NoVersionCycle ==
  ASSUME NEW tm, NEW init, Explained(hist, tm, init), ReadsFine, readfrom = ReadFrom,
         NEW key, NEW S \in SUBSET (Txn \ {0}), S # {}
  PROVE  \E t \in S : \A u \in S : <<key, u, t>> \notin NextVersions
<1> SUFFICES ASSUME \A t \in S : \E u \in S : <<key, u, t>> \in NextVersions PROVE FALSE
  OBVIOUS
<1>1. Ids(hist) = 1..NTxns /\ S \subseteq Ids(hist)
  BY IdsFacts, NTxnsAssumption DEF Explained, Txn
<1> DEFINE C == {tm.commit[t] : t \in S}
<1>2. C \in SUBSET Nat /\ C # {}
  <2>1. \A t \in S : tm.commit[t] \in Nat
    <3>1. \A t \in Ids(hist) : tm.commit[t] \in 1..NTxns
      BY TimingFacts
    <3> QED
      BY <1>1, <3>1, NTxnsAssumption
  <2> QED
    BY <2>1
<1>3. PICK c \in C : \A d \in C : c <= d
  BY <1>2, LeastNat
<1>4. PICK t \in S : c = tm.commit[t]
  BY <1>3
<1>5. PICK u \in S : <<key, u, t>> \in NextVersions
  OBVIOUS
<1>6. Precedes(tm, u, t)
  BY <1>5, NextVersionTiming
<1>7. tm.commit[t] <= tm.commit[u]
  BY <1>3, <1>4
<1>8. /\ tm.commit[u] \in Int /\ tm.begin[t] \in Int /\ tm.commit[t] \in Int
      /\ tm.begin[t] < tm.commit[t]
  BY <1>1, TimingFacts
<1> QED
  BY <1>6, <1>7, <1>8 DEF Precedes

-----------------------------------------------------------------------------
(* The known edges point forward in time. *)

Forward(tm, e) ==
  \/ e[1] = 0
  \/ e[3] = "rw" /\ tm.begin[e[1]] < tm.commit[e[2]]
  \/ e[3] # "rw" /\ Precedes(tm, e[1], e[2])

LEMMA SessionEdgesForward ==
  ASSUME NEW tm, NEW init, Explained(hist, tm, init), NEW e \in SessionEdges
  PROVE  Forward(tm, e)
<1>1. StrongSession /\ \E p \in SessionPairs(hist) : e = <<p[1], p[2], "cb">>
  BY DEF SessionEdges
<1>2. PICK p \in SessionPairs(hist) : e = <<p[1], p[2], "cb">>
  BY <1>1
<1>3. PICK s \in hist.sessions : \E i \in 1..Len(s)-1 : p = <<s[i], s[i+1]>>
  BY DEF SessionPairs
<1>4. PICK i \in 1..Len(s)-1 : p = <<s[i], s[i+1]>>
  BY <1>3
<1>5. s \in Seq(1..NTxns)
  BY DEF Explained, WellFormed
<1>6. Len(s) \in Nat /\ DOMAIN s = 1..Len(s)
  BY <1>5, LenProperties
<1>7. i \in DOMAIN s /\ i + 1 \in DOMAIN s /\ i < i + 1
  BY <1>6
<1>8. tm.commit[s[i]] <= tm.begin[s[i+1]]
  BY <1>1, <1>7 DEF Explained, Explains, SessionsOrdered
<1> QED
  BY <1>2, <1>4, <1>8 DEF Forward, Precedes

LEMMA ReadEdgesForward ==
  ASSUME NEW tm, NEW init, Explained(hist, tm, init), ReadsFine, NEW e \in ReadEdges
  PROVE  Forward(tm, e)
<1>1. CASE \E f \in ReadFrom : e = <<f[2], f[3], "wr">>
  BY <1>1, ReaderTiming DEF Forward
<1>2. CASE e \in T0ReaderEdges
  <2>1. PICK r \in ext_reads(hist) :
          ReadsT0(r[1], r[2]) /\ \E w \in k_writes_fn(hist, r[1]) : e = <<r[3], w, "rw">>
    BY <1>2 DEF T0ReaderEdges
  <2>2. PICK w \in k_writes_fn(hist, r[1]) : e = <<r[3], w, "rw">>
    BY <2>1
  <2> PICK f : f = <<r[1], 0, r[3]>>
    OBVIOUS
  <2>3. f \in ReadFrom
    BY <2>1, ReadFromFacts
  <2>4. tm.begin[r[3]] < tm.commit[w]
    BY <2>3, ReaderTiming
  <2> QED
    BY <2>2, <2>4 DEF Forward
<1> QED
  BY <1>1, <1>2 DEF ReadEdges

\* A query of t that misses an upsert of u began before u committed; if the
\* upsert is t's own, the query does not miss it.
LEMMA MissedUpsertTiming ==
  ASSUME NEW tm, NEW init, Explained(hist, tm, init), NEW m \in MissedUpserts
  PROVE  /\ m[1][1] # m[2][1]
         /\ tm.begin[m[1][1]] < tm.commit[m[2][1]]
<1>1. PICK q \in get_all_range_queries(hist) :
        \E ins \in UNION {k_upserts_fn(hist, key) : key \in other_keys(hist, q)} : m = <<q, ins>>
  BY DEF MissedUpserts
<1>2. PICK ins \in UNION {k_upserts_fn(hist, key) : key \in other_keys(hist, q)} : m = <<q, ins>>
  BY <1>1
<1>3. PICK key \in other_keys(hist, q) : ins \in k_upserts_fn(hist, key)
  BY <1>2
<1>4. PICK t \in Ids(hist) :
        \E i \in DOMAIN hist.txns[t] : hist.txns[t][i].f = "range" /\ q = <<t, i - 1>>
  BY DEF get_all_range_queries
<1>5. PICK i \in DOMAIN hist.txns[t] : hist.txns[t][i].f = "range" /\ q = <<t, i - 1>>
  BY <1>4
<1>6. PICK u \in Ids(hist) :
        \E j \in DOMAIN hist.txns[u] :
          hist.txns[u][j].f = "w" /\ hist.txns[u][j].k = key /\ ins = <<u, j - 1>>
  BY <1>3 DEF k_upserts_fn
<1>7. PICK j \in DOMAIN hist.txns[u] :
        hist.txns[u][j].f = "w" /\ hist.txns[u][j].k = key /\ ins = <<u, j - 1>>
  BY <1>6
<1>8. m[1][1] = t /\ m[2][1] = u
  BY <1>2, <1>5, <1>7
<1>9. i \in Int /\ j \in Int /\ 1 <= j
  BY DEF Explained, WellFormed
<1>10. MopAt(hist, q) = hist.txns[t][i]
  <2>1. q[1] = t /\ q[2] + 1 = i
    BY <1>5, <1>9
  <2> QED
    BY <2>1 DEF MopAt
<1> PICK mop : mop = hist.txns[t][i]
  OBVIOUS
<1>11. in_between(key, mop.k1, mop.k2) /\ key \notin KeysOf(RangeItems(mop))
  BY <1>10 DEF other_keys
<1>12. hist.txns[u][j].succ /\ (t = u => j < i)
  BY <1>5, <1>7, <1>11 DEF Explained, Regular, MissedUpsertsCount
<1>13. Writes(hist.txns[u][j], key)
  BY <1>7, <1>12 DEF Writes, IsWrite
<1>14. key \in WrittenKeys(hist.txns[u])
  BY <1>13, WrittenKeysFacts
<1>15. Absent(hist, tm, init, t, i, key)
  <2>1. SeesAllKeys(hist, tm, init, t, i)
    BY <1>5 DEF Explained, Explains
  <2> QED
    BY <1>11, <1>14, <2>1 DEF SeesAllKeys
<1>16. t # u
  <2> SUFFICES ASSUME t = u PROVE FALSE
    OBVIOUS
  <2>1. j \in 1..i-1
    BY <1>9, <1>12
  <2>2. j \in WritesBefore(hist.txns[t], i, key)
    BY <1>13, <2>1 DEF WritesBefore
  <2> QED
    BY <1>15, <2>2 DEF Absent
<1>17. tm.begin[t] < tm.commit[u]
  <2>1. Visible(hist, tm, t, key) = {}
    BY <1>15, SnapshotFacts DEF Absent
  <2>2. ~(tm.commit[u] <= tm.begin[t])
    BY <1>14, <2>1 DEF Visible
  <2> QED
    BY <2>2, TimingFacts
<1> QED
  BY <1>8, <1>16, <1>17

\* Who read a version begins before a later writer of the key commits.
LEMMA ReaderBeforeLater ==
  ASSUME NEW tm, NEW init, Explained(hist, tm, init), ReadsFine, NEW f \in ReadFrom, f[2] # 0,
         NEW x \in k_writes_fn(hist, f[1]), Precedes(tm, f[2], x)
  PROVE  tm.begin[f[3]] < tm.commit[x]
<1>1. x \in Ids(hist) /\ f[2] \in Ids(hist)
  BY ReaderTiming, WritersWrite
<1>2. /\ tm.commit[x] \in Int /\ tm.begin[x] \in Int /\ tm.begin[x] < tm.commit[x]
      /\ tm.commit[f[2]] \in Int
  BY <1>1, TimingFacts
<1>3. ~(tm.commit[x] <= tm.commit[f[2]])
  BY <1>2 DEF Precedes
<1> QED
  BY <1>3, ReaderTiming

LEMMA InferredForward ==
  ASSUME NEW tm, NEW init, Explained(hist, tm, init), Combining, NEW e \in InferredEdges
  PROVE  Forward(tm, e)
<1>1. PICK c \in chains : \E i \in 1..Len(c[2])-1 :
        \E f \in readfrom : f[1] = c[1] /\ f[2] = c[2][i] /\ e = <<f[3], c[2][i+1], "rw">>
  BY DEF InferredEdges
<1>2. PICK i \in 1..Len(c[2])-1 :
        \E f \in readfrom : f[1] = c[1] /\ f[2] = c[2][i] /\ e = <<f[3], c[2][i+1], "rw">>
  BY <1>1
<1>3. PICK f \in readfrom : f[1] = c[1] /\ f[2] = c[2][i] /\ e = <<f[3], c[2][i+1], "rw">>
  BY <1>2
<1>4. ReadsFine /\ readfrom = ReadFrom
  BY DEF Combining
<1> PICK g : g = <<c[1], c[2][i], c[2][i+1]>>
  OBVIOUS
<1>5. g \in NextVersions
  BY LinksFacts DEF Linked, Combining, ChainInv
<1>6. g[1] = f[1] /\ g[2] = f[2] /\ e = <<f[3], g[3], "rw">>
  BY <1>3
<1>7. Precedes(tm, g[2], g[3]) /\ g[2] # 0 /\ g[3] \in k_writes_fn(hist, g[1])
  BY <1>4, <1>5, NextVersionTiming DEF NextVersions
<1>8. tm.begin[f[3]] < tm.commit[g[3]]
  BY <1>4, <1>6, <1>7, ReaderBeforeLater
<1> QED
  BY <1>6, <1>8 DEF Forward

-----------------------------------------------------------------------------
(* The chains of a key are intervals of its version order, so one side of  *)
(* every constraint points forward in time.                                *)

\* The elements and the ends of a chain.
LEMMA ChainEnds ==
  ASSUME Combining, NEW c \in chains
  PROVE  /\ Len(c[2]) \in Nat /\ DOMAIN c[2] = 1..Len(c[2])
         /\ 1 \in DOMAIN c[2] /\ Len(c[2]) \in DOMAIN c[2]
         /\ First(c[2]) = c[2][1] /\ Final(c[2]) = c[2][Len(c[2])]
         /\ \A i \in DOMAIN c[2] : c[2][i] \in k_writes_fn(hist, c[1])
<1>1. c[2] \in Seq(Txn \ {0}) /\ c[2] # << >>
      /\ \A i \in DOMAIN c[2] : c[2][i] \in k_writes_fn(hist, c[1])
  BY DEF Combining, ChainInv, ChainsOfWriters
<1> QED
  BY <1>1, ChainFacts

\* A writer that is not in the chain comes before it or after it.
LEMMA OutsideChain ==
  ASSUME NEW tm, NEW init, Explained(hist, tm, init), Combining, NEW c \in chains,
         NEW y \in k_writes_fn(hist, c[1]), \A i \in DOMAIN c[2] : c[2][i] # y
  PROVE  Precedes(tm, y, First(c[2])) \/ Precedes(tm, Final(c[2]), y)
<1> SUFFICES ASSUME ~Precedes(tm, Final(c[2]), y) PROVE Precedes(tm, y, First(c[2]))
  OBVIOUS
<1>1. /\ Len(c[2]) \in Nat /\ DOMAIN c[2] = 1..Len(c[2])
      /\ 1 \in DOMAIN c[2] /\ Len(c[2]) \in DOMAIN c[2]
      /\ First(c[2]) = c[2][1] /\ Final(c[2]) = c[2][Len(c[2])]
      /\ \A i \in DOMAIN c[2] : c[2][i] \in k_writes_fn(hist, c[1])
  BY ChainEnds
<1>2. Precedes(tm, y, c[2][Len(c[2])])
  BY <1>1, WritersOrdered
<1> DEFINE B == {i \in DOMAIN c[2] : Precedes(tm, y, c[2][i])}
<1>3. B \in SUBSET Nat /\ B # {}
  BY <1>1, <1>2
<1>4. PICK i \in B : \A j \in B : i <= j
  BY <1>3, LeastNat
<1>5. CASE i = 1
  BY <1>1, <1>4, <1>5
<1>6. CASE i # 1
  <2> DEFINE j == i - 1
  <2>1. j \in 1..Len(c[2])-1 /\ j + 1 = i /\ j \in DOMAIN c[2] /\ ~(i <= j)
    BY <1>1, <1>4, <1>6
  <2> HIDE DEF j
  <2> PICK f : f = <<c[1], c[2][j], c[2][i]>>
    OBVIOUS
  <2>2. f \in NextVersions
    BY <2>1, LinksFacts DEF Linked, Combining, ChainInv
  <2>3. Precedes(tm, y, f[3]) /\ y \in k_writes_fn(hist, f[1]) /\ y # f[2]
    BY <1>4, <2>1
  <2>4. Precedes(tm, y, f[2])
    BY <2>2, <2>3, NextVersionTiming DEF Combining
  <2>5. j \in B
    BY <2>1, <2>4
  <2> QED
    BY <1>4, <2>1, <2>5
<1> QED
  BY <1>5, <1>6

LEMMA ChainsOrdered ==
  ASSUME NEW tm, NEW init, Explained(hist, tm, init), Combining,
         NEW c \in chains, NEW d \in chains, c # d, c[1] = d[1]
  PROVE  Precedes(tm, Final(c[2]), First(d[2])) \/ Precedes(tm, Final(d[2]), First(c[2]))
<1>1. /\ First(c[2]) = c[2][1] /\ First(d[2]) = d[2][1]
      /\ 1 \in DOMAIN c[2] /\ 1 \in DOMAIN d[2]
      /\ c[2][1] \in k_writes_fn(hist, c[1]) /\ d[2][1] \in k_writes_fn(hist, c[1])
  BY ChainEnds
<1>2. /\ \A i \in DOMAIN c[2] : c[2][i] # d[2][1]
      /\ \A j \in DOMAIN d[2] : d[2][j] # c[2][1]
  BY <1>1, DistinctFacts DEF Combining, ChainInv, NoRepetition
<1>3. Precedes(tm, d[2][1], First(c[2])) \/ Precedes(tm, Final(c[2]), d[2][1])
  BY <1>1, <1>2, OutsideChain
<1>4. Precedes(tm, c[2][1], First(d[2])) \/ Precedes(tm, Final(d[2]), c[2][1])
  BY <1>1, <1>2, OutsideChain
<1>5. c[2][1] \in Ids(hist) /\ d[2][1] \in Ids(hist)
  BY <1>1, WritersWrite
<1> PICK x, y : x = c[2][1] /\ y = d[2][1]
  OBVIOUS
<1>6. ~(Precedes(tm, x, y) /\ Precedes(tm, y, x))
  <2>1. /\ tm.commit[x] \in Int /\ tm.begin[x] \in Int /\ tm.begin[x] < tm.commit[x]
        /\ tm.commit[y] \in Int /\ tm.begin[y] \in Int /\ tm.begin[y] < tm.commit[y]
    BY <1>5, TimingFacts
  <2> QED
    BY <2>1 DEF Precedes
<1> QED
  BY <1>1, <1>3, <1>4, <1>6

\* The edges that put chain c before chain d.
LEMMA Chain2ChainForward ==
  ASSUME NEW tm, NEW init, Explained(hist, tm, init), Combining,
         NEW c \in chains, NEW d \in chains, c[1] = d[1],
         Precedes(tm, Final(c[2]), First(d[2])),
         NEW e \in gen_chain2chain_edges(c[2], d[2], c[1])
  PROVE  Forward(tm, e)
<1>1. CASE e = <<Final(c[2]), First(d[2]), "ww">>
  BY <1>1 DEF Forward
<1>2. CASE \E f \in readfrom : f[1] = c[1] /\ f[2] = Final(c[2]) /\ e = <<f[3], First(d[2]), "rw">>
  <2>1. PICK f \in readfrom :
          f[1] = c[1] /\ f[2] = Final(c[2]) /\ e = <<f[3], First(d[2]), "rw">>
    BY <1>2
  <2>2. First(d[2]) \in k_writes_fn(hist, f[1]) /\ f[2] \in k_writes_fn(hist, c[1])
    BY <2>1, ChainEnds
  <2>3. f[2] # 0
    BY <2>2, WritersAreIds, IdsFacts DEF Explained
  <2>4. tm.begin[f[3]] < tm.commit[First(d[2])]
    BY <2>1, <2>2, <2>3, ReaderBeforeLater DEF Combining
  <2> QED
    BY <2>1, <2>4 DEF Forward
<1> QED
  BY <1>1, <1>2 DEF gen_chain2chain_edges

-----------------------------------------------------------------------------
(* Edges that point forward in time have no cycle. *)

\* The moment of a node of the checker's graph.  Twice the time, and a begin
\* comes right after the commits that it counts.
IsMoment(tm, v, r) ==
  \/ v = 0 /\ r = 0
  \/ \E i \in 1..NTxns : v = 2*i - 1 /\ r = 2 * tm.begin[i] + 1
  \/ \E i \in 1..NTxns : v = 2*i /\ r = 2 * tm.commit[i]

LEMMA HasMoment ==
  ASSUME NEW tm \in Timings(NTxns), NEW v \in CheckerNodes
  PROVE  \E r \in Nat : IsMoment(tm, v, r)
<1>0. /\ tm.commit \in [1..NTxns -> 1..NTxns] /\ tm.begin \in [1..NTxns -> 0..NTxns-1]
  BY DEF Timings, CommitOrders
<1>1. v \in Nat /\ v <= 2 * NTxns
  BY NTxnsAssumption DEF CheckerNodes
<1>2. CASE v = 0
  BY <1>2 DEF IsMoment
<1>3. CASE \E i \in 1..NTxns : v = 2*i - 1
  <2>1. PICK i \in 1..NTxns : v = 2*i - 1
    BY <1>3
  <2>2. tm.begin[i] \in 0..NTxns-1
    BY <1>0
  <2>3. 2 * tm.begin[i] + 1 \in Nat
    BY <2>2, NTxnsAssumption
  <2> QED
    BY <2>1, <2>3 DEF IsMoment
<1>4. CASE \E i \in 1..NTxns : v = 2*i
  <2>1. PICK i \in 1..NTxns : v = 2*i
    BY <1>4
  <2>2. tm.commit[i] \in 1..NTxns
    BY <1>0
  <2>3. 2 * tm.commit[i] \in Nat
    BY <2>2, NTxnsAssumption
  <2> QED
    BY <2>1, <2>3 DEF IsMoment
<1>5. v = 0 \/ (\E i \in 1..NTxns : v = 2*i - 1) \/ (\E i \in 1..NTxns : v = 2*i)
  <2> DEFINE i == (v + 1) \div 2
  <2>1. i \in Nat /\ (v = 2*i \/ v = 2*i - 1)
    BY <1>1
  <2> HIDE DEF i
  <2>2. v # 0 => i \in 1..NTxns
    BY <1>1, <2>1, NTxnsAssumption
  <2> QED
    BY <2>1, <2>2
<1> QED
  BY <1>2, <1>3, <1>4, <1>5

LEMMA MomentFacts ==
  ASSUME NEW tm, NEW r
  PROVE  /\ IsMoment(tm, 0, r) => r = 0
         /\ \A i \in 1..NTxns : /\ IsMoment(tm, 2*i - 1, r) => r = 2 * tm.begin[i] + 1
                                /\ IsMoment(tm, 2*i, r) => r = 2 * tm.commit[i]
<1>1. IsMoment(tm, 0, r) => r = 0
  BY NTxnsAssumption DEF IsMoment
<1>2. ASSUME NEW i \in 1..NTxns, IsMoment(tm, 2*i - 1, r) PROVE r = 2 * tm.begin[i] + 1
  <2>1. \A j \in 1..NTxns : 2*i - 1 # 2*j /\ 2*i - 1 # 0 /\ (2*i - 1 = 2*j - 1 => i = j)
    BY NTxnsAssumption
  <2> QED
    BY <1>2, <2>1 DEF IsMoment
<1>3. ASSUME NEW i \in 1..NTxns, IsMoment(tm, 2*i, r) PROVE r = 2 * tm.commit[i]
  <2>1. \A j \in 1..NTxns : 2*i # 2*j - 1 /\ 2*i # 0 /\ (2*i = 2*j => i = j)
    BY NTxnsAssumption
  <2> QED
    BY <1>3, <2>1 DEF IsMoment
<1> QED
  BY <1>1, <1>2, <1>3

LEMMA ForwardGoesUp ==
  ASSUME NEW tm \in Timings(NTxns), NEW E \in SUBSET ValidEdges, \A e \in E : Forward(tm, e),
         NEW u, NEW v, <<u, v>> \in CheckerGraph(E),
         NEW r \in Nat, NEW s \in Nat, IsMoment(tm, u, r), IsMoment(tm, v, s)
  PROVE  r < s
<1>1. ASSUME NEW i \in 1..NTxns
      PROVE  tm.commit[i] \in Int /\ tm.begin[i] \in Int /\ 0 <= tm.begin[i]
             /\ tm.begin[i] < tm.commit[i]
  <2>1. /\ tm.commit \in [1..NTxns -> 1..NTxns] /\ tm.begin \in [1..NTxns -> 0..NTxns-1]
        /\ tm.begin[i] < tm.commit[i]
    BY DEF Timings, CommitOrders
  <2>2. tm.commit[i] \in 1..NTxns
    BY <2>1
  <2>3. tm.begin[i] \in 0..NTxns-1
    BY <2>1
  <2>4. tm.commit[i] \in Int
    BY <2>2, NTxnsAssumption
  <2>5. tm.begin[i] \in Int /\ 0 <= tm.begin[i]
    BY <2>3, NTxnsAssumption
  <2> QED
    BY <2>1, <2>4, <2>5
<1>2. CASE \E i \in Txn \ {0} : <<u, v>> = <<CheckerSi(i), CheckerCi(i)>>
  <2>1. PICK i \in Txn \ {0} : <<u, v>> = <<CheckerSi(i), CheckerCi(i)>>
    BY <1>2
  <2>2. i \in 1..NTxns /\ u = 2*i - 1 /\ v = 2*i
    BY <2>1, NTxnsAssumption DEF Txn, CheckerSi, CheckerCi
  <2>3. r = 2 * tm.begin[i] + 1 /\ s = 2 * tm.commit[i]
    BY <2>2, MomentFacts
  <2>4. tm.commit[i] \in Int /\ tm.begin[i] \in Int /\ tm.begin[i] < tm.commit[i]
    BY <1>1, <2>2
  <2> QED
    BY <2>3, <2>4
<1>3. CASE \E e \in E : <<u, v>> = CheckerEdge(e)
  <2>1. PICK e \in E : <<u, v>> = CheckerEdge(e)
    BY <1>3
  <2>2. e[1] \in Txn /\ e[2] \in Txn /\ e[2] # 0
    BY DEF ValidEdges
  <2>3. Forward(tm, e)
    OBVIOUS
  <2> PICK a, b : a = e[1] /\ b = e[2]
    OBVIOUS
  <2>4. b \in 1..NTxns /\ (a # 0 => a \in 1..NTxns)
    BY <2>2, NTxnsAssumption DEF Txn
  <2>b. tm.commit[b] \in Int /\ tm.begin[b] \in Int /\ 0 <= tm.begin[b]
        /\ tm.begin[b] < tm.commit[b]
    BY <1>1, <2>4
  <2>5. CASE e[3] = "rw"
    <3>1. u = CheckerSi(a) /\ v = CheckerCi(b)
      BY <2>1, <2>5 DEF CheckerEdge
    <3>2. v = 2*b
      BY <2>2, <3>1 DEF CheckerCi
    <3>3. s = 2 * tm.commit[b]
      BY <2>4, <3>2, MomentFacts
    <3>4. CASE a = 0
      <4>1. u = 0
        BY <3>1, <3>4 DEF CheckerSi
      <4>2. r = 0
        BY <4>1, MomentFacts
      <4> QED
        BY <2>b, <3>3, <4>2
    <3>5. CASE a # 0
      <4>1. u = 2*a - 1
        BY <3>1, <3>5 DEF CheckerSi
      <4>2. r = 2 * tm.begin[a] + 1
        BY <2>4, <3>5, <4>1, MomentFacts
      <4>3. tm.begin[a] < tm.commit[b] /\ tm.begin[a] \in Int
        BY <1>1, <2>3, <2>4, <2>5, <3>5 DEF Forward
      <4> QED
        BY <2>b, <3>3, <4>2, <4>3
    <3> QED
      BY <3>4, <3>5
  <2>6. CASE e[3] # "rw"
    <3>1. u = CheckerCi(a) /\ v = CheckerSi(b)
      BY <2>1, <2>6 DEF CheckerEdge
    <3>2. v = 2*b - 1
      BY <2>2, <3>1 DEF CheckerSi
    <3>3. s = 2 * tm.begin[b] + 1
      BY <2>4, <3>2, MomentFacts
    <3>4. CASE a = 0
      <4>1. u = 0
        BY <3>1, <3>4 DEF CheckerCi
      <4>2. r = 0
        BY <4>1, MomentFacts
      <4> QED
        BY <2>b, <3>3, <4>2
    <3>5. CASE a # 0
      <4>1. u = 2*a
        BY <3>1, <3>5 DEF CheckerCi
      <4>2. r = 2 * tm.commit[a]
        BY <2>4, <3>5, <4>1, MomentFacts
      <4>3. tm.commit[a] <= tm.begin[b] /\ tm.commit[a] \in Int
        BY <1>1, <2>3, <2>4, <2>6, <3>5 DEF Forward, Precedes
      <4> QED
        BY <2>b, <3>3, <4>2, <4>3
    <3> QED
      BY <3>4, <3>5
  <2> QED
    BY <2>5, <2>6
<1> QED
  BY <1>2, <1>3 DEF CheckerGraph

LEMMA ForwardAcyclic ==
  ASSUME NEW tm \in Timings(NTxns), NEW E \in SUBSET ValidEdges, \A e \in E : Forward(tm, e)
  PROVE  Acyclic(CheckerNodes, CheckerGraph(E))
<1> SUFFICES ASSUME NEW S \in SUBSET CheckerNodes, S # {}
             PROVE  \E v \in S : \A u \in S : <<u, v>> \notin CheckerGraph(E)
  BY DEF Acyclic
<1> DEFINE M == {r \in Nat : \E v \in S : IsMoment(tm, v, r)}
<1>1. M \in SUBSET Nat /\ M # {}
  <2>1. PICK v \in S : TRUE
    OBVIOUS
  <2>2. \E r \in Nat : IsMoment(tm, v, r)
    BY HasMoment
  <2> QED
    BY <2>2
<1>2. PICK r \in M : \A x \in M : r <= x
  BY <1>1, LeastNat
<1>3. PICK v \in S : IsMoment(tm, v, r)
  BY <1>2
<1>4. ASSUME NEW u \in S, <<u, v>> \in CheckerGraph(E) PROVE FALSE
  <2>1. PICK x \in Nat : IsMoment(tm, u, x)
    BY HasMoment
  <2>2. x \in M
    BY <2>1
  <2>3. x < r
    BY <1>2, <1>3, <1>4, <2>1, ForwardGoesUp
  <2> QED
    BY <1>2, <2>1, <2>2, <2>3
<1> QED
  BY <1>4

\* A polygraph that times explain is satisfiable.
LEMMA ForwardSat ==
  ASSUME NEW tm \in Timings(NTxns), NEW E \in SUBSET ValidEdges, NEW con,
         ValidConstraints(con), \A e \in E : Forward(tm, e),
         \A c \in con : (\A e \in c[1] : Forward(tm, e)) \/ (\A e \in c[2] : Forward(tm, e))
  PROVE  ~Unsat(E, con)
<1> DEFINE sel == {c \in con : \A e \in c[1] : Forward(tm, e)}
           F == E \cup Chosen(con, sel)
<1>1. \A c \in con : c[1] \subseteq ValidEdges /\ c[2] \subseteq ValidEdges
  BY DEF ValidConstraints
<1>2. F \in SUBSET ValidEdges
  BY <1>1 DEF Chosen
<1>3. \A e \in F : Forward(tm, e)
  <2> SUFFICES ASSUME NEW e \in Chosen(con, sel) PROVE Forward(tm, e)
    OBVIOUS
  <2>1. CASE \E c \in sel : e \in c[1]
    BY <2>1
  <2>2. CASE \E c \in con \ sel : e \in c[2]
    BY <2>2
  <2> QED
    BY <2>1, <2>2 DEF Chosen
<1>4. Acyclic(CheckerNodes, CheckerGraph(F))
  BY <1>2, <1>3, ForwardAcyclic
<1>5. sel \in SUBSET con
  OBVIOUS
<1> HIDE DEF sel
<1> QED
  BY <1>4, <1>5 DEF Unsat, Sat

-----------------------------------------------------------------------------
(* The invariant. *)

\* The builder has not rejected a history that tm explains, all its edges
\* point forward in time, and so does one side of each constraint.
Agrees(tm) ==
  /\ bpc # "reject"
  /\ verdict # "reject"
  /\ \A e \in edges : Forward(tm, e)
  /\ bpc = "built" => \A c \in conn : \/ \A e \in c[1] : Forward(tm, e)
                                      \/ \A e \in c[2] : Forward(tm, e)

RInv ==
  /\ BInv
  /\ verdict \in {"none", "accept", "reject"}
  /\ \A init \in InitialStates(hist), tm \in Timings(NTxns) :
       Explained(hist, tm, init) => Agrees(tm)

LEMMA AddForward ==
  ASSUME NEW tm, NEW E, NEW new, \A e \in E : Forward(tm, e), \A e \in new : Forward(tm, e)
  PROVE  \A e \in AddEdges(E, new) : Forward(tm, e)
  BY DEF AddEdges

\* The builder does not reject.
LEMMA NoReject ==
  ASSUME NEW tm, NEW init, Explained(hist, tm, init), BInv, Agrees(tm), BStep
  PROVE  bpc' # "reject"
<1>1. ~INTReject
  BY NoINTError DEF INTReject
<1>2. ~DirtyReadReject
  BY NoDirtyRead DEF DirtyReadReject
<1>3. ~DivergeReject
  <2> SUFFICES ASSUME DivergeReject PROVE FALSE
    OBVIOUS
  <2>1. ReadsFine /\ readfrom = ReadFrom /\ Diverges
    BY DEF DivergeReject, BInv, HasReads
  <2> QED
    BY <2>1, NoDivergence
<1>4. ~RangeReject
  BY MissedUpsertTiming DEF RangeReject, OwnUpsertMissed
<1>5. ~CyclicReject
  <2> SUFFICES ASSUME CyclicReject PROVE FALSE
    OBVIOUS
  <2>1. ReadsFine /\ readfrom = ReadFrom
    BY DEF CyclicReject, BInv, HasReads
  <2>2. PICK key \in {p[1] : p \in NextVersions} : \E S \in SUBSET (Txn \ {0}) :
          S # {} /\ \A t \in S : \E u \in S : <<key, u, t>> \in NextVersions
    BY CyclicJustified
  <2>3. PICK S \in SUBSET (Txn \ {0}) :
          S # {} /\ \A t \in S : \E u \in S : <<key, u, t>> \in NextVersions
    BY <2>2
  <2> QED
    BY <2>1, <2>3, NoVersionCycle
<1>6. bpc # "reject"
  BY DEF Agrees
<1> QED
  BY <1>1, <1>2, <1>3, <1>4, <1>5, <1>6
     DEF BStep, ParseCrash, Parse, IndexCrash, KnownStart, ReadsCrash, ReadLoop, WWLoop,
         DuplicateCrash, RangeLoop, CombineWrites, InferRWEdges, Coalesce, Stop

\* All the edges it adds point forward in time.
LEMMA EdgesForward ==
  ASSUME NEW tm, NEW init, Explained(hist, tm, init), BInv, Agrees(tm), BStep
  PROVE  \A e \in edges' : Forward(tm, e)
<1>0. \A e \in edges : Forward(tm, e)
  BY DEF Agrees
<1>1. CASE edges' = edges
  BY <1>0, <1>1
<1>2. CASE KnownStart
  <2>1. \A e \in SessionEdges : Forward(tm, e)
    BY SessionEdgesForward
  <2>2. \A e \in {<<0, i, "cb">> : i \in Txn \ {0}} : Forward(tm, e)
    BY DEF Forward
  <2>3. edges' = AddEdges(SessionEdges, {<<0, i, "cb">> : i \in Txn \ {0}})
    BY <1>2 DEF KnownStart
  <2> QED
    BY <2>1, <2>2, <2>3, AddForward
<1>3. CASE ReadLoop
  <2>1. ReadsFine /\ edges' = AddEdges(edges, ReadEdges)
    BY <1>3 DEF ReadLoop
  <2>2. \A e \in ReadEdges : Forward(tm, e)
    BY <2>1, ReadEdgesForward
  <2> QED
    BY <1>0, <2>1, <2>2, AddForward
<1>4. CASE RangeLoop
  <2> DEFINE new == {<<m[1][1], m[2][1], "rw">> : m \in {m \in MissedUpserts : m[1][1] # m[2][1]}}
  <2>1. edges' = AddEdges(edges, new)
    BY <1>4 DEF RangeLoop
  <2>2. \A e \in new : Forward(tm, e)
    <3> SUFFICES ASSUME NEW m \in MissedUpserts PROVE Forward(tm, <<m[1][1], m[2][1], "rw">>)
      OBVIOUS
    <3> QED
      BY MissedUpsertTiming DEF Forward
  <2> HIDE DEF new
  <2> QED
    BY <1>0, <2>1, <2>2, AddForward
<1>5. CASE InferRWEdges
  <2>1. bpc = "combine" /\ edges' = AddEdges(edges, InferredEdges)
    BY <1>5 DEF InferRWEdges
  <2>2. Combining
    BY <2>1 DEF BInv, Combining, HasReads, HasOrder, HasChains
  <2>3. \A e \in InferredEdges : Forward(tm, e)
    BY <2>2, InferredForward
  <2> QED
    BY <1>0, <2>1, <2>3, AddForward
<1> QED
  BY <1>1, <1>2, <1>3, <1>4, <1>5
     DEF BStep, INTReject, ParseCrash, Parse, IndexCrash, DirtyReadReject, ReadsCrash,
         DivergeReject, WWLoop, DuplicateCrash, RangeReject, CombineWrites, CyclicReject,
         Coalesce, Stop

\* Of every constraint one side points forward in time.
LEMMA ConstraintsForward ==
  ASSUME NEW tm, NEW init, Explained(hist, tm, init), BInv, Coalesce
  PROVE  \A c \in conn' : \/ \A e \in c[1] : Forward(tm, e)
                          \/ \A e \in c[2] : Forward(tm, e)
<1>1. Combining
  BY DEF Coalesce, BInv, Combining, HasReads, HasOrder, HasChains
<1>2. conn' = {<<gen_chain2chain_edges(p[1][2], p[2][2], p[1][1]),
                 gen_chain2chain_edges(p[2][2], p[1][2], p[1][1])>> :
                p \in {p \in chains \X chains :
                         p[1][1] = p[2][1] /\ First(p[1][2]) < First(p[2][2])}}
  BY DEF Coalesce
<1> SUFFICES ASSUME NEW c \in chains, NEW d \in chains, c[1] = d[1],
                    First(c[2]) < First(d[2])
             PROVE  \/ \A e \in gen_chain2chain_edges(c[2], d[2], c[1]) : Forward(tm, e)
                    \/ \A e \in gen_chain2chain_edges(d[2], c[2], c[1]) : Forward(tm, e)
  BY <1>2
<1>3. c # d
  <2>1. First(c[2]) \in Ids(hist)
    BY <1>1, ChainEnds, WritersWrite
  <2>2. Ids(hist) = 1..NTxns
    BY IdsFacts DEF Explained
  <2>3. First(c[2]) \in Int
    BY <2>1, <2>2, NTxnsAssumption
  <2> QED
    BY <2>3
<1> QED
  BY <1>1, <1>3, ChainsOrdered, Chain2ChainForward

LEMMA DirectUnsat == Direct!Unsat(edges, conn) <=> Unsat(edges, conn)
  BY DEF Direct!Unsat, Unsat, Direct!Sat, Sat, Direct!Acyclic, Acyclic,
         Direct!CheckerNodes, CheckerNodes, Direct!CheckerGraph, CheckerGraph,
         Direct!CheckerEdge, CheckerEdge, Direct!CheckerSi, CheckerSi,
         Direct!CheckerCi, CheckerCi, Direct!Txn, Txn, Direct!Chosen, Chosen

LEMMA AgreesStep ==
  ASSUME NEW tm, NEW init, Explained(hist, tm, init), BInv, Agrees(tm), [VNext]_vvars
  PROVE  Agrees(tm)'
<1>1. CASE Build
  <2>1. BStep /\ verdict' = verdict
    BY <1>1 DEF Build
  <2>2. bpc' # "reject" /\ \A e \in edges' : Forward(tm, e)
    BY <2>1, NoReject, EdgesForward
  <2>3. bpc' = "built" => Coalesce
    BY <2>1 DEF BStep, INTReject, ParseCrash, Parse, IndexCrash, KnownStart,
       DirtyReadReject, ReadsCrash, ReadLoop, DivergeReject, WWLoop, DuplicateCrash,
       RangeReject, RangeLoop, CombineWrites, CyclicReject, InferRWEdges, Stop
  <2> QED
    BY <2>1, <2>2, <2>3, ConstraintsForward DEF Agrees, Forward, Precedes
<1>2. CASE CatchReject
  BY <1>2 DEF CatchReject, Agrees
<1>3. CASE RunChecker
  <2>1. bpc = "built" /\ UNCHANGED bvars /\ Direct!Check
    BY <1>3 DEF RunChecker
  <2>2. tm \in Timings(NTxns) /\ edges \subseteq ValidEdges /\ ValidConstraints(conn)
    BY DEF Explained, BInv, BTypeOK
  <2>3. ~Unsat(edges, conn)
    BY <2>1, <2>2, ForwardSat DEF Agrees
  <2>4. verdict' # "reject"
    BY <2>1, <2>3, DirectUnsat DEF Direct!Check, Direct!Accept, Direct!Reject
  <2> QED
    BY <2>1, <2>4 DEF Agrees, bvars, Forward, Precedes
<1>4. CASE UNCHANGED vvars
  BY <1>4 DEF vvars, bvars, Agrees, Forward, Precedes
<1> QED
  BY <1>1, <1>2, <1>3, <1>4 DEF VNext, VStep

LEMMA RInitInv == VInit => RInv
  BY BInitInv DEF VInit, BInit, RInv, Agrees

LEMMA RStepInv == ASSUME RInv, [VNext]_vvars PROVE RInv'
<1>1. [BNext]_bvars /\ hist' = hist /\ verdict' \in {"none", "accept", "reject"}
  <2>1. CASE Build
    BY <2>1 DEF RInv, Build, BNext, BStep, INTReject, ParseCrash, Parse, IndexCrash,
       KnownStart, DirtyReadReject, ReadsCrash, ReadLoop, DivergeReject, WWLoop,
       DuplicateCrash, RangeReject, RangeLoop, CombineWrites, CyclicReject, InferRWEdges,
       Coalesce, Stop
  <2>2. CASE CatchReject
    BY <2>2 DEF CatchReject, bvars
  <2>3. CASE RunChecker
    BY <2>3 DEF RunChecker, Direct!Check, Direct!Accept, Direct!Reject, bvars
  <2>4. CASE UNCHANGED vvars
    BY <2>4 DEF RInv, vvars, bvars
  <2> QED
    BY <2>1, <2>2, <2>3, <2>4 DEF VNext, VStep
<1>2. BInv'
  BY <1>1, BStepInv DEF RInv
<1>3. ASSUME NEW init \in InitialStates(hist), NEW tm \in Timings(NTxns),
             Explained(hist, tm, init)
      PROVE  Agrees(tm)'
  <2>1. Agrees(tm) /\ BInv
    BY <1>3 DEF RInv
  <2> QED
    BY <1>3, <2>1, AgreesStep
<1>4. /\ InitialStates(hist)' = InitialStates(hist)
      /\ \A tm, init : Explained(hist, tm, init)' = Explained(hist, tm, init)
  BY <1>1
<1> QED
  BY <1>1, <1>2, <1>3, <1>4 DEF RInv

-----------------------------------------------------------------------------
(* The theorems. *)

\* The inductive invariant holds in every state of main_algo3_5.
THEOREM RInvariant == VSafety => []RInv
<1>1. RInv /\ [VNext]_vvars => RInv'
  BY RStepInv
<1> QED
  BY <1>1, RInitInv, PTL DEF VSafety

LEMMA SIExplained ==
  ASSUME RInv, Regular(hist), IsSI(hist, StrongSession)
  PROVE  \E init \in InitialStates(hist), tm \in Timings(NTxns) : Explained(hist, tm, init)
<1>1. WellFormed(hist)
  BY DEF RInv, BInv
<1>2. Cardinality(Ids(hist)) = NTxns
  <2>1. Ids(hist) = 1..NTxns
    BY <1>1, IdsFacts
  <2> QED
    BY <2>1, FS_Interval, NTxnsAssumption
<1>3. PICK init \in InitialStates(hist) :
        \E tm \in Timings(NTxns) : Explains(hist, tm, init, StrongSession)
  BY <1>2 DEF IsSI
<1>4. PICK tm \in Timings(NTxns) : Explains(hist, tm, init, StrongSession)
  BY <1>3
<1>5. Explained(hist, tm, init)
  BY <1>1, <1>4 DEF Explained
<1> QED
  BY <1>5

LEMMA RInvSound == RInv => (Regular(hist) => RejectedIsNotSI)
<1> SUFFICES ASSUME RInv, Regular(hist), verdict = "reject", IsSI(hist, StrongSession)
             PROVE  FALSE
  BY DEF RejectedIsNotSI
<1>1. PICK init \in InitialStates(hist), tm \in Timings(NTxns) : Explained(hist, tm, init)
  BY SIExplained
<1>2. Agrees(tm)
  BY <1>1 DEF RInv
<1> QED
  BY <1>2 DEF Agrees

(***************************************************************************)
(* Viper's rejections are right: for any number of transactions and keys,  *)
(* a regular history that main_algo3_5 rejects, in the builder or in the   *)
(* checker, is not snapshot isolated.                                      *)
(***************************************************************************)
THEOREM RejectionTheorem == VSafety => [](Regular(hist) => RejectedIsNotSI)
  BY RInvSound, RInvariant, PTL

-----------------------------------------------------------------------------
(* No assertion fails on such a history either. *)

\* A value has one final writer.
LEMMA UniqueWriter ==
  ASSUME NEW h, WellFormed(h), UniqueWrites(h), NEW key, NEW v,
         NEW t \in WritersOf(h, key, v), NEW u \in WritersOf(h, key, v)
  PROVE  t = u
<1>1. ASSUME NEW x \in WritersOf(h, key, v)
      PROVE  x \in Ids(h) /\ \E j \in DOMAIN h.txns[x] :
               IsWrite(h.txns[x][j]) /\ h.txns[x][j].k = key /\ h.txns[x][j].v = v
  <2>1. PICK w \in ext_writes(h) : w[1] = key /\ w[2] = v /\ w[3] = x
    BY WritersOfFacts
  <2>2. PICK y \in Ids(h) : \E p \in ext_writes_fn(h.txns[y]) : w = <<p[1], p[2], y>>
    BY ExtWritesFacts
  <2>3. PICK p \in ext_writes_fn(h.txns[y]) : w = <<p[1], p[2], y>>
    BY <2>2
  <2>4. PICK j \in DOMAIN h.txns[y] : IsWrite(h.txns[y][j])
                                    /\ p = <<h.txns[y][j].k, h.txns[y][j].v>>
    BY DEF ext_writes_fn
  <2>5. x = y /\ h.txns[y][j].k = key /\ h.txns[y][j].v = v
    BY <2>1, <2>3, <2>4
  <2> QED
    BY <2>4, <2>5
<1>2. t \in Ids(h) /\ \E j \in DOMAIN h.txns[t] :
        IsWrite(h.txns[t][j]) /\ h.txns[t][j].k = key /\ h.txns[t][j].v = v
  BY <1>1
<1>3. u \in Ids(h) /\ \E j \in DOMAIN h.txns[u] :
        IsWrite(h.txns[u][j]) /\ h.txns[u][j].k = key /\ h.txns[u][j].v = v
  BY <1>1
<1> QED
  BY <1>2, <1>3 DEF UniqueWrites

\* A transaction does not read its own write from outside: its snapshot's
\* writer committed before it began.
LEMMA NoOwnExternalRead ==
  ASSUME NEW tm, NEW init, Explained(hist, tm, init), NEW r \in ext_reads(hist)
  PROVE  r[3] \notin WritersOf(hist, r[1], r[2])
<1> SUFFICES ASSUME r[3] \in WritersOf(hist, r[1], r[2]) PROVE FALSE
  OBVIOUS
<1> PICK u : u = SnapshotWriter(hist, tm, r[3], r[1])
  OBVIOUS
<1>1. /\ r[3] \in Ids(hist)
      /\ u # 0 => u \in Ids(hist) /\ u \in WritersOf(hist, r[1], r[2])
      /\ u = 0 => r[2] = IF r[1] \in DOMAIN init THEN init[r[1]] ELSE NULL_VALUE
  BY ExternalReadValue
<1>2. u # 0
  BY <1>1, InitialHasNoWriter
<1>3. u = r[3]
  BY <1>1, <1>2, UniqueWriter DEF Explained, Regular
<1>4. u \in Visible(hist, tm, r[3], r[1])
  BY <1>1, <1>2, SnapshotFacts
<1>5. tm.commit[r[3]] <= tm.begin[r[3]]
  BY <1>3, <1>4 DEF Visible
<1> QED
  BY <1>1, <1>5, TimingFacts

\* Where the mops pass their own assertions, no step of the builder crashes.
LEMMA NoCrash ==
  ASSUME NEW tm, NEW init, Explained(hist, tm, init), AssertionsHold(hist),
         bpc # "crash", BStep
  PROVE  bpc' # "crash"
<1>1. ~ParseCrash /\ ~IndexCrash
  BY DEF ParseCrash, IndexCrash, AssertionsHold
<1>2. ~ReadsCrash
  <2> SUFFICES ASSUME NEW r \in ext_reads(hist), NEW ws, ws = WritersOf(hist, r[1], r[2]),
                      Cardinality(ws) > 1 \/ r[3] \in ws
               PROVE  FALSE
    BY DEF ReadsCrash
  <2>1. r[3] \notin ws
    BY NoOwnExternalRead
  <2>2. \A t, u \in ws : t = u
    BY UniqueWriter DEF Explained, Regular
  <2>3. Cardinality(ws) \in {0, 1}
    <3>1. CASE ws = {}
      BY <3>1, FS_EmptySet
    <3>2. CASE ws # {}
      <4>1. PICK x : ws = {x}
        BY <2>2, <3>2
      <4> QED
        BY <4>1, FS_Singleton
    <3> QED
      BY <3>1, <3>2
  <2> QED
    BY <2>1, <2>3
<1>3. ~DuplicateCrash
  <2> SUFFICES ASSUME DuplicateWrites(hist) PROVE FALSE
    BY DEF DuplicateCrash
  <2>1. UniqueWrites(hist) /\ WellFormed(hist)
    BY DEF Explained, Regular
  <2>2. PICK t \in Ids(hist), u \in Ids(hist) :
          \E i \in DOMAIN hist.txns[t], j \in DOMAIN hist.txns[u] :
            /\ t < u \/ (t = u /\ i < j)
            /\ IsWrite(hist.txns[t][i]) /\ IsWrite(hist.txns[u][j])
            /\ hist.txns[t][i].k = hist.txns[u][j].k
            /\ hist.txns[t][i].v = hist.txns[u][j].v
    BY DEF DuplicateWrites
  <2>3. PICK i \in DOMAIN hist.txns[t], j \in DOMAIN hist.txns[u] :
            /\ t < u \/ (t = u /\ i < j)
            /\ IsWrite(hist.txns[t][i]) /\ IsWrite(hist.txns[u][j])
            /\ hist.txns[t][i].k = hist.txns[u][j].k
            /\ hist.txns[t][i].v = hist.txns[u][j].v
    BY <2>2
  <2>4. t = u /\ i = j
    BY <2>1, <2>3 DEF UniqueWrites
  <2>5. t \in Int /\ i \in Int
    <3>1. Ids(hist) = 1..NTxns /\ DOMAIN hist.txns[t] = 1..Len(hist.txns[t])
          /\ Len(hist.txns[t]) \in Nat
      BY <2>1 DEF WellFormed
    <3> QED
      BY <3>1, NTxnsAssumption
  <2> QED
    BY <2>3, <2>4, <2>5
<1> QED
  BY <1>1, <1>2, <1>3
     DEF BStep, INTReject, Parse, KnownStart, DirtyReadReject, ReadLoop, DivergeReject,
         WWLoop, RangeReject, RangeLoop, CombineWrites, CyclicReject, InferRWEdges,
         Coalesce, Stop

NotCrashed ==
  \A init \in InitialStates(hist), tm \in Timings(NTxns) :
    (Explained(hist, tm, init) /\ AssertionsHold(hist)) => bpc # "crash"

LEMMA NotCrashedStep == ASSUME NotCrashed, [VNext]_vvars PROVE NotCrashed'
<1>1. hist' = hist /\ (bpc' = bpc \/ BStep)
  BY DEF VNext, VStep, Build, CatchReject, RunChecker, vvars, bvars, BStep, INTReject,
     ParseCrash, Parse, IndexCrash, KnownStart, DirtyReadReject, ReadsCrash, ReadLoop,
     DivergeReject, WWLoop, DuplicateCrash, RangeReject, RangeLoop, CombineWrites,
     CyclicReject, InferRWEdges, Coalesce, Stop
<1>2. ASSUME NEW init \in InitialStates(hist), NEW tm \in Timings(NTxns),
             Explained(hist, tm, init), AssertionsHold(hist)
      PROVE  bpc' # "crash"
  <2>1. bpc # "crash"
    BY <1>2 DEF NotCrashed
  <2> QED
    BY <1>1, <1>2, <2>1, NoCrash
<1>3. /\ InitialStates(hist)' = InitialStates(hist)
      /\ AssertionsHold(hist)' = AssertionsHold(hist)
      /\ \A tm, init : Explained(hist, tm, init)' = Explained(hist, tm, init)
  BY <1>1
<1> QED
  BY <1>2, <1>3 DEF NotCrashed

(***************************************************************************)
(* No snapshot isolated history loses its verdict to an exception: for any *)
(* number of transactions and keys, if the mops of a regular history pass  *)
(* the assertions of the parser and of ext_index and main_algo3_5 still    *)
(* ends on another exception than RejectException, it is not SI.           *)
(***************************************************************************)
THEOREM CrashTheorem ==
  VSafety => []((Regular(hist) /\ AssertionsHold(hist)) => CrashIsNotSI)
<1>1. VInit => NotCrashed
  BY DEF VInit, BInit, NotCrashed
<1>2. NotCrashed /\ [VNext]_vvars => NotCrashed'
  BY NotCrashedStep
<1>3. RInv /\ NotCrashed => ((Regular(hist) /\ AssertionsHold(hist)) => CrashIsNotSI)
  BY SIExplained DEF NotCrashed, CrashIsNotSI
<1> QED
  BY <1>1, <1>2, <1>3, RInvariant, PTL DEF VSafety
=============================================================================
