------------------------- MODULE SnapshotIsolation -------------------------
(***************************************************************************)
(* Snapshot isolation of a history, stated without graphs: the reference   *)
(* that Viper's verdict is compared with.  The transactions of the history *)
(* are the committed ones, and each final write value identifies its       *)
(* writer, as Viper requires.                                              *)
(*                                                                         *)
(* A history is SI if the transactions can be given distinct commit times  *)
(* and earlier begin times such that                                       *)
(*   - no two of them that write a common key overlap in time;             *)
(*   - each sees exactly the writes committed before it began, and its own.*)
(* With strong sessions a transaction also begins after its predecessor in *)
(* the session commits.  This module is not a translation of code.         *)
(***************************************************************************)
EXTENDS History

\* The writes of key among the first mops of a transaction, before mop j.
WritesBefore(txn, j, key) == {i \in 1..j-1 : Writes(txn[i], key)}

LastWriteIs(txn, j, key, val) ==
  \E i \in WritesBefore(txn, j, key) :
    txn[i].v = val /\ \A l \in WritesBefore(txn, j, key) : l <= i

WrittenKeys(txn) == {m.k : m \in {txn[i] : i \in {i \in DOMAIN txn : IsWrite(txn[i]) /\ txn[i].succ}}}

\* commit[t] is the position of t in the commit order, begin[t] the number of
\* commits that precede its begin.
CommitOrders(n) ==
  {c \in [1..n -> 1..n] : \A t, u \in 1..n : t # u => c[t] # c[u]}

Timings(n) ==
  {tm \in [commit : CommitOrders(n), begin : [1..n -> 0..n-1]] :
     \A t \in 1..n : tm.begin[t] < tm.commit[t]}

NoConflict(h, tm) ==
  \A t, u \in Ids(h) :
    (t # u /\ WrittenKeys(h.txns[t]) \cap WrittenKeys(h.txns[u]) # {})
      => tm.commit[t] <= tm.begin[u] \/ tm.commit[u] <= tm.begin[t]

SessionsOrdered(h, tm) ==
  \A s \in h.sessions : \A i, j \in DOMAIN s : i < j => tm.commit[s[i]] <= tm.begin[s[j]]

\* The committed writers of key that t's snapshot contains.
Visible(h, tm, t, key) ==
  {u \in Ids(h) : key \in WrittenKeys(h.txns[u]) /\ tm.commit[u] <= tm.begin[t]}

\* The version of key in t's snapshot: its last visible writer, 0 if none.
SnapshotWriter(h, tm, t, key) ==
  IF Visible(h, tm, t, key) = {} THEN 0
  ELSE CHOOSE u \in Visible(h, tm, t, key) :
         \A w \in Visible(h, tm, t, key) : tm.commit[w] <= tm.commit[u]

\* Just before mop j of t, key has the value val: t's own last write, or else
\* the snapshot's.  init gives T0's values, and only those of the keys it has.
HasValue(h, tm, init, t, j, key, val) ==
  LET u == SnapshotWriter(h, tm, t, key)
  IN  IF WritesBefore(h.txns[t], j, key) # {} THEN LastWriteIs(h.txns[t], j, key, val)
      ELSE IF u # 0 THEN LastWriteIs(h.txns[u], Len(h.txns[u]) + 1, key, val)
      ELSE IF key \in DOMAIN init THEN val = init[key]
      ELSE val = NULL_VALUE

\* Just before mop j of t the database has no such key.
Absent(h, tm, init, t, j, key) ==
  /\ SnapshotWriter(h, tm, t, key) = 0
  /\ key \notin DOMAIN init
  /\ WritesBefore(h.txns[t], j, key) = {}

\* A range query returns each key of the range that is there.
SeesAllKeys(h, tm, init, t, j) ==
  LET m == h.txns[t][j]
  IN  \A key \in (UNION {WrittenKeys(h.txns[u]) : u \in Ids(h)}) \cup DOMAIN init :
        (in_between(key, m.k1, m.k2) /\ key \notin KeysOf(RangeItems(m)))
          => Absent(h, tm, init, t, j, key)

Explains(h, tm, init, strong) ==
  /\ NoConflict(h, tm)
  /\ strong => SessionsOrdered(h, tm)
  /\ \A t \in Ids(h) : \A j \in DOMAIN h.txns[t] :
       /\ \A p \in Observed(h.txns[t][j]) : HasValue(h, tm, init, t, j, p[1], p[2])
       /\ h.txns[t][j].f = "range" => SeesAllKeys(h, tm, init, t, j)

\* The <<key, value>> pairs that the transactions of h observed.
AllObserved(h) ==
  UNION {UNION {Observed(h.txns[t][j]) : j \in DOMAIN h.txns[t]} : t \in Ids(h)}

\* Some transaction wrote val to key, successfully or not.
SomeoneWrote(h, key, val) ==
  \E t \in Ids(h) : \E j \in DOMAIN h.txns[t] :
    IsWrite(h.txns[t][j]) /\ h.txns[t][j].k = key /\ h.txns[t][j].v = val

\* The initial states to consider: the logged one, or, if T0 was not logged,
\* any that gives some of the keys read a value that nobody wrote.
InitialStates(h) ==
  IF h.hasInit THEN {h.init}
  ELSE LET K == KeysOf(AllObserved(h))
           V == {p[2] : p \in AllObserved(h)}
       IN  {init \in UNION {[S -> V] : S \in SUBSET K} :
              \A key \in DOMAIN init :
                <<key, init[key]>> \in AllObserved(h) /\ ~SomeoneWrote(h, key, init[key])}

IsSI(h, strong) ==
  \E init \in InitialStates(h) : \E tm \in Timings(Cardinality(Ids(h))) :
    Explains(h, tm, init, strong)

-----------------------------------------------------------------------------
(* The histories on which Viper's rejections are to be relied on: all its  *)
(* disagreements with the definition that reject a history are outside.    *)

\* No two writes of a key write the same value.
UniqueWrites(h) ==
  \A t, u \in Ids(h) : \A i \in DOMAIN h.txns[t], j \in DOMAIN h.txns[u] :
    (/\ IsWrite(h.txns[t][i]) /\ IsWrite(h.txns[u][j])
     /\ h.txns[t][i].k = h.txns[u][j].k /\ h.txns[t][i].v = h.txns[u][j].v)
      => t = u /\ i = j

\* Nobody writes NULL_VALUE, or the value that T0 wrote.
NoInitialWrites(h) ==
  \A t \in Ids(h) : \A i \in DOMAIN h.txns[t] :
    IsWrite(h.txns[t][i]) =>
      /\ h.txns[t][i].v # NULL_VALUE
      /\ (h.hasInit /\ h.txns[t][i].k \in DOMAIN h.init)
            => h.txns[t][i].v # h.init[h.txns[t][i].k]

DeletionsSucceed(h) ==
  \A t \in Ids(h) : \A i \in DOMAIN h.txns[t] :
    h.txns[t][i].f = "d" => h.txns[t][i].succ

\* A transaction does not observe a key after it inserted it.
InsertsUnobserved(h) ==
  \A t \in Ids(h) : \A i, j \in DOMAIN h.txns[t] :
    (i < j /\ h.txns[t][i].f = "i")
      => h.txns[t][i].k \notin KeysOf(Observed(h.txns[t][j]))

\* Every upsert of a key that a range query of t should have returned and did
\* not was successful and, if it is t's own, came before the query.
MissedUpsertsCount(h) ==
  \A t, u \in Ids(h) : \A i \in DOMAIN h.txns[t], j \in DOMAIN h.txns[u] :
    LET m == h.txns[t][i]
        w == h.txns[u][j]
    IN  (/\ m.f = "range" /\ w.f = "w"
         /\ in_between(w.k, m.k1, m.k2) /\ w.k \notin KeysOf(RangeItems(m)))
           => w.succ /\ (t = u => j < i)

Regular(h) ==
  /\ UniqueWrites(h)
  /\ NoInitialWrites(h)
  /\ DeletionsSucceed(h)
  /\ InsertsUnobserved(h)
  /\ MissedUpsertsCount(h)

-----------------------------------------------------------------------------
(* The histories on which Viper's acceptances are to be relied on: what it *)
(* does not look at is as it should be.                                    *)

NoAppends(h) == \A t \in Ids(h) : \A i \in DOMAIN h.txns[t] : h.txns[t][i].f # "append"

\* An insertion is its transaction's first access of the key.
InsertsFirst(h) ==
  \A t \in Ids(h) : \A i, j \in DOMAIN h.txns[t] :
    (i < j /\ h.txns[t][j].f = "i")
      => /\ h.txns[t][j].k \notin KeysOf(Observed(h.txns[t][i]))
         /\ ~Writes(h.txns[t][i], h.txns[t][j].k)

\* val is the last value that some transaction writes to key.
FinallyWritten(h, key, val) ==
  \E t \in Ids(h) : LastWriteIs(h.txns[t], Len(h.txns[t]) + 1, key, val)

\* The <<key, value>> pairs that a transaction observed before it wrote the
\* key and that are nobody's last write.
ReadFromT0(h) ==
  UNION {UNION {{p \in Observed(h.txns[t][j]) :
                   /\ WritesBefore(h.txns[t], j, p[1]) = {}
                   /\ ~FinallyWritten(h, p[1], p[2])} :
                  j \in DOMAIN h.txns[t]} :
           t \in Ids(h)}

\* If T0 was not logged, these values could be its: one for each key, and not
\* written by anybody.  If it was logged, they include no null that is not.
InitialReadsSensible(h) ==
  IF h.hasInit
  THEN \A p \in ReadFromT0(h) :
         p[2] = NULL_VALUE => p[1] \in DOMAIN h.init /\ h.init[p[1]] = NULL_VALUE
  ELSE \A p, q \in ReadFromT0(h) :
         p[1] = q[1] => /\ p[2] = q[2]
                        /\ p[2] # NULL_VALUE => ~SomeoneWrote(h, p[1], p[2])

\* The keys that T0 has.
T0Keys(h) == IF h.hasInit THEN DOMAIN h.init
             ELSE KeysOf({p \in ReadFromT0(h) : p[2] # NULL_VALUE})

\* A key of its range that a query does not return is not one of T0, it is
\* written by upserts only, and the upserts of the query's own transaction
\* that precede it are at most as many mops into it as its id says.
QueriesSensible(h) ==
  \A t \in Ids(h) : \A i \in DOMAIN h.txns[t] :
    LET m == h.txns[t][i]
        missed(key) == in_between(key, m.k1, m.k2) /\ key \notin KeysOf(RangeItems(m))
    IN  m.f = "range" =>
          /\ \A key \in T0Keys(h) : ~missed(key)
          /\ \A u \in Ids(h) : \A j \in DOMAIN h.txns[u] :
               LET w == h.txns[u][j]
               IN  (IsWrite(w) /\ w.succ /\ missed(w.k))
                     => w.f = "w" /\ ((t = u /\ j < i) => j - 1 <= t)

Transparent(h) ==
  /\ NoAppends(h)
  /\ InsertsUnobserved(h)
  /\ InsertsFirst(h)
  /\ InitialReadsSensible(h)
  /\ QueriesSensible(h)
=============================================================================
