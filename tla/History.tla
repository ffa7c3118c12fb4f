------------------------------ MODULE History ------------------------------
(***************************************************************************)
(* The parsed history (full_history and histories) and what the functions  *)
(* of utils/range_utils.py extract from it.  A micro-operation (mop) is a  *)
(* record; its fields are the positions of the Python list:                *)
(*                                                                         *)
(*   [f |-> "r", k, v]                     read v                          *)
(*   [f |-> "w", k, v, succ]               write v                         *)
(*   [f |-> "i" or "d", k, v, rv, succ]    read rv, then insert/delete     *)
(*   [f |-> "range", k1, k2, rs, dead]     rs and dead: sets of <<id, val>>*)
(*   [f |-> "append", k, e]                append e to the list of k       *)
(*                                                                         *)
(* A query returns a key once, in rs or in dead.                           *)
(*                                                                         *)
(* A history h has h.txns, a function from 1..n to sequences of mops;      *)
(* h.sessions, the set of the sessions, each a sequence of transaction     *)
(* ids; and h.hasInit: whether T0 was logged, in which case h.init maps    *)
(* keys to initial values.                                                 *)
(*                                                                         *)
(* The Python dictionaries are sets of tuples here.  The loops that fill   *)
(* them are replaced by what they leave behind.                            *)
(***************************************************************************)
EXTENDS Integers, Sequences, FiniteSets

NULL_VALUE == 0
Nil == -1       \* None as the bound of a range

Ids(h) == DOMAIN h.txns

RangeItems(m) == m.rs \cup m.dead
KeysOf(items) == {p[1] : p \in items}

IsWrite(m) == m.f \in {"w", "i", "d"}

\* A write that counts: get_succ(mop) holds.
Writes(m, key) == IsWrite(m) /\ m.succ /\ m.k = key

\* The <<key, value>> pairs that a mop observes.
Observed(m) == CASE m.f = "r" -> {<<m.k, m.v>>}
                 [] m.f = "range" -> RangeItems(m)
                 [] m.f \in {"i", "d"} -> {<<m.k, m.rv>>}
                 [] OTHER -> {}

\* k1 <= key <= k2, where None leaves a side open
in_between(key, k1, k2) == (k1 = Nil \/ k1 <= key) /\ (k2 = Nil \/ key <= k2)

-----------------------------------------------------------------------------
(* External reads and writes of one transaction. *)

\* Mutant: the first write of a key is kept.
ext_writes_fn_First(txn) ==
  {<<txn[j].k, txn[j].v>> :
     j \in {j \in DOMAIN txn :
              /\ IsWrite(txn[j]) /\ txn[j].succ
              /\ \A i \in DOMAIN txn : i < j => ~Writes(txn[i], txn[j].k)}}

\* The last successful write of each key.
ext_writes_fn(txn) ==
  {<<txn[j].k, txn[j].v>> :
     j \in {j \in DOMAIN txn :
              /\ IsWrite(txn[j]) /\ txn[j].succ
              /\ \A i \in DOMAIN txn : i > j => ~Writes(txn[i], txn[j].k)}}

\* Mutant: a successful write does not hide the reads that follow it.
Ignored_Reads(m) == KeysOf(Observed(m)) \cup (IF m.f = "append" THEN {m.k} ELSE {})

\* The keys that a mop adds to "ignore".
Ignored(m) == KeysOf(Observed(m)) \cup
              (IF m.f = "append" \/ (m.f = "w" /\ m.succ) THEN {m.k} ELSE {})

\* The first access of each key, where it is a read.
ext_reads_fn(txn) ==
  UNION {{p \in Observed(txn[j]) : \A i \in 1..j-1 : p[1] \notin Ignored(txn[i])} :
           j \in DOMAIN txn}

\* ext_index: <<key, value, transaction id>> triples
ext_writes(h) == UNION {{<<p[1], p[2], t>> : p \in ext_writes_fn(h.txns[t])} : t \in Ids(h)}
ext_reads(h) == UNION {{<<p[1], p[2], t>> : p \in ext_reads_fn(h.txns[t])} : t \in Ids(h)}

\* get_in(ext_writes, k, v)
WritersOf(h, key, v) == {w[3] : w \in {w \in ext_writes(h) : w[1] = key /\ w[2] = v}}

k_writes_fn(h, key) == {w[3] : w \in {w \in ext_writes(h) : w[1] = key}}
Tk_set_fn(h, key, exclude) == k_writes_fn(h, key) \ exclude

-----------------------------------------------------------------------------
(* check_INT: reads inside one transaction. *)

\* The keys whose entry of last_rw the mop sets, with the new value ("i" mops
\* are not looked at).
LastRw(m) == CASE m.f \in {"r", "range"} -> Observed(m)
               [] m.f = "d" -> {<<m.k, m.v>>}
               [] m.f = "w" /\ m.succ -> {<<m.k, m.v>>}
               [] OTHER -> {}

\* The observations that check_valid_read is called on.
IntReads(m) == IF m.f = "i" THEN {} ELSE Observed(m)

\* Mutant: own writes are not recorded in last_rw, only the read just before.
DiffersFromLast_Previous(txn, j, key, val) ==
  j > 1 /\ \E p \in Observed(txn[j-1]) : p[1] = key /\ p[2] # val

\* The entry of last_rw for the key when mop j is reached differs from val.
DiffersFromLast(txn, j, key, val) ==
  \E i \in 1..j-1 :
    /\ \E p \in LastRw(txn[i]) : p[1] = key /\ p[2] # val
    /\ \A l \in i+1..j-1 : key \notin KeysOf(LastRw(txn[l]))

FutureRead(txn, j, key, val) ==
  \E i \in j+1..Len(txn) : txn[i].f = "w" /\ txn[i].k = key /\ txn[i].v = val

INTError(txn) ==
  \E j \in DOMAIN txn : \E p \in IntReads(txn[j]) :
    DiffersFromLast(txn, j, p[1], p[2]) \/ FutureRead(txn, j, p[1], p[2])

-----------------------------------------------------------------------------
(* Range queries. *)

\* A position is a pair <<transaction id, mop index>>, counted from 0.
get_all_range_queries(h) ==
  UNION {{<<t, j - 1>> : j \in {j \in DOMAIN h.txns[t] : h.txns[t][j].f = "range"}} :
           t \in Ids(h)}

MopAt(h, pos) == h.txns[pos[1]][pos[2] + 1]

all_keys(h) ==
  UNION {{h.txns[t][j].k : j \in {j \in DOMAIN h.txns[t] : IsWrite(h.txns[t][j])}} :
           t \in Ids(h)}

\* k_upserts_fn(all_upserts, key): every "w" of the key, successful or not
k_upserts_fn(h, key) ==
  UNION {{<<t, j - 1>> :
            j \in {j \in DOMAIN h.txns[t] : h.txns[t][j].f = "w" /\ h.txns[t][j].k = key}} :
           t \in Ids(h)}

\* Mutant: the returned keys are not taken out.
other_keys_All(h, q) ==
  {key \in all_keys(h) : in_between(key, MopAt(h, q).k1, MopAt(h, q).k2)}

\* The keys that a range query should have seen and did not return.
other_keys(h, q) ==
  LET m == MopAt(h, q)
  IN  {key \in all_keys(h) : in_between(key, m.k1, m.k2)} \ KeysOf(RangeItems(m))

-----------------------------------------------------------------------------
(* What the code asserts of its input. *)

\* check_INT, while the logs are parsed: a key outside the range, a dead key
\* of an open range, a failed deletion.
ParseAsserts(txn) ==
  \E j \in DOMAIN txn :
    LET m == txn[j]
    IN  \/ m.f = "d" /\ ~m.succ
        \/ m.f = "range" /\ \E p \in RangeItems(m) : ~in_between(p[1], m.k1, m.k2)
        \/ m.f = "range" /\ m.dead # {} /\ Nil \in {m.k1, m.k2}

\* ext_reads_fn: "k1 <= id <= k2" with a bound None, a failed insertion that
\* is the first access of its key
IndexAsserts(txn) ==
  \E j \in DOMAIN txn :
    LET m == txn[j]
    IN  \/ m.f = "range" /\ RangeItems(m) # {} /\ Nil \in {m.k1, m.k2}
        \/ m.f = "i" /\ ~m.succ /\ \A i \in 1..j-1 : m.k \notin Ignored(txn[i])

\* all_writes_fn, all_upsert_fn and all_index: two writes of one value to one
\* key.  Failed writes are compared among "w" mops and with an earlier
\* successful write of their transaction.
DuplicateWrites(h) ==
  \E t, u \in Ids(h) : \E i \in DOMAIN h.txns[t], j \in DOMAIN h.txns[u] :
    LET m == h.txns[t][i]
        n == h.txns[u][j]
    IN  /\ t < u \/ (t = u /\ i < j)
        /\ IsWrite(m) /\ IsWrite(n)
        /\ m.k = n.k /\ m.v = n.v
        /\ (m.f = "w" /\ n.f = "w") \/ (m.succ /\ (n.succ \/ t = u))

\* all_upsert_fn and all_index alone: two "w" mops, successful or not
DuplicateUpserts(h) ==
  \E t, u \in Ids(h) : \E i \in DOMAIN h.txns[t], j \in DOMAIN h.txns[u] :
    LET m == h.txns[t][i]
        n == h.txns[u][j]
    IN  /\ <<t, i>> # <<u, j>>
        /\ m.f = "w" /\ n.f = "w"
        /\ m.k = n.k /\ m.v = n.v
=============================================================================
