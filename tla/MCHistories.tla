---------------------------- MODULE MCHistories ----------------------------
(* Families of small histories for TLC.  A transaction of a family first   *)
(* reads, then writes; it writes its own id, so that every written value   *)
(* names its writer.                                                       *)
EXTENDS Integers, Sequences, FiniteSets, SequencesExt

Keys == {1, 2}
NoRead == -1

R(key, v) == [f |-> "r", k |-> key, v |-> v]
W(key, v) == [f |-> "w", k |-> key, v |-> v, succ |-> TRUE]
FailedW(key, v) == [f |-> "w", k |-> key, v |-> v, succ |-> FALSE]
I(key, v, rv, ok) == [f |-> "i", k |-> key, v |-> v, rv |-> rv, succ |-> ok]
D(key, v, rv) == [f |-> "d", k |-> key, v |-> v, rv |-> rv, succ |-> TRUE]
RangeQ(k1, k2, rs) == [f |-> "range", k1 |-> k1, k2 |-> k2, rs |-> rs, dead |-> {}]

\* Read values and written keys of a transaction with at most n operations.
Shapes(vals, n) ==
  {s \in [rd : [Keys -> vals \cup {NoRead}], wr : SUBSET Keys] :
     Cardinality({x \in Keys : s.rd[x] # NoRead}) + Cardinality(s.wr) <= n}

\* Transaction t reads v only from a writer of the key, never from itself;
\* the values of base are nobody's.
Plausible(sh, base) ==
  \A t \in DOMAIN sh : \A x \in Keys :
    LET v == sh[t].rd[x]
    IN  v \in base \cup {NoRead} \/ (v \in DOMAIN sh \ {t} /\ x \in sh[v].wr)

MopsOf(t, s) ==
  SetToSeq({R(x, s.rd[x]) : x \in {x \in Keys : s.rd[x] # NoRead}})
    \o SetToSeq({W(x, t) : x \in s.wr})

\* Histories of n transactions with at most m operations each.
ReadWriteHistories(n, m, base, sessions, hasInit, init) ==
  {[txns |-> [t \in 1..n |-> MopsOf(t, sh[t])],
    sessions |-> sessions, hasInit |-> hasInit, init |-> init] :
     sh \in {sh \in [1..n -> Shapes(1..n \cup base, m)] : Plausible(sh, base)}}

-----------------------------------------------------------------------------
(* Range queries over both keys that return some writer's value or nothing *)
(* for each.  A shape [res, pre, post] has the results, the keys written   *)
(* before the query, and after it; a shape [wr] only writes.               *)
NoKey == -1

QueryShapes(n) ==
  {s \in [res : [Keys -> 1..n \cup {NoKey}], pre : {{}, {1}}, post : {{}, {2}}] :
     s.pre = {} \/ s.post = {}}

WriteAll(t, S) == SetToSeq({W(x, t) : x \in S})

QueryTxn(t, s) ==
  IF "wr" \in DOMAIN s THEN WriteAll(t, s.wr)
  ELSE LET items == {<<x, s.res[x]>> : x \in {x \in Keys : s.res[x] # NoKey}}
       IN  WriteAll(t, s.pre) \o <<RangeQ(1, 2, items)>> \o WriteAll(t, s.post)

Written(s) == IF "wr" \in DOMAIN s THEN s.wr ELSE s.pre \cup s.post

\* A query returns what someone wrote; its own transaction, before it.
Sensible(sh) ==
  \A t \in DOMAIN sh : "res" \in DOMAIN sh[t] =>
    \A x \in Keys : LET v == sh[t].res[x]
                    IN  v = NoKey \/ (x \in Written(sh[v]) /\ (v # t \/ x \in sh[t].pre))

QueryHistories(n, shapes, sessions) ==
  {[txns |-> [t \in 1..n |-> QueryTxn(t, sh[t])],
    sessions |-> sessions, hasInit |-> FALSE, init |-> << >>] :
     sh \in {sh \in [1..n -> shapes \cup [wr : SUBSET Keys]] : Sensible(sh)}}

-----------------------------------------------------------------------------
TwoSessions == {<<1, 2>>, <<3>>}
NoInit == << >>
=============================================================================
