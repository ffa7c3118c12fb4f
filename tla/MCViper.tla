------------------------------ MODULE MCViper ------------------------------
(* Three transactions over two keys without a logged initial state: point  *)
(* reads and writes, one to three operations each, where a read of the     *)
(* initial state returns NULL_VALUE; and writes with range queries alone,  *)
(* before a write of a returned key, or after a write; and transactions    *)
(* over one key that read after or in their own writes.                    *)
EXTENDS Viper, MCHistories

\* u is another transaction or NULL_VALUE: reads after a write, a failed write
\* and a deletion, reads by a deletion and an insertion, and a deletion that
\* finds what it is about to write.
OwnReads(t, u) ==
  { <<W(1, t), R(1, t)>>, <<W(1, t), R(1, u)>>, <<FailedW(1, 40 + t), R(1, u), W(1, t)>>,
    <<D(1, t, u), R(1, t)>>, <<R(1, u), D(1, t, u)>>, <<I(1, t, u, TRUE)>>,
    <<W(1, 20 + t), D(1, t, 20 + t)>>, <<D(1, t, t)>> }

OwnReadTxns(t) == UNION {OwnReads(t, u) : u \in (1..3 \ {t}) \cup {NULL_VALUE}}

OwnReadHistories ==
  {[txns |-> [t \in 1..3 |-> p[t]],
    sessions |-> TwoSessions, hasInit |-> FALSE, init |-> NoInit] :
     p \in OwnReadTxns(1) \X OwnReadTxns(2) \X OwnReadTxns(3)}

MCHists ==
  OwnReadHistories
    \cup QueryHistories(3, {s \in QueryShapes(3) : \A x \in s.post : s.res[x] # NoKey},
                        TwoSessions)
    \cup {h \in ReadWriteHistories(3, 3, {NULL_VALUE}, TwoSessions, FALSE, NoInit) :
            \A t \in Ids(h) : h.txns[t] # << >>}

\* They all meet the hypotheses under which Viper's verdicts are proved right.
ASSUME \A h \in MCHists : Regular(h) /\ Transparent(h) /\ AssertionsHold(h)
=============================================================================
