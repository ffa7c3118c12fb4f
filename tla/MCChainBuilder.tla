--------------------------- MODULE MCChainBuilder --------------------------
(* Four transactions that each read some version of one key and most of    *)
(* which write it: version orders with forks, cycles and chains that merge *)
(* in every order.  And one chain of writers whose first transaction the   *)
(* builder must refuse, once for each place where it can.                  *)
EXTENDS ChainBuilder, MCHistories

OneKeyShapes ==
  {[rd |-> [x \in Keys |-> IF x = 1 THEN v ELSE NoRead], wr |-> w] :
     v \in 0..NTxns \cup {NoRead}, w \in {{}, {1}}}

Chained ==
  {[txns |-> [t \in 1..NTxns |-> MopsOf(t, sh[t])],
    sessions |-> {<<1, 2>>, <<3, 4>>}, hasInit |-> FALSE, init |-> NoInit] :
     sh \in {sh \in [1..NTxns -> OneKeyShapes] : Plausible(sh, {0})}}

\* A read of no version, of its own overwritten version and of its own
\* insertion; an own write that a query misses; a value written twice; a key
\* outside its range; an open range; a failed insertion.
Refused ==
  { <<R(1, 99), W(1, 1)>>, <<W(1, 1), R(1, 10)>>, <<I(1, 1, 1, TRUE)>>,
    <<W(1, 1), RangeQ(1, 2, {})>>, <<W(1, 1), W(1, 1)>>,
    <<RangeQ(2, 2, {<<1, 10>>}), W(1, 1)>>, <<RangeQ(Nil, Nil, {<<1, 10>>}), W(1, 1)>>,
    <<I(1, 1, 10, FALSE), W(1, 1)>> }

MCHists ==
  Chained \cup
  {[txns |-> [t \in 1..NTxns |-> IF t = 1 THEN p ELSE <<R(1, t - 1), W(1, t)>>],
    sessions |-> {<<1, 2>>, <<3, 4>>}, hasInit |-> TRUE, init |-> [x \in {1} |-> 10]] :
     p \in Refused}
=============================================================================
