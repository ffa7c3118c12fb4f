---------------------------- MODULE MCViperGaps ----------------------------
(* Histories on which Viper's verdict differs from the definition of       *)
(* snapshot isolation; one set for each disagreement, with correct         *)
(* histories of the same form beside it.                                   *)
EXTENDS Viper, MCHistories

History(p, q, hasInit, init) ==
  [txns |-> <<p, q>>, sessions |-> {<<1>>, <<2>>}, hasInit |-> hasInit, init |-> init]

\* T0 logged without key 1: a null read of it, after a write
NullReads ==
  {History(<<W(1, 1), W(2, 1)>>, <<R(2, v), R(1, w)>>, TRUE, [x \in {3} |-> 10]) :
     v \in {0, 1}, w \in {0, 1}}

\* A range query before the transaction's own write
QueryThenWrite ==
  {History(<<RangeQ(1, 2, {})>> \o p, <<RangeQ(1, 2, {})>> \o q, FALSE, NoInit) :
     p \in {<< >>, <<W(1, 1)>>}, q \in {<< >>, <<W(1, 2)>>}}

\* A read after the transaction's own insertion
InsertThenRead ==
  {History(<<W(1, 1)>>, <<I(1, 2, 1, TRUE), R(1, v)>>, FALSE, NoInit) : v \in {1, 2}}

\* A range query beside another transaction's failed write, read in order
FailedUpsert ==
  {History(<<FailedW(1, 1)>> \o p, <<R(2, v), RangeQ(1, 1, {})>>, FALSE, NoInit) :
     p \in {<< >>, <<W(2, 1)>>}, v \in {0, 1}}
=============================================================================
