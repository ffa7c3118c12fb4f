---------------------------- MODULE MCViperMain ----------------------------
(* Log directories with an initial transaction in a file of its own, or    *)
(* without one, and one file for each session.                             *)
EXTENDS ViperMain, MCHistories

Logged(value) == [initial |-> FALSE, value |-> value]
Initial(value) == <<[initial |-> TRUE, value |-> value]>>

\* The directory of transactions txns, with the initial file's content or
\* << >> for no such file.
Dir(txns, sess, initial) ==
  [i \in (IF initial = << >> THEN {} ELSE {0}) \cup DOMAIN sess |->
     IF i = 0 THEN initial ELSE [j \in DOMAIN sess[i] |-> Logged(txns[sess[i][j]])]]

Runs(options, dirs) ==
  {[algo |-> o[1], ww_order |-> o[2], sub_dir |-> d] : o \in options, d \in dirs}

\* The initial value 10 of both keys, as writes and as a query of everything.
InitialWritten == Initial(<<W(1, 10), W(2, 10)>>)
InitialQueried == Initial(<<[f |-> "range", k1 |-> Nil, k2 |-> Nil,
                             rs |-> {<<1, 10>>}, dead |-> {<<2, 10>>}]>>)

Chains == {<<5, FALSE>>}
Pairs124 == {<<1, FALSE>>, <<2, FALSE>>, <<2, TRUE>>, <<4, FALSE>>}

-----------------------------------------------------------------------------
(* Three transactions over two keys, at most two operations each; two each *)
(* for the pair builder.                                                   *)
PointTxns == {h.txns : h \in ReadWriteHistories(3, 2, {10}, TwoSessions, TRUE, NoInit)}

TwoOps == {txns \in PointTxns : \A t \in 1..3 : Len(txns[t]) = 2}

\* Someone reads a value that is nowhere to be found.
Ghosts ==
  {<<p, q, <<R(1, 10)>>>> : p \in {<<R(1, 99)>>, <<R(1, 99), W(1, 1)>>, <<W(1, 1), R(2, 99)>>},
                            q \in {<<W(1, 2)>>, <<R(1, 1), W(2, 2)>>}}

PointRuns ==
  Runs(Chains, {Dir(t, <<<<1, 2>>, <<3>>>>, InitialQueried) : t \in PointTxns \cup Ghosts})
    \cup Runs(Pairs124, {Dir(t, <<<<1, 2>>, <<3>>>>, InitialWritten) : t \in TwoOps \cup Ghosts})

(* Two transactions over one key, each one of a list of programs that use  *)
(* the rest of the log format: repeated and own reads, overwritten writes, *)
(* failed writes, deletions and insertions, and logs that the assertions   *)
(* of the parser refuse.                                                   *)
\* Values of t for key 1: its last write is t; 20+t is overwritten, 40+t failed.
Programs(t, u) ==
  { << >>, <<W(1, t)>>, <<R(1, 10)>>, <<R(1, u)>>,
    <<R(1, 10), W(1, t)>>, <<R(1, u), W(1, t)>>,
    <<W(1, t), R(1, t)>>, <<W(1, t), R(1, 10)>>, <<W(1, t), R(1, u)>>,
    <<R(1, u), R(1, u)>>, <<R(1, 10), R(1, u)>>, <<R(1, t), W(1, t)>>,
    <<W(1, 20 + t), W(1, t)>>, <<R(1, 20 + u)>>, <<W(1, 20 + t), R(1, 20 + t), W(1, t)>>,
    <<W(1, t), FailedW(1, 40 + t)>>, <<FailedW(1, 40 + t), R(1, 10)>>, <<R(1, 40 + u)>>,
    <<D(1, t, 10)>>, <<D(1, t, u)>>, <<W(1, 20 + t), D(1, t, 20 + t)>>,
    <<W(1, 20 + t), D(1, t, 10)>>, <<I(1, t, 10, TRUE)>>, <<I(1, t, u, TRUE), R(1, t)>>,
    <<RangeQ(1, 2, {<<1, 10>>, <<2, 10>>}), W(1, t)>>, <<RangeQ(1, 1, {<<1, u>>})>> }

\* Refused: a value written twice, a key outside its range, an open range, a
\* failed insertion, an insertion that reads its own value.
Malformed(t) ==
  { <<W(1, t), W(1, t)>>, <<RangeQ(2, 2, {<<1, 10>>})>>, <<RangeQ(Nil, Nil, {<<1, 10>>})>>,
    <<I(1, t, 10, FALSE)>>, <<I(1, t, t, TRUE)>> }

OtherMops ==
  {<<p, q, << >>>> : p \in Programs(1, 2), q \in Programs(2, 1) \cup Malformed(2)}

\* Initial transactions that the assertions refuse.
BadInitial ==
  { Initial(<<RangeQ(1, 2, {<<1, 10>>})>>), Initial(<<R(1, 10), W(2, 10)>>),
    Initial(<<W(1, 10), FailedW(2, 10)>>) }

OtherRuns ==
  Runs(Chains \cup {<<2, TRUE>>},
       {Dir(t, <<<<1>>, <<2, 3>>>>, InitialWritten) : t \in OtherMops})
    \cup Runs(Chains, {Dir(<<<<W(1, 1)>>, <<R(1, 1)>>, << >>>>, <<<<1>>, <<2, 3>>>>, i) : i \in BadInitial})

-----------------------------------------------------------------------------
(* Range queries of three transactions, the initial state unlogged; for    *)
(* the chain builder none before a write of a key that it missed.          *)
Queries(shapes) ==
  {Dir(h.txns, <<<<1, 2>>, <<3>>>>, << >>) : h \in QueryHistories(3, shapes, TwoSessions)}

QueryRuns ==
  Runs(Chains, Queries({s \in QueryShapes(3) : s.post = {}}))
    \cup Runs({<<1, FALSE>>, <<4, FALSE>>}, Queries(QueryShapes(3)))

MCCommandLines == PointRuns \cup OtherRuns \cup QueryRuns

ASSUME \A c \in MCCommandLines : LogDirectory(c.sub_dir)
=============================================================================
