------------------------------ MODULE MCAppend -----------------------------
(* Logs of three transactions, of two processes, over one list and a       *)
(* second one that some of them append to and read.  A transaction reads,  *)
(* then appends.  The lists read show the appends of one transaction in    *)
(* their order, without repetition, and not only a part of them at the     *)
(* end: nothing in the builder compares these.                             *)
EXTENDS AppendBuilder

R(key, v) == [f |-> "r", k |-> key, v |-> v]
App(key, e) == [f |-> "append", k |-> key, e |-> e]

\* What transaction t may append to key 1.
Appending(t) == {<< >>, <<t>>} \cup (IF t = 2 THEN {<<2, 12>>} ELSE {})

Unknown == 99   \* a value nobody appended

\* Lists of at most m elements that a read of key 1 may return when app
\* tells what was appended.
Lists(app, m) ==
  LET Vals == UNION {Range(app[u]) : u \in 1..NTxns} \cup {Unknown}
      Ordered(s) == \A i, j \in DOMAIN s : s[i] = 2 /\ s[j] = 12 => i < j
      Whole(s) == \A u \in 1..NTxns : Last(s) \in Range(app[u]) => Range(app[u]) \subseteq Range(s)
  IN  {<< >>} \cup {s \in UNION {[1..n -> Vals] : n \in 1..m} :
                      IsInjective(s) /\ Ordered(s) /\ Whole(s)}

Line(p, mops) == [type |-> "ok", process |-> p, value |-> mops]
Failed(p, key, e) == [type |-> "fail", process |-> p, value |-> <<App(key, e)>>]

NoList == <<Unknown, Unknown>>

ReadMops(key, s) == IF s = NoList THEN << >> ELSE <<R(key, s)>>
AppendMops(key, s) == [i \in DOMAIN s |-> App(key, s[i])]

\* A failed append stands in the log between the transactions.
Log(t1, t2, t3) == <<Line(1, t1), Line(2, t2), Failed(2, 1, Unknown), Line(1, t3)>>

Known(lists) == {s \in lists : Unknown \notin Range(s)}

\* One list, which the third transaction reads up to length 3; a value nobody
\* appended stands only in its lists of at most two elements.
OneList ==
  UNION {{Log(ReadMops(1, s) \o AppendMops(1, app[1]), ReadMops(1, u) \o AppendMops(1, app[2]),
              ReadMops(1, v) \o AppendMops(1, app[3])) :
            s \in Known(Lists(app, 2)) \cup {NoList}, u \in Known(Lists(app, 1)) \cup {NoList},
            v \in Known(Lists(app, 3)) \cup Lists(app, 2)} :
           app \in {<<a1, a2, a3>> : a1 \in Appending(1), a2 \in Appending(2), a3 \in Appending(3)}}

\* Two lists, one append each: who reads which prefix.
TwoLists ==
  {Log(<<R(1, s), R(2, s2), App(1, 1)>>, ReadMops(1, u) \o <<R(2, u2), App(2, 2)>>,
       <<App(1, 3)>> \o w) :
     s \in {<< >>, <<3>>}, s2 \in {<< >>, <<2>>, <<3>>, <<2, 3>>, <<3, 2>>},
     u \in {NoList, << >>, <<1>>, <<3>>, <<1, 3>>, <<3, 1>>}, u2 \in {<< >>, <<3>>},
     w \in {<< >>, <<App(2, 3)>>, <<R(2, << >>)>>, <<R(2, <<2>>)>>, <<R(2, <<2>>), App(2, 3)>>}}

\* The second transaction has seen the first one's append to key 2; a list of
\* key 1 shows the two in their order or against it.
SeenOrder ==
  {parse(Log(<<App(1, 1), App(2, 1)>>, <<R(2, <<1>>), App(1, 2)>>, <<R(1, s)>>)) :
     s \in {<<1, 2>>, <<2, 1>>}}

MCHists == {parse(l) : l \in OneList \cup TwoLists}

ASSUME \A h \in MCHists \cup SeenOrder : ListHistory(h) /\ TransparentLists(h)
=============================================================================
