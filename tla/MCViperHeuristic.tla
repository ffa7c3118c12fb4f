-------------------------- MODULE MCViperHeuristic -------------------------
(* Three transactions that read and write one key, in one or two strong    *)
(* sessions.                                                               *)
EXTENDS ViperHeuristic, MCHistories

OneKeyShapes ==
  {[rd |-> [x \in Keys |-> IF x = 1 THEN v ELSE NoRead], wr |-> w] :
     v \in 0..NTxns \cup {NoRead}, w \in {{}, {1}}}

MCHists ==
  {[txns |-> [t \in 1..NTxns |-> MopsOf(t, sh[t])],
    sessions |-> s, hasInit |-> FALSE, init |-> NoInit] :
     s \in {TwoSessions, {<<1, 2, 3>>}},
     sh \in {sh \in [1..NTxns -> OneKeyShapes] : Plausible(sh, {0})}}
=============================================================================
