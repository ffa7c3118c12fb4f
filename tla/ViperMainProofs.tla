-------------------------- MODULE ViperMainProofs --------------------------
(***************************************************************************)
(* main_allcases.py from the logs to the verdict, for any number of files, *)
(* transactions and keys and every order in which the files are listed:    *)
(*                                                                         *)
(*  - the assembly numbers the transactions correctly and mixes up no      *)
(*    sessions, if the initial transaction has a file of its own;          *)
(*  - the history it hands over is the logged one up to the numbering, on  *)
(*    which snapshot isolation does not depend;                            *)
(*  - both builders, with the four checkers behind them, reject no regular *)
(*    history that is snapshot isolated and accept no transparent one that *)
(*    is not.                                                              *)
(***************************************************************************)
EXTENDS ViperMain, ViperAcceptProofs

-----------------------------------------------------------------------------
(* The inductive invariant. *)

SessionFiles == {name \in DOMAIN logs : ~is_initial_history(logs[name])}

\* The ids of s are those of the transactions of file, in their order.
IsFile(full, s, file) ==
  /\ DOMAIN s = DOMAIN file
  /\ \A i \in DOMAIN file : s[i] \in DOMAIN full /\ full[s[i]].value = file[i].value

\* The ids are the positions.
Numbered ==
  /\ IsSeq(full_history) /\ IsSeq(session_histories)
  /\ txn_id = Len(full_history) + 1
  /\ \A i \in DOMAIN full_history : full_history[i].id = i

\* The sessions are the files that were read.
SessionsSoFar ==
  /\ unread \subseteq DOMAIN logs
  /\ lpc = "loaded" => unread = {}
  /\ \A s \in DOMAIN session_histories :
       \E name \in SessionFiles \ unread : IsFile(full_history, session_histories[s], logs[name])
  /\ \A name \in SessionFiles \ unread :
       \E s \in DOMAIN session_histories : IsFile(full_history, session_histories[s], logs[name])

\* Every transaction is in one session, once.
EachInOneSession ==
  /\ \A t \in DOMAIN full_history :
       \E s \in DOMAIN session_histories : \E i \in DOMAIN session_histories[s] :
         session_histories[s][i] = t
  /\ \A s, r \in DOMAIN session_histories :
       \A i \in DOMAIN session_histories[s], j \in DOMAIN session_histories[r] :
         session_histories[s][i] = session_histories[r][j] => s = r /\ i = j
  /\ \A s \in DOMAIN session_histories : \A i \in DOMAIN session_histories[s] :
       /\ session_histories[s][i] \in DOMAIN full_history
       /\ i \in 1..session_histories[s][i]

LInv == Numbered /\ SessionsSoFar /\ EachInOneSession

-----------------------------------------------------------------------------
(* Reading one file. *)

LEMMA LStartInv ==
  ASSUME NEW dir, LStart(dir)
  PROVE  LInv
<1> DEFINE e == << >>
<1>1. /\ full_history = e /\ session_histories = e /\ txn_id = 1 /\ unread = DOMAIN logs
      /\ lpc = "load"
  BY DEF LStart
<1>2. Len(e) = 0 /\ IsSeq(e) /\ DOMAIN e = {}
  <2>1. e \in Seq({}) /\ Len(e) = 0
    BY EmptySeq
  <2>2. IsSeq(e) /\ DOMAIN e = 1..Len(e)
    BY <2>1, SeqIsFunction
  <2> QED
    BY <2>1, <2>2
<1> HIDE DEF e
<1>3. Numbered
  BY <1>1, <1>2 DEF Numbered
<1>4. SessionsSoFar
  BY <1>1, <1>2 DEF SessionsSoFar, SessionFiles
<1>5. EachInOneSession
  BY <1>1, <1>2 DEF EachInOneSession
<1> QED
  BY <1>3, <1>4, <1>5 DEF LInv

LEMMA IntervalSize == ASSUME NEW n \in Nat PROVE Cardinality(1..n) = n
  BY FS_Interval

\* The transactions of a session's file get the ids that follow the last one.
LEMMA SessionIds ==
  ASSUME NEW file, Len(file) \in Nat, DOMAIN file = 1..Len(file),
         \A i \in DOMAIN file : ~file[i].initial, txn_id \in Nat
  PROVE  /\ \A i \in DOMAIN file : AssignId(file, i) = txn_id + (i - 1)
         /\ Cardinality({j \in DOMAIN file : ~file[j].initial}) = Len(file)
<1>1. ASSUME NEW i \in DOMAIN file PROVE AssignId(file, i) = txn_id + (i - 1)
  <2>1. i \in Int /\ i - 1 \in Int /\ i >= 1 /\ \A j \in 1..i-1 : j \in DOMAIN file
    OBVIOUS
  <2>2. {j \in 1..i-1 : ~file[j].initial} = 1..i-1
    BY <2>1
  <2>3. Cardinality(1..i-1) = i - 1
    <3>1. i - 1 \in Nat
      BY <2>1
    <3> QED
      BY <3>1, IntervalSize
  <2>4. AssignId(file, i) = txn_id + Cardinality({j \in 1..i-1 : ~file[j].initial})
    BY DEF AssignId
  <2> QED
    BY <2>2, <2>3, <2>4
<1>2. {j \in DOMAIN file : ~file[j].initial} = 1..Len(file)
  OBVIOUS
<1>3. Cardinality(1..Len(file)) = Len(file)
  BY IntervalSize
<1> QED
  BY <1>1, <1>2, <1>3

\* What reading the file of a session adds to len transactions and the m
\* sessions sh.
AddsSession(name, file, n, len, sh, m) ==
  /\ name \in DOMAIN logs /\ ~is_initial_history(file)
  /\ n \in Nat /\ DOMAIN file = 1..n /\ \A i \in DOMAIN file : ~file[i].initial
  /\ len \in Nat /\ m \in Nat
  /\ DOMAIN full_history = 1..len /\ DOMAIN sh = 1..m
  /\ txn_id' = (len + n) + 1
  /\ IsSeq(full_history') /\ Len(full_history') = len + n
  /\ DOMAIN full_history' = 1..len + n
  /\ \A i \in 1..len : full_history'[i] = full_history[i]
  /\ \A i \in 1..n : full_history'[len + i] = [id |-> len + i, value |-> file[i].value]
  /\ IsSeq(session_histories') /\ DOMAIN session_histories' = 1..m + 1
  /\ \A s \in 1..m : session_histories'[s] = sh[s]
  /\ DOMAIN session_histories'[m + 1] = 1..n /\ IsSeq(session_histories'[m + 1])
  /\ \A i \in 1..n : session_histories'[m + 1][i] = len + i

LEMMA LoadSessionAdds ==
  ASSUME LInv, InitialAlone(logs), NEW name \in unread, LoadSession(logs[name])
  PROVE  AddsSession(name, logs[name], Len(logs[name]), Len(full_history),
                     session_histories, Len(session_histories))
<1> PICK file, n, len, sh, m :
      /\ file = logs[name] /\ n = Len(file) /\ len = Len(full_history)
      /\ sh = session_histories /\ m = Len(session_histories)
  OBVIOUS
<1>1. /\ name \in DOMAIN logs /\ ~is_initial_history(file)
      /\ n \in Nat /\ DOMAIN file = 1..n /\ \A i \in DOMAIN file : ~file[i].initial
  BY DEF LInv, SessionsSoFar, InitialAlone, LoadSession
<1>2. /\ IsSeq(full_history) /\ IsSeq(sh) /\ len \in Nat /\ m \in Nat /\ txn_id = len + 1
      /\ \A i \in DOMAIN full_history : full_history[i].id = i
      /\ DOMAIN full_history = 1..len /\ DOMAIN sh = 1..m
  <2>1. /\ IsSeq(full_history) /\ IsSeq(sh) /\ len \in Nat /\ m \in Nat /\ txn_id = len + 1
        /\ \A i \in DOMAIN full_history : full_history[i].id = i
    BY DEF LInv, Numbered, IsSeq
  <2> QED
    BY <2>1, AppendIsSeq
<1> PICK new : new = [i \in DOMAIN file |-> [id |-> AssignId(file, i), value |-> Value(file[i])]]
  OBVIOUS
<1> PICK ids : ids = [i \in DOMAIN file |-> AssignId(file, i)]
  OBVIOUS
<1>3. /\ full_history' = full_history \o new
      /\ session_histories' = Append(sh, ids)
      /\ txn_id' = txn_id + Cardinality({j \in DOMAIN file : ~file[j].initial})
  BY DEF LoadSession
<1>t. txn_id \in Nat
  BY <1>2
<1>4. ASSUME NEW i \in 1..n
      PROVE  /\ new[i] = [id |-> len + i, value |-> file[i].value]
             /\ ids[i] = len + i
  <2>1. AssignId(file, i) = txn_id + (i - 1)
    BY <1>1, <1>t, SessionIds
  <2>2. txn_id + (i - 1) = len + i
    BY <1>2
  <2>3. Value(file[i]) = file[i].value
    BY <1>1 DEF Value
  <2> QED
    BY <1>1, <2>1, <2>2, <2>3
<1>5. txn_id' = (len + n) + 1
  <2>1. Cardinality({j \in DOMAIN file : ~file[j].initial}) = n
    BY <1>1, <1>t, SessionIds
  <2>2. txn_id' = txn_id + n
    BY <1>3, <2>1
  <2> QED
    BY <1>1, <1>2, <2>2
<1>6. IsSeq(new) /\ Len(new) = n /\ DOMAIN ids = 1..n /\ IsSeq(ids)
  <2>1. new = [i \in 1..n |-> new[i]] /\ ids = [i \in 1..n |-> ids[i]]
    BY <1>1
  <2>2. n \in Nat
    BY <1>1
  <2> QED
    BY ZenonT(30), <2>1, <2>2, FunctionIsSeq
<1>7. /\ IsSeq(full_history') /\ Len(full_history') = len + n
      /\ DOMAIN full_history' = 1..len + n
      /\ \A i \in 1..len : full_history'[i] = full_history[i]
      /\ \A i \in 1..n : full_history'[len + i] = [id |-> len + i, value |-> file[i].value]
  <2>1. /\ IsSeq(full_history \o new) /\ Len(full_history \o new) = len + n
        /\ DOMAIN (full_history \o new) = 1..len + n
        /\ \A i \in 1..len : (full_history \o new)[i] = full_history[i]
        /\ \A i \in 1..n : (full_history \o new)[len + i] = new[i]
    <3>1. /\ IsSeq(full_history \o new) /\ Len(full_history \o new) = Len(full_history) + Len(new)
          /\ DOMAIN (full_history \o new) = 1..Len(full_history) + Len(new)
          /\ \A i \in 1..Len(full_history) : (full_history \o new)[i] = full_history[i]
          /\ \A i \in 1..Len(new) : (full_history \o new)[Len(full_history) + i] = new[i]
      BY SMTT(30), <1>2, <1>6, ConcatIsSeq
    <3> QED
      BY <1>6, <3>1
  <2>2. \A i \in 1..n : (full_history \o new)[len + i] = [id |-> len + i, value |-> file[i].value]
    <3> TAKE i \in 1..n
    <3>1. new[i] = [id |-> len + i, value |-> file[i].value]
      BY <1>4
    <3>2. (full_history \o new)[len + i] = new[i]
      BY <2>1
    <3> QED
      BY <3>1, <3>2
  <2> QED
    BY <1>3, <2>1, <2>2
<1>8. /\ IsSeq(session_histories') /\ DOMAIN session_histories' = 1..m + 1
      /\ \A s \in 1..m : session_histories'[s] = sh[s]
      /\ session_histories'[m + 1] = ids
  BY <1>2, <1>3, AppendIsSeq
<1>9. \A i \in 1..n : ids[i] = len + i
  BY <1>4
<1>10. /\ DOMAIN session_histories'[m + 1] = 1..n /\ IsSeq(session_histories'[m + 1])
       /\ \A i \in 1..n : session_histories'[m + 1][i] = len + i
  BY <1>6, <1>8, <1>9
<1>11. AddsSession(name, file, n, len, sh, m)
  BY <1>1, <1>2, <1>5, <1>7, <1>8, <1>10 DEF AddsSession
<1> QED
  BY <1>11

LEMMA LoadSessionInv ==
  ASSUME LInv, InitialAlone(logs), NEW name \in unread, LoadSession(logs[name]),
         logs' = logs, unread' = unread \ {name},
         lpc' = IF unread' = {} THEN "loaded" ELSE "load"
  PROVE  LInv'
<1> PICK file : file = logs[name]
  OBVIOUS
<1> PICK n, len, sh, m, ids : /\ n = Len(file) /\ len = Len(full_history)
                              /\ sh = session_histories /\ m = Len(session_histories)
                              /\ ids = session_histories'[m + 1]
  OBVIOUS
<1>a. AddsSession(name, file, n, len, sh, m)
  BY LoadSessionAdds
<1>1. /\ name \in DOMAIN logs /\ ~is_initial_history(file)
      /\ n \in Nat /\ DOMAIN file = 1..n /\ \A i \in DOMAIN file : ~file[i].initial
  BY <1>a DEF AddsSession
<1>2. /\ len \in Nat /\ m \in Nat
      /\ \A i \in DOMAIN full_history : full_history[i].id = i
      /\ DOMAIN full_history = 1..len /\ DOMAIN sh = 1..m
  BY <1>a DEF AddsSession, LInv, Numbered
<1>5. txn_id' = (len + n) + 1
  BY <1>a DEF AddsSession
<1>6. DOMAIN ids = 1..n
  BY <1>a DEF AddsSession
<1>7. /\ IsSeq(full_history') /\ Len(full_history') = len + n
      /\ DOMAIN full_history' = 1..len + n
      /\ \A i \in 1..len : full_history'[i] = full_history[i]
      /\ \A i \in 1..n : full_history'[len + i] = [id |-> len + i, value |-> file[i].value]
  BY <1>a DEF AddsSession
<1>8. /\ IsSeq(session_histories') /\ DOMAIN session_histories' = 1..m + 1
      /\ \A s \in 1..m : session_histories'[s] = sh[s]
      /\ session_histories'[m + 1] = ids
  BY <1>a DEF AddsSession
<1>i. \A i \in 1..n : ids[i] = len + i
  BY <1>a DEF AddsSession
<1>p. \A i \in 1..len + n : i \in 1..len \/ \E l \in 1..n : i = len + l
  <2> SUFFICES ASSUME NEW i \in 1..len + n, i \notin 1..len PROVE i - len \in 1..n /\ i = len + (i - len)
    OBVIOUS
  <2> QED
    BY <1>1, <1>2
<1>q. (\A s \in 1..m + 1 : s \in 1..m \/ s = m + 1) /\ (\A s \in 1..m : s \in 1..m + 1)
      /\ m + 1 \in 1..m + 1
  BY <1>2
<1>r. \A l \in 1..n : len + l \in 1..len + n /\ len + l \notin 1..len /\ l \in 1..len + l
  BY <1>1, <1>2
<1>s. \A i \in 1..len : i \in 1..len + n
  BY <1>1, <1>2
<1>9. Numbered'
  <2>1. ASSUME NEW i \in 1..len + n PROVE full_history'[i].id = i
    <3>1. CASE i \in 1..len
      BY <1>2, <1>7, <3>1
    <3>2. CASE \E l \in 1..n : i = len + l
      <4>1. PICK l \in 1..n : i = len + l
        BY <3>2
      <4>2. full_history'[i] = [id |-> i, value |-> file[l].value]
        BY <1>7, <4>1
      <4> QED
        BY <4>2
    <3> QED
      BY <1>p, <3>1, <3>2
  <2> QED
    BY <1>5, <1>7, <1>8, <2>1 DEF Numbered, IsSeq
<1>10. ASSUME NEW s, NEW f, IsFile(full_history, s, f) PROVE IsFile(full_history', s, f)
  BY <1>10, <1>2, <1>7, <1>s DEF IsFile
<1>11. IsFile(full_history', ids, file)
  <2>1. ASSUME NEW i \in DOMAIN file
        PROVE  ids[i] \in DOMAIN full_history' /\ full_history'[ids[i]].value = file[i].value
    <3>1. i \in 1..n /\ ids[i] = len + i
      BY <1>1, <1>i
    <3>2. full_history'[ids[i]] = [id |-> len + i, value |-> file[i].value]
      BY <1>7, <3>1
    <3> QED
      BY <1>7, <1>r, <3>1, <3>2
  <2> QED
    BY <1>1, <1>6, <2>1 DEF IsFile
<1>12. SessionsSoFar'
  <2>1. SessionFiles' = SessionFiles /\ name \in SessionFiles
    BY <1>1 DEF SessionFiles
  <2>2. /\ unread \subseteq DOMAIN logs
        /\ \A s \in 1..m : \E f \in SessionFiles \ unread : IsFile(full_history, sh[s], logs[f])
        /\ \A f \in SessionFiles \ unread : \E s \in 1..m : IsFile(full_history, sh[s], logs[f])
    BY <1>2 DEF LInv, SessionsSoFar
  <2>3. ASSUME NEW s \in 1..m + 1
        PROVE  \E f \in SessionFiles \ (unread \ {name}) :
                 IsFile(full_history', session_histories'[s], logs[f])
    <3>1. CASE s \in 1..m
      BY <1>8, <1>10, <2>2, <3>1
    <3>2. CASE s = m + 1
      BY <1>8, <1>11, <2>1, <3>2
    <3> QED
      BY <1>q, <3>1, <3>2
  <2>4. ASSUME NEW f \in SessionFiles \ (unread \ {name})
        PROVE  \E s \in 1..m + 1 : IsFile(full_history', session_histories'[s], logs[f])
    <3>1. CASE f = name
      BY <1>8, <1>11, <1>q, <3>1
    <3>2. CASE f # name
      <4>1. PICK s \in 1..m : IsFile(full_history, sh[s], logs[f])
        BY <2>2, <3>2
      <4> QED
        BY <1>8, <1>10, <1>q, <4>1
    <3> QED
      BY <3>1, <3>2
  <2> QED
    BY <1>8, <2>1, <2>2, <2>3, <2>4 DEF SessionsSoFar
<1>13. EachInOneSession'
  <2>1. /\ \A t \in 1..len : \E s \in 1..m : \E i \in DOMAIN sh[s] : sh[s][i] = t
        /\ \A s, r \in 1..m : \A i \in DOMAIN sh[s], j \in DOMAIN sh[r] :
             sh[s][i] = sh[r][j] => s = r /\ i = j
        /\ \A s \in 1..m : \A i \in DOMAIN sh[s] : sh[s][i] \in 1..len /\ i \in 1..sh[s][i]
    <3>a. \A t \in DOMAIN full_history : \E s \in DOMAIN sh : \E i \in DOMAIN sh[s] : sh[s][i] = t
      BY DEF LInv, EachInOneSession
    <3>b. \A s, r \in DOMAIN sh : \A i \in DOMAIN sh[s], j \in DOMAIN sh[r] :
            sh[s][i] = sh[r][j] => s = r /\ i = j
      BY DEF LInv, EachInOneSession
    <3>c. \A s \in DOMAIN sh : \A i \in DOMAIN sh[s] :
            sh[s][i] \in DOMAIN full_history /\ i \in 1..sh[s][i]
      BY DEF LInv, EachInOneSession
    <3>2. DOMAIN full_history = 1..len /\ DOMAIN sh = 1..m
      BY <1>2
    <3>3. \A t \in 1..len : \E s \in 1..m : \E i \in DOMAIN sh[s] : sh[s][i] = t
      <4> TAKE t \in 1..len
      <4>1. t \in DOMAIN full_history
        BY <3>2
      <4>2. PICK s \in DOMAIN sh : \E i \in DOMAIN sh[s] : sh[s][i] = t
        BY <3>a, <4>1
      <4>3. s \in 1..m
        BY <3>2
      <4> QED
        BY <4>2, <4>3
    <3>4. \A s, r \in 1..m : \A i \in DOMAIN sh[s], j \in DOMAIN sh[r] :
             sh[s][i] = sh[r][j] => s = r /\ i = j
      <4> TAKE s, r \in 1..m
      <4>1. s \in DOMAIN sh /\ r \in DOMAIN sh
        BY <3>2
      <4> QED
        BY <3>b, <4>1
    <3>5. \A s \in 1..m : \A i \in DOMAIN sh[s] : sh[s][i] \in 1..len /\ i \in 1..sh[s][i]
      BY <3>c, <3>2
    <3> QED
      BY <3>3, <3>4, <3>5
  <2> PICK new_sh : new_sh = session_histories'
    OBVIOUS
  <2>2. /\ \A s \in 1..m : new_sh[s] = sh[s]
        /\ new_sh[m + 1] = ids /\ DOMAIN new_sh = 1..m + 1
    BY <1>8
  <2>3. ASSUME NEW t \in 1..len + n
        PROVE  \E s \in 1..m + 1 : \E i \in DOMAIN new_sh[s] : new_sh[s][i] = t
    <3>1. CASE t \in 1..len
      <4>1. PICK s \in 1..m : \E i \in DOMAIN sh[s] : sh[s][i] = t
        BY <2>1, <3>1
      <4> QED
        BY <1>q, <2>2, <4>1
    <3>2. CASE \E l \in 1..n : t = len + l
      <4>1. PICK l \in 1..n : t = len + l
        BY <3>2
      <4>2. l \in DOMAIN ids /\ ids[l] = t
        BY <1>6, <1>i, <4>1
      <4> QED
        BY <1>q, <2>2, <4>2
    <3> QED
      BY <1>p, <3>1, <3>2
  <2>4. ASSUME NEW s \in 1..m + 1, NEW i \in DOMAIN new_sh[s]
        PROVE  /\ new_sh[s][i] \in 1..len + n /\ i \in 1..new_sh[s][i]
               /\ s \in 1..m <=> new_sh[s][i] \in 1..len
    <3>1. CASE s \in 1..m
      BY <1>s, <2>1, <2>2, <3>1
    <3>2. CASE s = m + 1
      <4>1. i \in 1..n /\ new_sh[s][i] = len + i /\ s \notin 1..m
        <5>1. new_sh[s] = ids /\ s \notin 1..m
          BY <1>2, <2>2, <3>2
        <5>2. i \in 1..n
          BY <1>6, <5>1
        <5> QED
          BY <1>i, <5>1, <5>2
      <4> QED
        BY <1>r, <4>1
    <3> QED
      BY <1>q, <3>1, <3>2
  <2>5. ASSUME NEW s \in 1..m + 1, NEW r \in 1..m + 1, NEW i \in DOMAIN new_sh[s],
               NEW j \in DOMAIN new_sh[r], new_sh[s][i] = new_sh[r][j]
        PROVE  s = r /\ i = j
    <3>1. CASE s \in 1..m
      <4>1. r \in 1..m
        BY <2>4, <2>5, <3>1
      <4> QED
        BY <2>1, <2>2, <2>5, <3>1, <4>1
    <3>2. CASE s = m + 1
      <4>1. r = m + 1
        <5>1. s \notin 1..m
          BY <1>2, <3>2
        <5>2. r \notin 1..m
          BY <2>4, <2>5, <5>1
        <5> QED
          BY <1>q, <5>2
      <4>2. i \in 1..n /\ j \in 1..n /\ len + i = len + j
        BY <1>6, <1>i, <2>2, <2>5, <3>2, <4>1
      <4> QED
        BY <1>1, <1>2, <3>2, <4>1, <4>2
    <3> QED
      BY <1>q, <3>1, <3>2
  <2>6. DOMAIN full_history' = 1..len + n /\ DOMAIN new_sh = 1..m + 1
    BY <1>7, <2>2
  <2>7. \A t \in DOMAIN full_history' :
          \E s \in DOMAIN new_sh : \E i \in DOMAIN new_sh[s] : new_sh[s][i] = t
    <3> TAKE t \in DOMAIN full_history'
    <3>1. t \in 1..len + n
      BY <2>6
    <3>2. PICK s \in 1..m + 1 : \E i \in DOMAIN new_sh[s] : new_sh[s][i] = t
      BY <2>3, <3>1
    <3> QED
      BY <2>6, <3>2
  <2>8. \A s, r \in DOMAIN new_sh : \A i \in DOMAIN new_sh[s], j \in DOMAIN new_sh[r] :
          new_sh[s][i] = new_sh[r][j] => s = r /\ i = j
    BY <2>5, <2>6
  <2>9. \A s \in DOMAIN new_sh : \A i \in DOMAIN new_sh[s] :
          new_sh[s][i] \in DOMAIN full_history' /\ i \in 1..new_sh[s][i]
    BY <2>4, <2>6
  <2> QED
    BY <2>7, <2>8, <2>9 DEF EachInOneSession
<1> QED
  BY <1>9, <1>12, <1>13 DEF LInv

LEMMA LoadInitialInv ==
  ASSUME LInv, NEW name \in unread, LoadInitial(logs[name]),
         logs' = logs, unread' = unread \ {name},
         lpc' = IF unread' = {} THEN "loaded" ELSE "load"
  PROVE  LInv'
<1>1. /\ full_history' = full_history /\ session_histories' = session_histories
      /\ txn_id' = txn_id /\ is_initial_history(logs[name])
  BY DEF LoadInitial
<1>2. Numbered'
  BY <1>1 DEF LInv, Numbered
<1>3. EachInOneSession'
  BY <1>1 DEF LInv, EachInOneSession
<1>4. SessionFiles' = SessionFiles /\ SessionFiles \ unread' = SessionFiles \ unread
  BY <1>1 DEF SessionFiles
<1>5. /\ unread' \subseteq DOMAIN logs
      /\ lpc' = "loaded" => unread' = {}
  BY DEF LInv, SessionsSoFar
<1>6. SessionsSoFar'
  <2>1. \A s \in DOMAIN session_histories :
          \E f \in SessionFiles \ unread' : IsFile(full_history, session_histories[s], logs[f])
    BY <1>4 DEF LInv, SessionsSoFar
  <2>2. \A f \in SessionFiles \ unread' :
          \E s \in DOMAIN session_histories : IsFile(full_history, session_histories[s], logs[f])
    BY <1>4 DEF LInv, SessionsSoFar
  <2> QED
    BY <1>1, <1>4, <1>5, <2>1, <2>2 DEF SessionsSoFar
<1> QED
  BY <1>2, <1>3, <1>6 DEF LInv

LEMMA LUnchangedInv ==
  ASSUME LInv, UNCHANGED <<logs, unread, full_history, session_histories, txn_id>>,
         lpc' = "loaded" => lpc = "loaded"
  PROVE  LInv'
  BY DEF LInv, Numbered, SessionsSoFar, EachInOneSession, SessionFiles

LEMMA LStepInv ==
  ASSUME LInv, InitialAlone(logs), LStep
  PROVE  LInv'
<1>1. CASE LoadFile
  <2>1. PICK name \in unread : /\ LoadInitial(logs[name]) \/ LoadSession(logs[name])
                               /\ unread' = unread \ {name}
    BY <1>1 DEF LoadFile
  <2>2. logs' = logs /\ lpc' = IF unread' = {} THEN "loaded" ELSE "load"
    BY <1>1 DEF LoadFile
  <2> QED
    BY <2>1, <2>2, LoadInitialInv, LoadSessionInv
<1>2. CASE LoadReject \/ LoadCrash
  BY <1>2, LUnchangedInv DEF LoadReject, LoadCrash, LStop
<1> QED
  BY <1>1, <1>2 DEF LStep

-----------------------------------------------------------------------------
(* The whole program. *)

\* The invariant of the assembly, for the directories it is made for.
MLInv == InitialAlone(logs) => LInv

LEMMA MStepLeavesLogs ==
  ASSUME [MNext]_mvars
  PROVE  LStep \/ UNCHANGED lvars
<1>1. CASE Load
  BY <1>1 DEF Load
<1>2. CASE HandOver
  BY <1>2 DEF HandOver
<1>3. CASE LoadRaises
  BY <1>3 DEF LoadRaises
<1>4. CASE Run
  BY <1>4 DEF Run
<1>5. CASE UNCHANGED mvars
  BY <1>5 DEF mvars
<1> QED
  BY <1>1, <1>2, <1>3, <1>4, <1>5 DEF MNext, MStep

\* The invariant holds of every run of the program.
THEOREM MLInvariant == MSpec => []MLInv
<1>1. MInit => MLInv
  BY LStartInv DEF MInit, MLInv
<1>2. MLInv /\ [MNext]_mvars => MLInv'
  <2> SUFFICES ASSUME MLInv, [MNext]_mvars, InitialAlone(logs)' PROVE LInv'
    BY DEF MLInv
  <2>1. CASE LStep
    <3>1. logs' = logs
      BY <2>1 DEF LStep, LoadFile, LoadReject, LoadCrash, LStop
    <3>2. InitialAlone(logs)
      BY <3>1
    <3> QED
      BY <2>1, <3>2, LStepInv DEF MLInv
  <2>2. CASE UNCHANGED lvars
    <3>1. /\ UNCHANGED <<logs, unread, full_history, session_histories, txn_id>>
          /\ lpc' = lpc
      BY <2>2 DEF lvars
    <3>2. InitialAlone(logs)
      BY <3>1
    <3> QED
      BY <3>1, <3>2, LUnchangedInv DEF MLInv
  <2> QED
    BY <2>1, <2>2, MStepLeavesLogs
<1> QED
  BY <1>1, <1>2, PTL DEF MSpec

(***************************************************************************)
(* load_logs_json and construct_all_txns_json give a transaction the id of *)
(* its position in full_history, whatever the directory holds and whatever *)
(* the order of os.listdir, as long as the initial transaction is alone in *)
(* its file.                                                               *)
(***************************************************************************)
THEOREM IdsTheorem == MSpec => [](InitialAlone(logs) => IdsAreIndices)
<1>1. MLInv => (InitialAlone(logs) => IdsAreIndices)
  BY DEF MLInv, LInv, Numbered, IdsAreIndices
<1> QED
  BY <1>1, MLInvariant, PTL

LEMMA LInvSessionsAreFiles ==
  ASSUME LInv, InitialAlone(logs), lpc = "loaded"
  PROVE  SessionsAreFiles
<1> PICK sh, full, n : sh = session_histories /\ full = full_history /\ n = Len(full_history)
  OBVIOUS
<1> DEFINE Values(s) == [i \in DOMAIN s |-> full[s[i]].value]
           Logged(name) == [i \in DOMAIN logs[name] |-> logs[name][i].value]
<1>1. ASSUME NEW s, NEW name, IsFile(full, s, logs[name]) PROVE Values(s) = Logged(name)
  BY <1>1 DEF IsFile
<1>2. /\ \A s \in DOMAIN sh : \E name \in SessionFiles : IsFile(full, sh[s], logs[name])
      /\ \A name \in SessionFiles : \E s \in DOMAIN sh : IsFile(full, sh[s], logs[name])
  BY DEF LInv, SessionsSoFar
<1>3. {Values(s) : s \in ToSet(sh)} = {Logged(name) : name \in SessionFiles}
  <2> HIDE DEF Values, Logged
  <2>1. ASSUME NEW s \in ToSet(sh) PROVE \E name \in SessionFiles : Values(s) = Logged(name)
    <3>1. PICK k \in DOMAIN sh : s = sh[k]
      BY DEF ToSet
    <3> QED
      BY <1>1, <1>2, <3>1
  <2>2. ASSUME NEW name \in SessionFiles PROVE \E s \in ToSet(sh) : Values(s) = Logged(name)
    <3>1. PICK k \in DOMAIN sh : IsFile(full, sh[k], logs[name])
      BY <1>2
    <3>2. sh[k] \in ToSet(sh)
      BY DEF ToSet
    <3> QED
      BY <1>1, <3>1, <3>2
  <2> QED
    BY <2>1, <2>2
<1>4. n \in Nat /\ DOMAIN full = 1..n
  BY AppendIsSeq DEF LInv, Numbered, IsSeq
<1>5. /\ \A t \in DOMAIN full : \E s \in DOMAIN sh : \E i \in DOMAIN sh[s] : sh[s][i] = t
      /\ \A s, r \in DOMAIN sh : \A i \in DOMAIN sh[s], j \in DOMAIN sh[r] :
           sh[s][i] = sh[r][j] => s = r /\ i = j
      /\ \A s \in DOMAIN sh : \A i \in DOMAIN sh[s] :
           sh[s][i] \in DOMAIN full /\ i \in 1..sh[s][i]
  BY DEF LInv, EachInOneSession
<1>6. ASSUME NEW t \in DOMAIN full
      PROVE  Cardinality({p \in (DOMAIN sh) \X (1..n) :
                            p[2] \in DOMAIN sh[p[1]] /\ sh[p[1]][p[2]] = t}) = 1
  <2> DEFINE At == {p \in (DOMAIN sh) \X (1..n) :
                      p[2] \in DOMAIN sh[p[1]] /\ sh[p[1]][p[2]] = t}
  <2>1. PICK s \in DOMAIN sh : \E i \in DOMAIN sh[s] : sh[s][i] = t
    BY <1>5
  <2>2. PICK i \in DOMAIN sh[s] : sh[s][i] = t
    BY <2>1
  <2>3. i \in 1..n
    <3>1. i \in 1..t /\ t \in 1..n
      BY <1>4, <1>5, <2>2
    <3> QED
      BY <1>4, <3>1
  <2>4. <<s, i>> \in At
    BY <2>2, <2>3
  <2>5. ASSUME NEW p \in At PROVE p = <<s, i>>
    <3>1. p = <<p[1], p[2]>> /\ p[1] \in DOMAIN sh /\ p[2] \in DOMAIN sh[p[1]] /\ sh[p[1]][p[2]] = t
      OBVIOUS
    <3>2. p[1] = s /\ p[2] = i
      BY <1>5, <2>2, <3>1
    <3> QED
      BY <3>1, <3>2
  <2>6. At = {<<s, i>>}
    <3> HIDE DEF At
    <3> QED
      BY <2>4, <2>5
  <2>7. Cardinality({<<s, i>>}) = 1
    BY FS_Singleton
  <2> QED
    BY <2>6, <2>7
<1> QED
  BY <1>3, <1>6 DEF SessionsAreFiles, SessionFiles

(***************************************************************************)
(* The assembly loses, repeats and mixes up nothing: once every file is    *)
(* read the sessions are the files without the initial transaction's, and  *)
(* every transaction of full_history is in one of them, once.              *)
(***************************************************************************)
THEOREM SessionsTheorem == MSpec => [](InitialAlone(logs) => SessionsAreFiles)
<1>1. MLInv => (InitialAlone(logs) => SessionsAreFiles)
  BY LInvSessionsAreFiles DEF MLInv, SessionsAreFiles
<1> QED
  BY <1>1, MLInvariant, PTL

-----------------------------------------------------------------------------
(* Snapshot isolation does not depend on the numbering. *)

\* g is h with transaction pi[t] numbered t; of empty sessions nothing is said.
Renumbers(h, g, pi) ==
  /\ Ids(h) = 1..NTxns /\ Ids(g) = 1..NTxns
  /\ pi \in [1..NTxns -> 1..NTxns]
  /\ \A t, u \in 1..NTxns : pi[t] = pi[u] => t = u
  /\ \A u \in 1..NTxns : \E t \in 1..NTxns : pi[t] = u
  /\ \A t \in 1..NTxns : g.txns[t] = h.txns[pi[t]]
  /\ \A s \in g.sessions : \A i \in DOMAIN s :
       s[i] \in 1..NTxns
         /\ \E r \in h.sessions : DOMAIN r = DOMAIN s /\ \A j \in DOMAIN s : r[j] = pi[s[j]]
  /\ h.hasInit = g.hasInit
  /\ h.hasInit => h.init = g.init

LEMMA RenumberedFacts ==
  ASSUME NEW h, NEW g, NEW pi, Renumbers(h, g, pi)
  PROVE  /\ Ids(h) = 1..NTxns /\ Ids(g) = 1..NTxns
         /\ \A t \in 1..NTxns : pi[t] \in 1..NTxns /\ g.txns[t] = h.txns[pi[t]]
         /\ \A t, u \in 1..NTxns : pi[t] = pi[u] => t = u
         /\ \A u \in 1..NTxns : \E t \in 1..NTxns : pi[t] = u /\ g.txns[t] = h.txns[u]
<1>1. \A t \in 1..NTxns : pi[t] \in 1..NTxns
  BY DEF Renumbers
<1>2. ASSUME NEW u \in 1..NTxns
      PROVE  \E t \in 1..NTxns : pi[t] = u /\ g.txns[t] = h.txns[u]
  <2>1. PICK t \in 1..NTxns : pi[t] = u
    BY DEF Renumbers
  <2>2. g.txns[t] = h.txns[pi[t]]
    BY DEF Renumbers
  <2> QED
    BY <2>1, <2>2
<1> QED
  BY <1>1, <1>2 DEF Renumbers

LEMMA RenumberedRegular ==
  ASSUME NEW h, NEW g, NEW pi, Renumbers(h, g, pi), Regular(h)
  PROVE  Regular(g)
<1> PICK n : n = 1..NTxns
  OBVIOUS
<1>0. /\ Ids(h) = n /\ Ids(g) = n
      /\ \A t \in n : pi[t] \in n /\ g.txns[t] = h.txns[pi[t]]
      /\ \A t, u \in n : pi[t] = pi[u] => t = u
  BY RenumberedFacts
<1>1. /\ \A t \in Ids(g) : pi[t] \in Ids(h) /\ g.txns[t] = h.txns[pi[t]]
      /\ \A t, u \in Ids(g) : pi[t] = pi[u] => t = u
  BY <1>0
<1>2. h.hasInit = g.hasInit /\ (h.hasInit => h.init = g.init)
  BY DEF Renumbers
<1>3. UniqueWrites(g)
  BY <1>1 DEF Regular, UniqueWrites
<1>4. NoInitialWrites(g)
  BY <1>1, <1>2 DEF Regular, NoInitialWrites
<1>5. DeletionsSucceed(g)
  BY <1>1 DEF Regular, DeletionsSucceed
<1>6. InsertsUnobserved(g)
  BY <1>1 DEF Regular, InsertsUnobserved
<1>7. MissedUpsertsCount(g)
  BY <1>1 DEF Regular, MissedUpsertsCount
<1> QED
  BY <1>3, <1>4, <1>5, <1>6, <1>7 DEF Regular

\* The times of h, as those of g.
RenumberedTimes(tm, pi) ==
  [commit |-> [t \in 1..NTxns |-> tm.commit[pi[t]]],
   begin |-> [t \in 1..NTxns |-> tm.begin[pi[t]]]]

LEMMA RenumberedTimings ==
  ASSUME NEW h, NEW g, NEW pi, Renumbers(h, g, pi), NEW tm \in Timings(NTxns),
         NEW gm, gm = RenumberedTimes(tm, pi)
  PROVE  /\ gm \in Timings(NTxns)
         /\ \A t \in 1..NTxns : gm.commit[t] = tm.commit[pi[t]] /\ gm.begin[t] = tm.begin[pi[t]]
<1>1. /\ pi \in [1..NTxns -> 1..NTxns]
      /\ \A t, u \in 1..NTxns : pi[t] = pi[u] => t = u
  BY DEF Renumbers
<1>2. /\ tm.commit \in [1..NTxns -> 1..NTxns] /\ tm.begin \in [1..NTxns -> 0..NTxns-1]
      /\ \A t \in 1..NTxns : tm.begin[t] < tm.commit[t]
      /\ \A t, u \in 1..NTxns : t # u => tm.commit[t] # tm.commit[u]
  BY DEF Timings, CommitOrders
<1> DEFINE c == [t \in 1..NTxns |-> tm.commit[pi[t]]]
           b == [t \in 1..NTxns |-> tm.begin[pi[t]]]
<1>3. gm = [commit |-> c, begin |-> b]
  BY DEF RenumberedTimes
<1>4. c \in [1..NTxns -> 1..NTxns] /\ b \in [1..NTxns -> 0..NTxns-1]
  BY <1>1, <1>2
<1>5. \A t \in 1..NTxns : c[t] = tm.commit[pi[t]] /\ b[t] = tm.begin[pi[t]] /\ pi[t] \in 1..NTxns
  BY <1>1
<1> HIDE DEF c, b
<1>6. ASSUME NEW t \in 1..NTxns, NEW u \in 1..NTxns, t # u PROVE c[t] # c[u]
  <2>1. pi[t] \in 1..NTxns /\ pi[u] \in 1..NTxns /\ pi[t] # pi[u]
    BY <1>1, <1>5, <1>6
  <2>2. tm.commit[pi[t]] # tm.commit[pi[u]]
    BY <1>2, <2>1
  <2> QED
    BY <1>5, <2>2
<1>7. \A t \in 1..NTxns : b[t] < c[t]
  BY <1>2, <1>5
<1>8. gm.commit = c /\ gm.begin = b
  BY <1>3
<1>9. c \in CommitOrders(NTxns)
  BY <1>4, <1>6 DEF CommitOrders
<1>10. gm \in [commit : CommitOrders(NTxns), begin : [1..NTxns -> 0..NTxns-1]]
  BY <1>3, <1>4, <1>9
<1> QED
  BY <1>5, <1>7, <1>8, <1>10 DEF Timings

\* The snapshots have the same versions.
LEMMA RenumberedSnapshot ==
  ASSUME NEW h, NEW g, NEW pi, Renumbers(h, g, pi), NEW tm \in Timings(NTxns),
         NEW gm, gm = RenumberedTimes(tm, pi), NEW t \in 1..NTxns, NEW key
  PROVE  \/ SnapshotWriter(g, gm, t, key) = 0 /\ SnapshotWriter(h, tm, pi[t], key) = 0
         \/ /\ SnapshotWriter(g, gm, t, key) \in 1..NTxns
            /\ SnapshotWriter(h, tm, pi[t], key) = pi[SnapshotWriter(g, gm, t, key)]
<1> PICK G, H : G = Visible(g, gm, t, key) /\ H = Visible(h, tm, pi[t], key)
  OBVIOUS
<1>1. /\ gm \in Timings(NTxns)
      /\ \A u \in 1..NTxns : gm.commit[u] = tm.commit[pi[u]] /\ gm.begin[u] = tm.begin[pi[u]]
  BY RenumberedTimings
<1>2. /\ Ids(h) = 1..NTxns /\ Ids(g) = 1..NTxns
      /\ \A u \in 1..NTxns : pi[u] \in 1..NTxns /\ g.txns[u] = h.txns[pi[u]]
      /\ \A u \in 1..NTxns : \E w \in 1..NTxns : pi[w] = u
  BY RenumberedFacts
<1>3. \A u \in 1..NTxns : u \in G <=> pi[u] \in H
  BY <1>1, <1>2 DEF Visible
<1>4. G \subseteq 1..NTxns /\ H \subseteq 1..NTxns
  BY <1>2 DEF Visible
<1>5. CASE H = {}
  <2>1. G = {}
    BY <1>3, <1>4, <1>5
  <2> QED
    BY <1>5, <2>1 DEF SnapshotWriter
<1>6. CASE H # {}
  <2> DEFINE C == {tm.commit[w] : w \in H}
  <2>1. \A w \in 1..NTxns : tm.commit[w] \in 1..NTxns
    BY DEF Timings, CommitOrders
  <2>2. C \in SUBSET (0..NTxns) /\ C # {}
    BY <1>4, <1>6, <2>1, NTxnsAssumption
  <2>3. PICK c \in C : \A d \in C : d <= c
    BY <2>2, NTxnsAssumption, GreatestNat
  <2>4. PICK x \in H : c = tm.commit[x]
    BY <2>3
  <2>5. \A w \in H : tm.commit[w] <= tm.commit[x]
    BY <2>3, <2>4
  <2> HIDE DEF C
  <2>6. SnapshotWriter(h, tm, pi[t], key) = x
    BY <1>2, <2>4, <2>5, SnapshotIs
  <2>7. PICK u \in 1..NTxns : pi[u] = x
    BY <1>2, <1>4, <2>4
  <2>8. u \in G
    BY <1>3, <2>4, <2>7
  <2>9. \A w \in G : gm.commit[w] <= gm.commit[u]
    BY <1>1, <1>3, <1>4, <2>5, <2>7
  <2>10. SnapshotWriter(g, gm, t, key) = u
    <3>1. u \in Visible(g, gm, t, key)
      BY <2>8
    <3>2. \A w \in Visible(g, gm, t, key) : gm.commit[w] <= gm.commit[u]
      BY <2>9
    <3>3. Ids(g) = 1..NTxns /\ gm \in Timings(NTxns)
      BY <1>1, <1>2
    <3> QED
      BY ONLY <3>1, <3>2, <3>3, SnapshotIs
  <2> QED
    BY <2>6, <2>7, <2>10
<1> QED
  BY <1>5, <1>6

\* Each observation is explained as before.
LEMMA RenumberedValue ==
  ASSUME NEW h, NEW g, NEW pi, Renumbers(h, g, pi), NEW tm \in Timings(NTxns),
         NEW gm, gm = RenumberedTimes(tm, pi), NEW t \in 1..NTxns, NEW init, NEW j, NEW key
  PROVE  /\ \A val : HasValue(h, tm, init, pi[t], j, key, val)
                       => HasValue(g, gm, init, t, j, key, val)
         /\ Absent(h, tm, init, pi[t], j, key) => Absent(g, gm, init, t, j, key)
<1> PICK u, w : u = SnapshotWriter(g, gm, t, key) /\ w = SnapshotWriter(h, tm, pi[t], key)
  OBVIOUS
<1>1. (u = 0 /\ w = 0) \/ (u \in 1..NTxns /\ w = pi[u])
  BY RenumberedSnapshot
<1>2. /\ \A x \in 1..NTxns : pi[x] \in 1..NTxns /\ g.txns[x] = h.txns[pi[x]]
  BY RenumberedFacts
<1>3. CASE u = 0 /\ w = 0
  BY <1>2, <1>3 DEF HasValue, Absent
<1>4. CASE u \in 1..NTxns /\ w = pi[u]
  <2>1. u # 0 /\ w # 0 /\ g.txns[u] = h.txns[w]
    BY <1>2, <1>4
  <2> QED
    BY <1>2, <2>1 DEF HasValue, Absent
<1> QED
  BY <1>1, <1>3, <1>4

LEMMA RenumberedExplains ==
  ASSUME NEW h, NEW g, NEW pi, Renumbers(h, g, pi), NEW tm \in Timings(NTxns),
         NEW gm, gm = RenumberedTimes(tm, pi), NEW init, NEW strong,
         Explains(h, tm, init, strong)
  PROVE  Explains(g, gm, init, strong)
<1>1. /\ \A u \in 1..NTxns : gm.commit[u] = tm.commit[pi[u]] /\ gm.begin[u] = tm.begin[pi[u]]
  BY RenumberedTimings
<1>2. /\ Ids(h) = 1..NTxns /\ Ids(g) = 1..NTxns
      /\ \A u \in 1..NTxns : pi[u] \in 1..NTxns /\ g.txns[u] = h.txns[pi[u]]
      /\ \A t, u \in 1..NTxns : pi[t] = pi[u] => t = u
      /\ \A u \in 1..NTxns : \E t \in 1..NTxns : pi[t] = u /\ g.txns[t] = h.txns[u]
  BY RenumberedFacts
<1>3. NoConflict(g, gm)
  <2> SUFFICES ASSUME NEW t \in 1..NTxns, NEW u \in 1..NTxns, t # u,
                      WrittenKeys(g.txns[t]) \cap WrittenKeys(g.txns[u]) # {}
               PROVE  gm.commit[t] <= gm.begin[u] \/ gm.commit[u] <= gm.begin[t]
    BY <1>2 DEF NoConflict
  <2>1. /\ pi[t] \in Ids(h) /\ pi[u] \in Ids(h) /\ pi[t] # pi[u]
        /\ WrittenKeys(h.txns[pi[t]]) \cap WrittenKeys(h.txns[pi[u]]) # {}
    BY <1>2
  <2>2. tm.commit[pi[t]] <= tm.begin[pi[u]] \/ tm.commit[pi[u]] <= tm.begin[pi[t]]
    BY <2>1 DEF Explains, NoConflict
  <2> QED
    BY <1>1, <2>2
<1>4. strong => SessionsOrdered(g, gm)
  <2> SUFFICES ASSUME strong, NEW s \in g.sessions, NEW i \in DOMAIN s, NEW j \in DOMAIN s, i < j
               PROVE  gm.commit[s[i]] <= gm.begin[s[j]]
    BY DEF SessionsOrdered
  <2>1. PICK r \in h.sessions : DOMAIN r = DOMAIN s /\ \A l \in DOMAIN s : r[l] = pi[s[l]]
    BY DEF Renumbers
  <2>2. s[i] \in 1..NTxns /\ s[j] \in 1..NTxns
    BY DEF Renumbers
  <2>3. tm.commit[r[i]] <= tm.begin[r[j]]
    BY <2>1 DEF Explains, SessionsOrdered
  <2> QED
    BY <1>1, <2>1, <2>2, <2>3
<1>5. ASSUME NEW t \in 1..NTxns, NEW j \in DOMAIN g.txns[t]
      PROVE  /\ \A p \in Observed(g.txns[t][j]) : HasValue(g, gm, init, t, j, p[1], p[2])
             /\ g.txns[t][j].f = "range" => SeesAllKeys(g, gm, init, t, j)
  <2>1. pi[t] \in Ids(h) /\ h.txns[pi[t]] = g.txns[t]
    BY <1>2
  <2>2. \A p \in Observed(g.txns[t][j]) : HasValue(g, gm, init, t, j, p[1], p[2])
    <3> TAKE p \in Observed(g.txns[t][j])
    <3>1. HasValue(h, tm, init, pi[t], j, p[1], p[2])
      BY <2>1 DEF Explains
    <3> QED
      BY <3>1, RenumberedValue
  <2>3. ASSUME g.txns[t][j].f = "range" PROVE SeesAllKeys(g, gm, init, t, j)
    <3> PICK m : m = g.txns[t][j]
      OBVIOUS
    <3>1. SeesAllKeys(h, tm, init, pi[t], j) /\ h.txns[pi[t]][j] = m
      BY <2>1, <2>3 DEF Explains
    <3> SUFFICES ASSUME NEW key \in (UNION {WrittenKeys(g.txns[u]) : u \in Ids(g)}) \cup DOMAIN init,
                        in_between(key, m.k1, m.k2), key \notin KeysOf(RangeItems(m))
                 PROVE  Absent(g, gm, init, t, j, key)
      BY DEF SeesAllKeys
    <3>2. key \in (UNION {WrittenKeys(h.txns[u]) : u \in Ids(h)}) \cup DOMAIN init
      <4>1. CASE key \in UNION {WrittenKeys(g.txns[u]) : u \in Ids(g)}
        <5>1. PICK u \in 1..NTxns : key \in WrittenKeys(g.txns[u])
          BY <1>2, <4>1
        <5>2. pi[u] \in Ids(h) /\ key \in WrittenKeys(h.txns[pi[u]])
          BY <1>2, <5>1
        <5> QED
          BY <5>2
      <4> QED
        BY <4>1
    <3>3. Absent(h, tm, init, pi[t], j, key)
      BY <3>1, <3>2 DEF SeesAllKeys
    <3> QED
      BY <3>3, RenumberedValue
  <2> QED
    BY <2>2, <2>3
<1> QED
  BY <1>2, <1>3, <1>4, <1>5 DEF Explains

\* The same values were observed and written.
LEMMA RenumberedObserved ==
  ASSUME NEW h, NEW g, NEW pi, Renumbers(h, g, pi)
  PROVE  /\ AllObserved(g) = AllObserved(h)
         /\ \A key, val : SomeoneWrote(g, key, val) <=> SomeoneWrote(h, key, val)
<1> PICK n : n = 1..NTxns
  OBVIOUS
<1>1. /\ Ids(h) = n /\ Ids(g) = n
      /\ \A t \in n : pi[t] \in n /\ g.txns[t] = h.txns[pi[t]]
      /\ \A u \in n : \E t \in n : pi[t] = u /\ g.txns[t] = h.txns[u]
  BY RenumberedFacts
<1>2. \A x, y, p : p \in AllObserved(x) <=>
        \E t \in Ids(x) : \E j \in DOMAIN x.txns[t] : p \in Observed(x.txns[t][j])
  BY DEF AllObserved
<1>3. ASSUME NEW p \in AllObserved(g) PROVE p \in AllObserved(h)
  <2>1. PICK t \in n : \E j \in DOMAIN g.txns[t] : p \in Observed(g.txns[t][j])
    BY <1>1, <1>2, <1>3
  <2>2. pi[t] \in Ids(h) /\ \E j \in DOMAIN h.txns[pi[t]] : p \in Observed(h.txns[pi[t]][j])
    BY <1>1, <2>1
  <2> QED
    BY <1>2, <2>2
<1>4. ASSUME NEW p \in AllObserved(h) PROVE p \in AllObserved(g)
  <2>1. PICK u \in n : \E j \in DOMAIN h.txns[u] : p \in Observed(h.txns[u][j])
    BY <1>1, <1>2, <1>4
  <2>2. PICK t \in n : g.txns[t] = h.txns[u]
    BY <1>1
  <2>3. t \in Ids(g) /\ \E j \in DOMAIN g.txns[t] : p \in Observed(g.txns[t][j])
    BY <1>1, <2>1, <2>2
  <2> QED
    BY <1>2, <2>3
<1>5. ASSUME NEW key, NEW val PROVE SomeoneWrote(g, key, val) <=> SomeoneWrote(h, key, val)
  <2> DEFINE W(txn) == \E j \in DOMAIN txn : IsWrite(txn[j]) /\ txn[j].k = key /\ txn[j].v = val
  <2>1. /\ SomeoneWrote(g, key, val) <=> \E t \in n : W(g.txns[t])
        /\ SomeoneWrote(h, key, val) <=> \E t \in n : W(h.txns[t])
    BY <1>1 DEF SomeoneWrote
  <2> HIDE DEF W
  <2>2. ASSUME NEW t \in n, W(g.txns[t]) PROVE \E u \in n : W(h.txns[u])
    BY <1>1, <2>2
  <2>3. ASSUME NEW u \in n, W(h.txns[u]) PROVE \E t \in n : W(g.txns[t])
    BY <1>1, <2>3
  <2> QED
    BY <2>1, <2>2, <2>3
<1> QED
  BY <1>3, <1>4, <1>5

LEMMA RenumberedSI ==
  ASSUME NEW h, NEW g, NEW pi, Renumbers(h, g, pi), NEW strong, IsSI(h, strong)
  PROVE  IsSI(g, strong)
<1>1. Ids(h) = 1..NTxns /\ Ids(g) = 1..NTxns
  BY RenumberedFacts
<1>2. Cardinality(Ids(h)) = NTxns /\ Cardinality(Ids(g)) = NTxns
  BY <1>1, IntervalSize, NTxnsAssumption
<1>3. PICK init \in InitialStates(h), tm \in Timings(NTxns) : Explains(h, tm, init, strong)
  BY <1>2 DEF IsSI
<1> PICK gm : gm = RenumberedTimes(tm, pi)
  OBVIOUS
<1>4. gm \in Timings(NTxns)
  BY RenumberedTimings
<1>5. Explains(g, gm, init, strong)
  BY <1>3, RenumberedExplains
<1>6. init \in InitialStates(g)
  <2>1. h.hasInit = g.hasInit /\ (h.hasInit => h.init = g.init)
    BY DEF Renumbers
  <2>2. CASE h.hasInit
    BY <1>3, <2>1, <2>2 DEF InitialStates
  <2>3. CASE ~h.hasInit
    <3> DEFINE A == AllObserved(h)
               I(A0, x) == {i \in UNION {[S -> {p[2] : p \in A0}] : S \in SUBSET KeysOf(A0)} :
                            \A key \in DOMAIN i :
                              <<key, i[key]>> \in A0 /\ ~SomeoneWrote(x, key, i[key])}
    <3>1. AllObserved(g) = A /\ \A key, val : SomeoneWrote(g, key, val) <=> SomeoneWrote(h, key, val)
      BY RenumberedObserved
    <3>2. InitialStates(h) = I(A, h) /\ InitialStates(g) = I(AllObserved(g), g)
      BY <2>1, <2>3 DEF InitialStates
    <3>3. I(A, h) = I(A, g)
      BY <3>1
    <3> QED
      BY <1>3, <3>1, <3>2, <3>3
  <2> QED
    BY <2>2, <2>3
<1> QED
  BY <1>2, <1>4, <1>5, <1>6 DEF IsSI

-----------------------------------------------------------------------------
(* Two histories of one directory differ in the numbering only. *)

\* a gives the transactions of the session s the positions of the file f.
IsPlaced(a, s, f) ==
  /\ DOMAIN s = DOMAIN logs[f]
  /\ \A i \in DOMAIN s : s[i] \in DOMAIN a /\ a[s[i]] = <<f, i>>

\* h has the transactions of the directory, with a[t] the position of t in it.
Lists(h, a) ==
  /\ Ids(h) = 1..NTxns
  /\ DOMAIN a = 1..NTxns
  /\ \A t \in 1..NTxns : /\ a[t] \in Positions(logs)
                         /\ h.txns[t] = logs[a[t][1]][a[t][2]].value
  /\ \A t, u \in 1..NTxns : a[t] = a[u] => t = u
  /\ \A p \in Positions(logs) : \E t \in 1..NTxns : a[t] = p
  /\ \A s \in h.sessions : DOMAIN s # {} => \E f : IsPlaced(a, s, f)
  /\ \A p \in Positions(logs) : \E s \in h.sessions : IsPlaced(a, s, p[1])

LEMMA ListsRenumber ==
  ASSUME NEW h, NEW g, NEW a, NEW b, Lists(h, a), Lists(g, b),
         h.hasInit = g.hasInit, h.hasInit => h.init = g.init
  PROVE  \E pi : Renumbers(h, g, pi)
<1> DEFINE n == 1..NTxns
           pi == [t \in n |-> CHOOSE u \in n : a[u] = b[t]]
<1> PICK P : P = Positions(logs)
  OBVIOUS
<1>a. /\ Ids(h) = n /\ DOMAIN a = n
      /\ \A t \in n : a[t] \in P /\ h.txns[t] = logs[a[t][1]][a[t][2]].value
      /\ \A t, u \in n : a[t] = a[u] => t = u
      /\ \A p \in P : \E t \in n : a[t] = p
  BY DEF Lists
<1>b. /\ Ids(g) = n /\ DOMAIN b = n
      /\ \A t \in n : b[t] \in P /\ g.txns[t] = logs[b[t][1]][b[t][2]].value
      /\ \A t, u \in n : b[t] = b[u] => t = u
      /\ \A p \in P : \E t \in n : b[t] = p
  BY DEF Lists
<1>c. /\ \A p \in P : \E s \in h.sessions : IsPlaced(a, s, p[1])
      /\ \A s \in g.sessions : DOMAIN s # {} => \E f : IsPlaced(b, s, f)
  BY DEF Lists
<1> HIDE DEF n
<1>1. ASSUME NEW t \in n PROVE pi[t] \in n /\ a[pi[t]] = b[t]
  BY <1>a, <1>b
<1>2. pi \in [n -> n]
  BY <1>1
<1> HIDE DEF pi
<1>3. \A t, u \in n : pi[t] = pi[u] => t = u
  BY <1>1, <1>b
<1>4. ASSUME NEW u \in n PROVE \E t \in n : pi[t] = u
  <2>1. PICK t \in n : b[t] = a[u]
    BY <1>a, <1>b
  <2>2. a[pi[t]] = a[u] /\ pi[t] \in n
    BY <1>1, <2>1
  <2> QED
    BY <1>a, <2>2
<1>5. \A t \in n : g.txns[t] = h.txns[pi[t]]
  BY <1>1, <1>a, <1>b
<1>6. ASSUME NEW s \in g.sessions, NEW i \in DOMAIN s
      PROVE  /\ s[i] \in n
             /\ \E r \in h.sessions : DOMAIN r = DOMAIN s /\ \A j \in DOMAIN s : r[j] = pi[s[j]]
  <2>1. PICK f : IsPlaced(b, s, f)
    BY <1>c
  <2>2. DOMAIN s = DOMAIN logs[f] /\ \A j \in DOMAIN s : s[j] \in n /\ b[s[j]] = <<f, j>>
    BY <1>b, <2>1 DEF IsPlaced
  <2>3. <<f, i>> \in P
    BY <1>b, <2>2
  <2>4. PICK r \in h.sessions : IsPlaced(a, r, f)
    <3>1. PICK p \in P : p = <<f, i>>
      BY <2>3
    <3>2. p[1] = f
      BY <3>1
    <3> QED
      BY <1>c, <3>2
  <2>5. DOMAIN r = DOMAIN logs[f] /\ \A j \in DOMAIN r : r[j] \in n /\ a[r[j]] = <<f, j>>
    BY <1>a, <2>4 DEF IsPlaced
  <2>6. ASSUME NEW j \in DOMAIN s PROVE r[j] = pi[s[j]]
    <3>1. s[j] \in n /\ b[s[j]] = <<f, j>> /\ r[j] \in n /\ a[r[j]] = <<f, j>>
      BY <2>2, <2>5
    <3>2. pi[s[j]] \in n /\ a[pi[s[j]]] = b[s[j]]
      BY <1>1, <3>1
    <3> QED
      BY <1>a, <3>1, <3>2
  <2>7. DOMAIN r = DOMAIN s
    BY <2>2, <2>5
  <2> QED
    BY <2>2, <2>6, <2>7
<1>7. Renumbers(h, g, pi)
  BY <1>2, <1>3, <1>4, <1>5, <1>6, <1>a, <1>b DEF Renumbers, n
<1> QED
  BY <1>7

-----------------------------------------------------------------------------
(* The history that a directory logs. *)

LEMMA SetToSeqFacts ==
  ASSUME NEW S, IsFiniteSet(S), NEW n \in Nat, Cardinality(S) = n, NEW a, a = SetToSeq(S)
  PROVE  /\ a \in [1..n -> S]
         /\ \A t, u \in 1..n : a[t] = a[u] => t = u
         /\ \A p \in S : \E t \in 1..n : a[t] = p
<1>1. \E f \in [1..n -> S] : IsInjective(f)
  <2>1. ExistsBijection(1..n, S)
    BY FS_CardinalityType
  <2> QED
    BY <2>1 DEF ExistsBijection, Bijection, Injection
<1>2. a \in [1..n -> S] /\ IsInjective(a)
  BY <1>1 DEF SetToSeq
<1>3. a \in Injection(1..n, S)
  BY <1>2 DEF Injection
<1>4. IsFiniteSet(1..n) /\ Cardinality(1..n) = Cardinality(S)
  BY FS_Interval, IntervalSize
<1>5. a \in Surjection(1..n, S)
  BY <1>3, <1>4, FS_Injection
<1> QED
  BY <1>2, <1>5 DEF IsInjective, Surjection

LEMMA PositionFacts ==
  ASSUME LogDirectory(logs)
  PROVE  /\ \A p \in Positions(logs) :
              /\ p = <<p[1], p[2]>> /\ p[1] \in SessionFiles /\ p[2] \in DOMAIN logs[p[1]]
         /\ \A f \in SessionFiles : \A i \in DOMAIN logs[f] :
              <<f, i>> \in Positions(logs) /\ ~logs[f][i].initial
         /\ \A f \in SessionFiles : /\ Len(logs[f]) \in Nat /\ DOMAIN logs[f] = 1..Len(logs[f])
                                    /\ f \in DOMAIN logs
<1>1. /\ \A f \in DOMAIN logs :
           /\ Len(logs[f]) \in Nat /\ DOMAIN logs[f] = 1..Len(logs[f])
           /\ is_initial_history(logs[f]) \/ \A i \in DOMAIN logs[f] : ~logs[f][i].initial
      /\ \A f \in DOMAIN logs : Len(logs[f]) <= NTxns \/ is_initial_history(logs[f])
  BY DEF LogDirectory, InitialAlone
<1>2. ASSUME NEW p \in Positions(logs)
      PROVE  p = <<p[1], p[2]>> /\ p[1] \in SessionFiles /\ p[2] \in DOMAIN logs[p[1]]
  <2>1. /\ p = <<p[1], p[2]>> /\ p[1] \in DOMAIN logs /\ p[2] \in DOMAIN logs[p[1]]
        /\ ~logs[p[1]][p[2]].initial
    BY <1>2 DEF Positions
  <2>2. ~is_initial_history(logs[p[1]])
    <3> SUFFICES ASSUME Len(logs[p[1]]) = 1, logs[p[1]][1].initial PROVE FALSE
      BY DEF is_initial_history
    <3>1. p[2] = 1
      BY <1>1, <2>1
    <3> QED
      BY <2>1, <3>1
  <2> QED
    BY <2>1, <2>2 DEF SessionFiles
<1>3. ASSUME NEW f \in SessionFiles
      PROVE  /\ f \in DOMAIN logs /\ ~is_initial_history(logs[f])
             /\ Len(logs[f]) \in Nat /\ DOMAIN logs[f] = 1..Len(logs[f])
             /\ Len(logs[f]) <= NTxns /\ \A i \in DOMAIN logs[f] : ~logs[f][i].initial
  BY <1>1, <1>3 DEF SessionFiles
<1>4. ASSUME NEW f \in SessionFiles, NEW i \in DOMAIN logs[f] PROVE <<f, i>> \in Positions(logs)
  <2>1. i \in 1..NTxns
    BY <1>3, NTxnsAssumption
  <2> QED
    BY <1>3, <2>1 DEF Positions
<1> QED
  BY <1>2, <1>3, <1>4

\* A history of the directory is as the builders expect it.
LEMMA ListsWellFormed ==
  ASSUME LogDirectory(logs), NEW h, NEW a, Lists(h, a),
         \A s \in h.sessions : s \in Seq(1..NTxns)
  PROVE  WellFormed(h)
<1>1. /\ Ids(h) = 1..NTxns
      /\ \A t \in 1..NTxns : /\ a[t] \in Positions(logs)
                             /\ h.txns[t] = logs[a[t][1]][a[t][2]].value
      /\ \A s \in h.sessions : DOMAIN s # {} => \E f : IsPlaced(a, s, f)
  BY DEF Lists
<1>2. ASSUME NEW t \in 1..NTxns
      PROVE  \E f \in DOMAIN logs : \E i \in DOMAIN logs[f] : h.txns[t] = logs[f][i].value
  <2>1. a[t][1] \in SessionFiles /\ a[t][2] \in DOMAIN logs[a[t][1]]
    BY <1>1, PositionFacts
  <2>2. a[t][1] \in DOMAIN logs
    BY <2>1 DEF SessionFiles
  <2> QED
    BY <1>1, <2>1, <2>2
<1>3. ASSUME NEW f \in DOMAIN logs, NEW i \in DOMAIN logs[f], NEW value, value = logs[f][i].value
      PROVE  /\ Len(value) \in Nat /\ DOMAIN value = 1..Len(value)
             /\ \A j \in DOMAIN value : value[j].f = "range" =>
                  \A p, q \in RangeItems(value[j]) :
                    p = <<p[1], p[2]>> /\ (p[1] = q[1] => p[2] = q[2])
  BY <1>3 DEF LogDirectory
<1>4. ASSUME NEW t \in Ids(h)
      PROVE  /\ Len(h.txns[t]) \in Nat /\ DOMAIN h.txns[t] = 1..Len(h.txns[t])
             /\ \A j \in DOMAIN h.txns[t] : h.txns[t][j].f = "range" =>
                  \A p, q \in RangeItems(h.txns[t][j]) :
                    p = <<p[1], p[2]>> /\ (p[1] = q[1] => p[2] = q[2])
  <2>1. PICK value : value = h.txns[t]
    OBVIOUS
  <2>2. PICK f \in DOMAIN logs : \E i \in DOMAIN logs[f] : value = logs[f][i].value
    BY <1>1, <1>2, <1>4, <2>1
  <2>3. /\ Len(value) \in Nat /\ DOMAIN value = 1..Len(value)
        /\ \A j \in DOMAIN value : value[j].f = "range" =>
             \A p, q \in RangeItems(value[j]) :
               p = <<p[1], p[2]>> /\ (p[1] = q[1] => p[2] = q[2])
    BY <1>3, <2>2
  <2> QED
    BY <2>1, <2>3
<1>5. ASSUME NEW s \in h.sessions, NEW i \in 1..Len(s)-1 PROVE s[i] # s[i+1]
  <2>1. s \in Seq(1..NTxns) /\ Len(s) \in Nat /\ DOMAIN s = 1..Len(s)
    BY SeqIsFunction DEF IsSeq
  <2>2. i \in DOMAIN s /\ i + 1 \in DOMAIN s /\ i # i + 1
    BY <2>1
  <2>3. PICK f : IsPlaced(a, s, f)
    BY <1>1, <2>2
  <2>4. a[s[i]] = <<f, i>> /\ a[s[i+1]] = <<f, i+1>>
    BY <2>2, <2>3 DEF IsPlaced
  <2> QED
    BY <2>2, <2>4
<1> QED
  BY <1>1, <1>4, <1>5 DEF WellFormed

LEMMA LoggedLists ==
  ASSUME LogDirectory(logs)
  PROVE  WellFormed(LoggedHistory) /\ \E a : Lists(LoggedHistory, a)
<1> DEFINE a == SetToSeq(Positions(logs))
           number(p) == CHOOSE t \in DOMAIN a : a[t] = p
           P == Positions(logs)
           n == 1..NTxns
           S(f) == [i \in DOMAIN logs[f] |-> number(<<f, i>>)]
<1> PICK h : h = LoggedHistory
  OBVIOUS
<1>1. /\ h.txns = [t \in DOMAIN a |-> logs[a[t][1]][a[t][2]].value]
      /\ h.sessions = {S(f) : f \in {p[1] : p \in P}}
  BY DEF LoggedHistory
<1>2. IsFiniteSet(P) /\ Cardinality(P) = NTxns /\ NTxns \in Nat
  BY NTxnsAssumption DEF LogDirectory
<1>3. /\ a \in [n -> P]
      /\ \A t, u \in n : a[t] = a[u] => t = u
      /\ \A p \in P : \E t \in n : a[t] = p
  BY <1>2, SetToSeqFacts
<1>4. /\ \A p \in P : p = <<p[1], p[2]>> /\ p[1] \in SessionFiles /\ p[2] \in DOMAIN logs[p[1]]
      /\ \A f \in SessionFiles : \A i \in DOMAIN logs[f] : <<f, i>> \in P
      /\ \A f \in SessionFiles : Len(logs[f]) \in Nat /\ DOMAIN logs[f] = 1..Len(logs[f])
  BY PositionFacts
<1> HIDE DEF P, n, a
<1>5. DOMAIN a = n /\ Ids(h) = n /\ \A t \in n : a[t] \in P /\ h.txns[t] = logs[a[t][1]][a[t][2]].value
  BY <1>1, <1>3 DEF Ids
<1>6. \A p \in P : number(p) \in n /\ a[number(p)] = p
  BY <1>3, <1>5
<1> HIDE DEF number
<1>7. ASSUME NEW f \in SessionFiles
      PROVE  IsPlaced(a, S(f), f) /\ S(f) \in Seq(n)
  <2>1. \A i \in DOMAIN logs[f] : S(f)[i] \in n /\ a[S(f)[i]] = <<f, i>>
    BY <1>4, <1>6
  <2>2. DOMAIN S(f) = DOMAIN logs[f]
    OBVIOUS
  <2>3. IsPlaced(a, S(f), f)
    BY <1>5, <2>1, <2>2 DEF IsPlaced
  <2>4. S(f) \in [1..Len(logs[f]) -> n] /\ Len(logs[f]) \in Nat
    BY <1>4, <2>1
  <2>5. S(f) \in Seq(n)
    <3> PICK s, k : s = S(f) /\ k = Len(logs[f])
      OBVIOUS
    <3>1. k \in Nat /\ s \in [1..k -> n]
      BY <2>4
    <3>2. s \in UNION {[1..j -> n] : j \in Nat}
      BY ONLY <3>1
    <3> QED
      BY <3>2, SeqDef
  <2> QED
    BY <2>3, <2>5
<1> HIDE DEF S
<1>8. \A s \in h.sessions : s \in Seq(n) /\ \E f : IsPlaced(a, s, f)
  BY <1>1, <1>4, <1>7
<1>9. \A p \in P : \E s \in h.sessions : IsPlaced(a, s, p[1])
  BY <1>1, <1>4, <1>7
<1>10. Lists(h, a)
  BY <1>3, <1>5, <1>8, <1>9 DEF Lists, P, n
<1>11. WellFormed(h)
  BY <1>8, <1>10, ListsWellFormed DEF n
<1> QED
  BY <1>10, <1>11

-----------------------------------------------------------------------------
(* The assembly keeps track of the directory. *)

\* a[t] is the position of transaction t; the transactions and the sessions
\* are those of the files that were read.
PlacedBy(a) ==
  /\ DOMAIN a = DOMAIN full_history
  /\ \A t \in DOMAIN a : /\ a[t] \in Positions(logs) /\ a[t][1] \notin unread
                         /\ full_history[t].value = logs[a[t][1]][a[t][2]].value
  /\ \A t, u \in DOMAIN a : a[t] = a[u] => t = u
  /\ \A p \in Positions(logs) : p[1] \notin unread => \E t \in DOMAIN a : a[t] = p
  /\ \A k \in DOMAIN session_histories :
       IsSeq(session_histories[k]) /\ \E f \in SessionFiles : IsPlaced(a, session_histories[k], f)
  /\ \A f \in SessionFiles \ unread :
       \E k \in DOMAIN session_histories : IsPlaced(a, session_histories[k], f)

\* t0 is what the initial file says, if it was read.
InitialSoFar ==
  /\ \A w \in t0 : \E f \in DOMAIN logs \ unread :
       is_initial_history(logs[f]) /\ w = InitialWrites(logs[f][1].value)
  /\ \A f \in DOMAIN logs \ unread :
       is_initial_history(logs[f]) => t0 = {InitialWrites(logs[f][1].value)}

\* No file that was read raised an exception.
ParsedSoFar ==
  /\ \A f \in DOMAIN logs \ unread : ~FileAsserts(logs[f]) /\ ~FileRejected(logs[f])
  /\ lpc = "reject" => \E f \in DOMAIN logs : FileRejected(logs[f])

PInv == LInv /\ (\E a : PlacedBy(a)) /\ InitialSoFar /\ ParsedSoFar

LEMMA PlacedStart ==
  ASSUME NEW dir, LStart(dir)
  PROVE  PInv
<1> DEFINE e == << >>
<1>1. /\ full_history = e /\ session_histories = e /\ unread = DOMAIN logs
      /\ lpc = "load" /\ t0 = {}
  BY DEF LStart
<1>2. DOMAIN e = {}
  OBVIOUS
<1> HIDE DEF e
<1>3. PlacedBy(e)
  <2>1. \A p \in Positions(logs) : p[1] \in unread
    BY <1>1 DEF Positions
  <2>2. SessionFiles \ unread = {}
    BY <1>1 DEF SessionFiles
  <2> QED
    BY <1>1, <1>2, <2>1, <2>2 DEF PlacedBy
<1>4. InitialSoFar /\ ParsedSoFar
  BY <1>1 DEF InitialSoFar, ParsedSoFar
<1> QED
  BY <1>3, <1>4, LStartInv DEF PInv

LEMMA PlacedSession ==
  ASSUME LInv, LogDirectory(logs), NEW name \in unread, LoadSession(logs[name]),
         logs' = logs, unread' = unread \ {name}, NEW a, PlacedBy(a)
  PROVE  \E b : PlacedBy(b)'
<1> PICK file, n, len, sh, m, ids :
      /\ file = logs[name] /\ n = Len(file) /\ len = Len(full_history)
      /\ sh = session_histories /\ m = Len(session_histories)
      /\ ids = session_histories'[m + 1]
  OBVIOUS
<1> PICK P : P = Positions(logs)
  OBVIOUS
<1>a. AddsSession(name, file, n, len, sh, m)
  BY LoadSessionAdds DEF LogDirectory
<1>1. /\ name \in SessionFiles /\ n \in Nat /\ DOMAIN file = 1..n /\ len \in Nat /\ m \in Nat
      /\ DOMAIN full_history = 1..len /\ DOMAIN sh = 1..m
  BY <1>a DEF AddsSession, SessionFiles
<1>2. /\ DOMAIN full_history' = 1..len + n
      /\ \A i \in 1..len : full_history'[i] = full_history[i]
      /\ \A i \in 1..n : full_history'[len + i].value = file[i].value
  <2>1. /\ DOMAIN full_history' = 1..len + n
        /\ \A i \in 1..len : full_history'[i] = full_history[i]
        /\ \A i \in 1..n : full_history'[len + i] = [id |-> len + i, value |-> file[i].value]
    BY <1>a DEF AddsSession
  <2>2. ASSUME NEW i \in 1..n PROVE full_history'[len + i].value = file[i].value
    <3>1. full_history'[len + i] = [id |-> len + i, value |-> file[i].value]
      BY <2>1
    <3> QED
      BY <3>1
  <2> QED
    BY <2>1, <2>2
<1>3. /\ DOMAIN session_histories' = 1..m + 1
      /\ \A s \in 1..m : session_histories'[s] = sh[s]
      /\ session_histories'[m + 1] = ids /\ IsSeq(ids)
      /\ DOMAIN ids = 1..n /\ \A i \in 1..n : ids[i] = len + i
  BY <1>a DEF AddsSession
<1>4. /\ DOMAIN a = 1..len
      /\ \A t \in 1..len : /\ a[t] \in P /\ a[t][1] \notin unread
                           /\ full_history[t].value = logs[a[t][1]][a[t][2]].value
      /\ \A t, u \in 1..len : a[t] = a[u] => t = u
      /\ \A p \in P : p[1] \notin unread => \E t \in 1..len : a[t] = p
      /\ \A k \in 1..m : IsSeq(sh[k]) /\ \E f \in SessionFiles : IsPlaced(a, sh[k], f)
      /\ \A f \in SessionFiles \ unread : \E k \in 1..m : IsPlaced(a, sh[k], f)
  BY <1>1 DEF PlacedBy
<1>5. /\ \A p \in P : p = <<p[1], p[2]>> /\ p[1] \in SessionFiles /\ p[2] \in DOMAIN logs[p[1]]
      /\ \A i \in 1..n : <<name, i>> \in P
  BY <1>1, PositionFacts
<1> DEFINE b == [t \in 1..len + n |-> IF t \in 1..len THEN a[t] ELSE <<name, t - len>>]
<1>6. DOMAIN b = 1..len + n /\ \A t \in 1..len : t \in 1..len + n /\ b[t] = a[t]
  BY <1>1
<1>7. \A i \in 1..n : len + i \in 1..len + n /\ b[len + i] = <<name, i>>
  <2> TAKE i \in 1..n
  <2>1. len + i \in 1..len + n /\ len + i \notin 1..len /\ (len + i) - len = i
    BY <1>1
  <2> QED
    BY <2>1
<1>8. \A t \in 1..len + n : t \in 1..len \/ \E i \in 1..n : t = len + i
  <2> SUFFICES ASSUME NEW i \in 1..len + n, i \notin 1..len PROVE i - len \in 1..n /\ i = len + (i - len)
    OBVIOUS
  <2> QED
    BY <1>1
<1> HIDE DEF b
<1>9. ASSUME NEW t \in 1..len + n
      PROVE  /\ b[t] \in P /\ b[t][1] \notin unread \ {name}
             /\ full_history'[t].value = logs[b[t][1]][b[t][2]].value
             /\ t \in 1..len <=> b[t][1] # name
  <2>1. CASE t \in 1..len
    BY <1>2, <1>4, <1>6, <2>1
  <2>2. CASE \E i \in 1..n : t = len + i
    <3>1. PICK i \in 1..n : t = len + i
      BY <2>2
    <3>2. b[t] = <<name, i>> /\ t \notin 1..len
      BY <1>1, <1>7, <3>1
    <3>3. full_history'[t].value = file[i].value
      BY <1>2, <3>1
    <3> QED
      BY <1>5, <3>2, <3>3
  <2> QED
    BY <1>8, <2>1, <2>2
<1>10. ASSUME NEW t \in 1..len + n, NEW u \in 1..len + n, b[t] = b[u] PROVE t = u
  <2>1. t \in 1..len <=> u \in 1..len
    BY <1>9, <1>10
  <2>2. CASE t \in 1..len
    BY <1>4, <1>6, <1>10, <2>1, <2>2
  <2>3. CASE t \notin 1..len
    <3>1. PICK i \in 1..n : t = len + i
      BY <1>8, <2>3
    <3>2. PICK j \in 1..n : u = len + j
      BY <1>8, <2>1, <2>3
    <3>3. <<name, i>> = <<name, j>>
      BY <1>7, <1>10, <3>1, <3>2
    <3> QED
      BY <3>1, <3>2, <3>3
  <2> QED
    BY <2>2, <2>3
<1>11. ASSUME NEW p \in P, p[1] \notin unread \ {name} PROVE \E t \in 1..len + n : b[t] = p
  <2>1. CASE p[1] = name
    <3>1. p = <<name, p[2]>> /\ p[2] \in 1..n
      BY <1>1, <1>5, <2>1
    <3> QED
      BY <1>7, <3>1
  <2>2. CASE p[1] # name
    <3>1. PICK t \in 1..len : a[t] = p
      BY <1>4, <1>11, <2>2
    <3> QED
      BY <1>6, <3>1
  <2> QED
    BY <2>1, <2>2
<1>12. ASSUME NEW s, NEW f, IsPlaced(a, s, f) PROVE IsPlaced(b, s, f)
  BY <1>4, <1>6, <1>12 DEF IsPlaced
<1>13. IsPlaced(b, ids, name)
  BY <1>1, <1>3, <1>6, <1>7 DEF IsPlaced
<1>14. \A k \in 1..m + 1 : k \in 1..m \/ k = m + 1
  BY <1>1
<1>15. (\A k \in 1..m : k \in 1..m + 1) /\ m + 1 \in 1..m + 1
  BY <1>1
<1>16. ASSUME NEW k \in 1..m + 1
       PROVE  /\ IsSeq(session_histories'[k])
              /\ \E f \in SessionFiles : IsPlaced(b, session_histories'[k], f)
  <2>1. CASE k \in 1..m
    BY <1>3, <1>4, <1>12, <2>1
  <2>2. CASE k = m + 1
    BY <1>1, <1>3, <1>13, <2>2
  <2> QED
    BY <1>14, <2>1, <2>2
<1>17. ASSUME NEW f \in SessionFiles \ (unread \ {name})
       PROVE  \E k \in 1..m + 1 : IsPlaced(b, session_histories'[k], f)
  <2>1. CASE f = name
    BY <1>3, <1>13, <1>15, <2>1
  <2>2. CASE f # name
    <3>1. PICK k \in 1..m : IsPlaced(a, sh[k], f)
      BY <1>4, <2>2
    <3> QED
      BY <1>3, <1>12, <1>15, <3>1
  <2> QED
    BY <2>1, <2>2
<1>18. \A s, f : IsPlaced(b, s, f)' <=> IsPlaced(b, s, f)
  BY DEF IsPlaced
<1>19. SessionFiles' = SessionFiles /\ Positions(logs)' = P
  BY DEF SessionFiles
<1>20. PlacedBy(b)'
  BY ZenonT(30), <1>2, <1>3, <1>6, <1>9, <1>10, <1>11, <1>16, <1>17, <1>18, <1>19 DEF PlacedBy
<1> QED
  BY <1>20

LEMMA PlacedSame ==
  ASSUME NEW b, PlacedBy(b), UNCHANGED <<logs, full_history, session_histories>>,
         SessionFiles \ unread' = SessionFiles \ unread,
         \A p \in Positions(logs) : p[1] \in unread <=> p[1] \in unread'
  PROVE  PlacedBy(b)'
<1>1. SessionFiles' = SessionFiles /\ Positions(logs)' = Positions(logs)
  BY DEF SessionFiles
<1>2. \A s, f : IsPlaced(b, s, f)' <=> IsPlaced(b, s, f)
  BY DEF IsPlaced
<1> QED
  BY <1>1, <1>2 DEF PlacedBy

\* Reading any file, or stopping at one, keeps track.
LEMMA PlacedStep ==
  ASSUME PInv, LogDirectory(logs), LStep
  PROVE  PInv'
<1>0. LInv' /\ LInv /\ logs' = logs /\ unread \subseteq DOMAIN logs
  <2>1. LInv /\ InitialAlone(logs)
    BY DEF PInv, LogDirectory
  <2>2. logs' = logs
    BY DEF LStep, LoadFile, LoadReject, LoadCrash, LStop
  <2> QED
    BY <2>1, <2>2, LStepInv DEF LInv, SessionsSoFar
<1>1. PICK a : PlacedBy(a)
  BY DEF PInv
<1>2. ASSUME NEW b, PlacedBy(b), UNCHANGED <<full_history, session_histories>>,
             SessionFiles \ unread' = SessionFiles \ unread
      PROVE  PlacedBy(b)'
  <2>1. \A p \in Positions(logs) : p[1] \in SessionFiles
    BY PositionFacts
  <2>2. \A p \in Positions(logs) : p[1] \in unread <=> p[1] \in unread'
    BY <1>2, <2>1
  <2> QED
    BY <1>0, <1>2, <2>2, PlacedSame
<1>3. CASE LoadFile
  <2>1. PICK name \in unread : /\ ~FileAsserts(logs[name]) /\ ~FileRejected(logs[name])
                               /\ LoadInitial(logs[name]) \/ LoadSession(logs[name])
                               /\ unread' = unread \ {name}
    BY <1>3 DEF LoadFile
  <2>2. lpc' # "reject"
    BY <1>3 DEF LoadFile
  <2>3. \E b : PlacedBy(b)'
    <3>1. CASE LoadInitial(logs[name])
      <4>1. UNCHANGED <<full_history, session_histories>> /\ name \notin SessionFiles
        BY <3>1 DEF LoadInitial, SessionFiles
      <4>2. SessionFiles \ unread' = SessionFiles \ unread
        BY <2>1, <4>1
      <4> QED
        BY <1>1, <1>2, <4>1, <4>2
    <3>2. CASE LoadSession(logs[name])
      BY <1>0, <1>1, <2>1, <3>2, PlacedSession
    <3> QED
      BY <2>1, <3>1, <3>2
  <2>4. InitialSoFar'
    <3>1. /\ \A w \in t0 : \E f \in DOMAIN logs \ unread :
               is_initial_history(logs[f]) /\ w = InitialWrites(logs[f][1].value)
          /\ \A f \in DOMAIN logs \ unread :
               is_initial_history(logs[f]) => t0 = {InitialWrites(logs[f][1].value)}
      BY DEF PInv, InitialSoFar
    <3>2. CASE LoadInitial(logs[name])
      <4>1. is_initial_history(logs[name]) /\ t0' = {InitialWrites(logs[name][1].value)}
        BY <3>2 DEF LoadInitial
      <4>2. \A f \in DOMAIN logs : is_initial_history(logs[f]) => f = name
        BY <1>0, <4>1 DEF LogDirectory
      <4> QED
        BY <1>0, <2>1, <4>1, <4>2 DEF InitialSoFar
    <3>3. CASE LoadSession(logs[name])
      <4>1. ~is_initial_history(logs[name]) /\ t0' = t0
        BY <3>3 DEF LoadSession
      <4> QED
        BY <1>0, <2>1, <3>1, <4>1 DEF InitialSoFar
    <3> QED
      BY <2>1, <3>2, <3>3
  <2>5. ParsedSoFar'
    <3>1. \A f \in DOMAIN logs \ unread : ~FileAsserts(logs[f]) /\ ~FileRejected(logs[f])
      BY DEF PInv, ParsedSoFar
    <3>2. \A f \in DOMAIN logs \ unread' : ~FileAsserts(logs[f]) /\ ~FileRejected(logs[f])
      BY <2>1, <3>1
    <3> QED
      BY <1>0, <2>2, <3>2 DEF ParsedSoFar
  <2> QED
    BY <1>0, <2>3, <2>4, <2>5 DEF PInv
<1>4. CASE LoadReject \/ LoadCrash
  <2>1. /\ UNCHANGED <<unread, full_history, t0, session_histories>>
        /\ lpc' = "reject" => \E f \in DOMAIN logs : FileRejected(logs[f])
    BY <1>0, <1>4 DEF LoadReject, LoadCrash, LStop
  <2>2. PlacedBy(a)'
    BY <1>1, <1>2, <2>1
  <2>3. InitialSoFar' /\ ParsedSoFar'
    BY <1>0, <2>1 DEF PInv, InitialSoFar, ParsedSoFar
  <2> QED
    BY <1>0, <2>2, <2>3 DEF PInv
<1> QED
  BY <1>3, <1>4 DEF LStep

LEMMA PlacedUnchanged ==
  ASSUME PInv, UNCHANGED lvars
  PROVE  PInv'
<1>1. UNCHANGED <<logs, unread, full_history, t0, session_histories, txn_id>> /\ lpc' = lpc
  BY DEF lvars
<1>2. LInv'
  BY <1>1, LUnchangedInv DEF PInv
<1>3. PICK a : PlacedBy(a)
  BY DEF PInv
<1>4. PlacedBy(a)'
  BY <1>1, <1>3, PlacedSame
<1>5. InitialSoFar' /\ ParsedSoFar'
  BY <1>1 DEF PInv, InitialSoFar, ParsedSoFar
<1> QED
  BY <1>2, <1>4, <1>5 DEF PInv

-----------------------------------------------------------------------------
(* The assembled history is the logged one, up to the numbering. *)

LEMMA AssembledLists ==
  ASSUME LogDirectory(logs), PInv, lpc = "loaded"
  PROVE  /\ WellFormed(Assembled) /\ \E a : Lists(Assembled, a)
         /\ \A t \in Ids(Assembled) : ~INTError(Assembled.txns[t]) /\ ~ParseAsserts(Assembled.txns[t])
<1> PICK h, full, sh, P, len : /\ h = Assembled /\ full = full_history /\ sh = session_histories
                               /\ P = Positions(logs) /\ len = Len(full_history)
  OBVIOUS
<1>1. unread = {} /\ len \in Nat /\ DOMAIN full = 1..len
  <2>1. IsSeq(full) /\ unread = {}
    BY DEF PInv, LInv, Numbered, SessionsSoFar
  <2> QED
    BY <2>1, AppendIsSeq DEF IsSeq
<1>2. PICK a : PlacedBy(a)
  BY DEF PInv
<1>3. /\ DOMAIN a = 1..len
      /\ \A t \in 1..len : a[t] \in P /\ full[t].value = logs[a[t][1]][a[t][2]].value
      /\ \A t, u \in 1..len : a[t] = a[u] => t = u
      /\ \A p \in P : \E t \in 1..len : a[t] = p
      /\ \A k \in DOMAIN sh : IsSeq(sh[k]) /\ \E f \in SessionFiles : IsPlaced(a, sh[k], f)
      /\ \A f \in SessionFiles : \E k \in DOMAIN sh : IsPlaced(a, sh[k], f)
  BY <1>1, <1>2 DEF PlacedBy
<1>4. /\ \A p \in P : p[1] \in SessionFiles /\ p[1] \in DOMAIN logs /\ p[2] \in DOMAIN logs[p[1]]
      /\ \A f \in SessionFiles : \A i \in DOMAIN logs[f] : ~logs[f][i].initial
  BY PositionFacts DEF SessionFiles
<1>5. len = NTxns
  <2>1. IsFiniteSet(P) /\ Cardinality(P) = NTxns
    BY DEF LogDirectory
  <2> DEFINE c == [t \in 1..len |-> a[t]]
  <2>2. c \in Bijection(1..len, P)
    BY <1>3 DEF Bijection, Injection, IsInjective, Surjection
  <2>3. IsFiniteSet(1..len) /\ Cardinality(1..len) = len
    <3>1. len \in Nat /\ 1 \in Int /\ len \in Int
      BY <1>1
    <3>2. IsFiniteSet(1..len)
      BY ONLY <3>1, FS_Interval
    <3>3. Cardinality(1..len) = len
      BY ONLY <3>1, IntervalSize
    <3> QED
      BY <3>2, <3>3
  <2>4. ExistsBijection(1..len, P)
    BY <2>2 DEF ExistsBijection
  <2>5. Cardinality(P) = Cardinality(1..len)
    BY <2>3, <2>4, FS_Bijection
  <2> QED
    BY <2>1, <2>3, <2>5
<1>6. /\ h.txns = [i \in 1..NTxns |-> full[i].value]
      /\ h.sessions = ToSet(sh)
  BY <1>1, <1>5 DEF Assembled
<1>7. Ids(h) = 1..NTxns /\ \A t \in 1..NTxns : h.txns[t] = logs[a[t][1]][a[t][2]].value
  BY <1>3, <1>5, <1>6 DEF Ids
<1>8. \A s : s \in h.sessions <=> \E k \in DOMAIN sh : s = sh[k]
  BY <1>6 DEF ToSet
<1>9. ASSUME NEW s \in h.sessions PROVE s \in Seq(1..NTxns) /\ \E f : IsPlaced(a, s, f)
  <2>1. IsSeq(s)
    BY <1>3, <1>8
  <2>2. PICK f \in SessionFiles : IsPlaced(a, s, f)
    BY <1>3, <1>8
  <2>3. \A i \in DOMAIN s : s[i] \in 1..NTxns
    BY <1>3, <1>5, <2>2 DEF IsPlaced
  <2>4. Len(s) \in Nat /\ s = [i \in 1..Len(s) |-> s[i]]
    BY <2>1 DEF IsSeq
  <2>5. s \in Seq({s[i] : i \in 1..Len(s)}) /\ DOMAIN s = 1..Len(s)
    BY <2>4, FunctionIsSeq
  <2>6. {s[i] : i \in 1..Len(s)} \subseteq 1..NTxns
    BY <2>3, <2>5
  <2>7. s \in Seq(1..NTxns)
    BY <2>5, <2>6, SeqMonotonic
  <2> QED
    BY <2>2, <2>7
<1>10. ASSUME NEW p \in P PROVE \E s \in h.sessions : IsPlaced(a, s, p[1])
  <2>1. PICK k \in DOMAIN sh : IsPlaced(a, sh[k], p[1])
    BY <1>3, <1>4
  <2> QED
    BY <1>8, <2>1
<1>11. Lists(h, a)
  BY <1>3, <1>5, <1>7, <1>9, <1>10 DEF Lists
<1>12. WellFormed(h)
  BY <1>9, <1>11, ListsWellFormed
<1>13. ASSUME NEW t \in 1..NTxns PROVE ~INTError(h.txns[t]) /\ ~ParseAsserts(h.txns[t])
  <2>1. PICK f, i : f = a[t][1] /\ i = a[t][2]
    OBVIOUS
  <2>2. f \in SessionFiles /\ f \in DOMAIN logs /\ i \in DOMAIN logs[f] /\ ~logs[f][i].initial
    BY <1>3, <1>4, <1>5, <2>1
  <2>3. h.txns[t] = Value(logs[f][i])
    BY <1>7, <2>1, <2>2 DEF Value
  <2>4. ~FileAsserts(logs[f]) /\ ~FileRejected(logs[f])
    BY <1>1, <2>2 DEF PInv, ParsedSoFar
  <2> QED
    BY <2>2, <2>3, <2>4 DEF FileAsserts, FileRejected
<1> QED
  BY <1>7, <1>11, <1>12, <1>13

\* The initial file's transaction is the only initial one.
LEMMA InitialTxnsFacts ==
  ASSUME LogDirectory(logs)
  PROVE  \A v : v \in InitialTxns <=>
           \E f \in DOMAIN logs : is_initial_history(logs[f]) /\ v = logs[f][1].value
<1>1. \A f \in DOMAIN logs :
        /\ Len(logs[f]) \in Nat /\ DOMAIN logs[f] = 1..Len(logs[f])
        /\ is_initial_history(logs[f]) \/ \A i \in DOMAIN logs[f] : ~logs[f][i].initial
  BY DEF LogDirectory, InitialAlone
<1>2. \A v : v \in InitialTxns <=>
        \E f \in DOMAIN logs : \E i \in DOMAIN logs[f] : logs[f][i].initial /\ v = logs[f][i].value
  BY DEF InitialTxns, ToSet
<1>3. ASSUME NEW f \in DOMAIN logs, is_initial_history(logs[f])
      PROVE  DOMAIN logs[f] = {1} /\ logs[f][1].initial
  BY <1>1, <1>3 DEF is_initial_history
<1> QED
  BY <1>1, <1>2, <1>3

\* The initial state with the pairs I.
StateOf(I) == [key \in KeysOf(I) |-> (CHOOSE p \in I : p[1] = key)[2]]

\* The pairs I are the last writes of the keys among the n of w.
AreLastWrites(I, w, n) ==
  /\ \A j \in 1..n : \E p \in I : p[1] = w[j].k
  /\ \A p \in I : \E j \in 1..n : /\ w[j].k = p[1] /\ w[j].v = p[2]
                                  /\ \A i \in 1..n : w[i].k = p[1] => i <= j

LEMMA InitialStateIs ==
  ASSUME NEW n \in Nat, NEW w, DOMAIN w = 1..n, NEW I, AreLastWrites(I, w, n)
  PROVE  initial_state(w) = StateOf(I)
<1>0. /\ \A j \in 1..n : \E p \in I : p[1] = w[j].k
      /\ \A p \in I : \E j \in 1..n : /\ w[j].k = p[1] /\ w[j].v = p[2]
                                      /\ \A i \in 1..n : w[i].k = p[1] => i <= j
  BY DEF AreLastWrites
<1> DEFINE LastOf(key, j) == w[j].k = key /\ \A i \in 1..n : w[i].k = key => i <= j
           F(key) == w[CHOOSE j \in 1..n : LastOf(key, j)].v
           G(key) == (CHOOSE p \in I : p[1] = key)[2]
           K == {m.k : m \in ToSet(w)}
<1>1. initial_state(w) = [key \in K |-> F(key)]
  BY DEF initial_state
<1>2. K = KeysOf(I)
  <2>1. ASSUME NEW key \in {m.k : m \in ToSet(w)} PROVE key \in KeysOf(I)
    BY <1>0, <2>1 DEF ToSet, KeysOf
  <2>2. ASSUME NEW key \in KeysOf(I) PROVE key \in {m.k : m \in ToSet(w)}
    <3>1. PICK p \in I : p[1] = key
      BY <2>2 DEF KeysOf
    <3>2. PICK j \in 1..n : w[j].k = p[1]
      BY <1>0, <3>1
    <3> QED
      BY <3>1, <3>2 DEF ToSet
  <2> QED
    BY <2>1, <2>2
<1>3. ASSUME NEW key \in KeysOf(I)
      PROVE  F(key) = G(key)
  <2> PICK p : p = CHOOSE q \in I : q[1] = key
    OBVIOUS
  <2>1. p \in I /\ p[1] = key
    BY <1>3 DEF KeysOf
  <2>2. PICK j \in 1..n : LastOf(key, j) /\ w[j].v = p[2]
    BY ZenonT(30), <1>0, <2>1
  <2> PICK l : l = CHOOSE i \in 1..n : LastOf(key, i)
    OBVIOUS
  <2>3. l \in 1..n /\ LastOf(key, l)
    BY <2>2
  <2>4. l <= j /\ j <= l
    BY <2>2, <2>3
  <2>5. l = j
    BY <2>2, <2>3, <2>4
  <2> QED
    BY <2>2, <2>5
<1>4. [key \in K |-> F(key)] = [key \in KeysOf(I) |-> G(key)]
  <2> HIDE DEF K, F, G
  <2> QED
    BY <1>2, <1>3
<1> QED
  BY <1>1, <1>4 DEF StateOf

\* The write that an item of the initial query becomes.
WriteOf(p) == [f |-> "w", k |-> p[1], v |-> p[2], succ |-> TRUE]

\* The m writes of w are those of the items R, each once.
AreWritesOf(w, m, R) ==
  /\ DOMAIN w = 1..m
  /\ \A j \in 1..m : \E p \in R : w[j] = WriteOf(p)
  /\ \A p \in R : \E j \in 1..m : w[j] = WriteOf(p)
  /\ \A i, j \in 1..m : w[i] = w[j] => i = j

LEMMA WritesOfQuery ==
  ASSUME NEW R, IsFiniteSet(R), NEW w, w = SetToSeq({WriteOf(p) : p \in R})
  PROVE  \E m \in Nat : AreWritesOf(w, m, R)
<1> DEFINE S == {WriteOf(p) : p \in R}
<1>1. IsFiniteSet(S)
  <2> DEFINE g == [p \in R |-> WriteOf(p)]
  <2>1. g \in Surjection(R, S)
    BY DEF Surjection
  <2> HIDE DEF g, S
  <2> QED
    BY <2>1, FS_Surjection
<1>m. PICK m : m = Cardinality(S)
  OBVIOUS
<1>2. m \in Nat
  BY <1>1, <1>m, FS_CardinalityType
<1>3. /\ w \in [1..m -> S]
      /\ \A t, u \in 1..m : w[t] = w[u] => t = u
      /\ \A x \in S : \E t \in 1..m : w[t] = x
  <2>1. w = SetToSeq(S)
    OBVIOUS
  <2> HIDE DEF S
  <2> QED
    BY ONLY <1>1, <1>2, <1>m, <2>1, SetToSeqFacts
<1>4. ASSUME NEW j \in 1..m PROVE \E p \in R : w[j] = WriteOf(p)
  <2>1. PICK x \in S : x = w[j]
    BY <1>3
  <2> QED
    BY <2>1
<1>5. ASSUME NEW p \in R PROVE \E j \in 1..m : w[j] = WriteOf(p)
  <2>1. WriteOf(p) \in S
    OBVIOUS
  <2> HIDE DEF S
  <2> QED
    BY <1>3, <2>1
<1>6. DOMAIN w = 1..m
  BY <1>3
<1> QED
  BY <1>2, <1>3, <1>4, <1>5, <1>6 DEF AreWritesOf

\* The initial state that the builders get is the one that was logged.
LEMMA InitialPairsState ==
  ASSUME LogDirectory(logs), NEW f \in DOMAIN logs, is_initial_history(logs[f]),
         NEW v, v = logs[f][1].value, ~InitialAsserts(v),
         \A m \in ToSet(InitialWrites(v)) : m.succ
  PROVE  initial_state(InitialWrites(v)) = StateOf(InitialPairs(v))
<1> PICK w, I : w = InitialWrites(v) /\ I = InitialPairs(v)
  OBVIOUS
<1> PICK n : n = Len(v)
  OBVIOUS
<1>1. 1 \in DOMAIN logs[f]
  BY DEF LogDirectory, InitialAlone, is_initial_history
<1>2. /\ n \in Nat /\ DOMAIN v = 1..n
      /\ \A j \in DOMAIN v : v[j].f = "range" =>
           /\ IsFiniteSet(RangeItems(v[j]))
           /\ \A p, q \in RangeItems(v[j]) : p = <<p[1], p[2]>> /\ (p[1] = q[1] => p[2] = q[2])
  BY <1>1 DEF LogDirectory
<1>3. CASE IsGlobalQuery(v)
  <2> PICK R : R = RangeItems(v[1])
    OBVIOUS
  <2>1. w = SetToSeq({WriteOf(p) : p \in R}) /\ I = R
    BY <1>3 DEF InitialWrites, InitialPairs, WriteOf
  <2>2. IsFiniteSet(R) /\ \A p, q \in R : p = <<p[1], p[2]>> /\ (p[1] = q[1] => p[2] = q[2])
    BY <1>2, <1>3 DEF IsGlobalQuery
  <2>m. PICK m \in Nat : AreWritesOf(w, m, R)
    BY <2>1, <2>2, WritesOfQuery
  <2>3. /\ DOMAIN w = 1..m
        /\ \A j \in 1..m : \E p \in R : w[j] = WriteOf(p)
        /\ \A p \in R : \E j \in 1..m : w[j] = WriteOf(p)
        /\ \A i, j \in 1..m : w[i] = w[j] => i = j
    BY <2>m DEF AreWritesOf
  <2>7. ASSUME NEW j \in 1..m PROVE \E p \in R : p[1] = w[j].k
    <3>1. PICK p \in R : w[j] = WriteOf(p)
      BY <2>3
    <3>2. w[j].k = p[1]
      BY <3>1 DEF WriteOf
    <3> QED
      BY <3>2
  <2>8. ASSUME NEW p \in R
        PROVE  \E j \in 1..m : /\ w[j].k = p[1] /\ w[j].v = p[2]
                               /\ \A i \in 1..m : w[i].k = p[1] => i <= j
    <3>1. PICK j \in 1..m : w[j] = WriteOf(p)
      BY <2>3
    <3>2. w[j].k = p[1] /\ w[j].v = p[2]
      BY <3>1 DEF WriteOf
    <3>3. ASSUME NEW i \in 1..m, w[i].k = p[1] PROVE i = j
      <4>1. PICK q \in R : w[i] = WriteOf(q)
        BY <2>3
      <4>2. q[1] = p[1]
        BY <3>3, <4>1 DEF WriteOf
      <4>3. q[2] = p[2]
        BY <2>2, <4>2
      <4>4. w[i] = w[j]
        BY <3>1, <4>1, <4>2, <4>3 DEF WriteOf
      <4> QED
        BY <2>3, <4>4
    <3>4. \A i \in 1..m : w[i].k = p[1] => i <= j
      BY <3>3
    <3> QED
      BY <3>2, <3>4
  <2>10. AreLastWrites(R, w, m)
    BY <2>7, <2>8 DEF AreLastWrites
  <2>11. initial_state(w) = StateOf(R)
    BY <2>3, <2>10, InitialStateIs
  <2> QED
    BY <2>1, <2>11
<1>4. CASE ~IsGlobalQuery(v)
  <2>1. /\ w = v
        /\ I = {p \in {<<m.k, m.v>> : m \in ToSet(v)} : LastWriteIs(v, Len(v) + 1, p[1], p[2])}
    BY <1>4 DEF InitialWrites, InitialPairs
  <2>2. \A j \in 1..n : v[j].f = "w" /\ v[j].succ
    BY <1>2, <1>4, <2>1 DEF InitialAsserts, ToSet
  <2>3. ASSUME NEW key PROVE WritesBefore(v, n + 1, key) = {i \in 1..n : v[i].k = key}
    <3>1. (n + 1) - 1 = n
      BY <1>2
    <3>2. WritesBefore(v, n + 1, key) = {i \in 1..n : Writes(v[i], key)}
      BY <3>1 DEF WritesBefore
    <3> QED
      BY <2>2, <3>2 DEF Writes, IsWrite
  <2>4. ASSUME NEW key, NEW val
        PROVE  LastWriteIs(v, n + 1, key, val) <=>
                 \E j \in 1..n : /\ v[j].k = key /\ v[j].v = val
                                 /\ \A i \in 1..n : v[i].k = key => i <= j
    <3> PICK J : J = {i \in 1..n : v[i].k = key}
      OBVIOUS
    <3>0. WritesBefore(v, n + 1, key) = J
      BY <2>3
    <3>1. LastWriteIs(v, n + 1, key, val) <=> \E j \in J : v[j].v = val /\ \A i \in J : i <= j
      BY ONLY <3>0 DEF LastWriteIs
    <3> QED
      BY <3>1
  <2>5. ASSUME NEW l \in 1..n PROVE \E p \in I : p[1] = v[l].k
    <3> PICK key : key = v[l].k
      OBVIOUS
    <3> DEFINE J == {i \in 1..n : v[i].k = key}
    <3>1. J \in SUBSET (0..n) /\ J # {}
      BY <1>2
    <3>2. PICK j \in J : \A i \in J : i <= j
      <4> HIDE DEF J
      <4> QED
        BY <1>2, <3>1, GreatestNat
    <3>3. LastWriteIs(v, n + 1, key, v[j].v)
      BY <2>4, <3>2
    <3>4. j \in DOMAIN v /\ v[j].k = key
      BY <1>2, <3>2
    <3>5. <<key, v[j].v>> \in {<<m.k, m.v>> : m \in ToSet(v)}
      BY <3>4 DEF ToSet
    <3>6. <<key, v[j].v>> \in I
      BY <2>1, <3>3, <3>5
    <3> QED
      BY <3>6
  <2>6. ASSUME NEW p \in I
        PROVE  \E j \in 1..n : /\ v[j].k = p[1] /\ v[j].v = p[2]
                               /\ \A i \in 1..n : v[i].k = p[1] => i <= j
    BY <2>1, <2>4
  <2>7. AreLastWrites(I, v, n)
    BY <2>5, <2>6 DEF AreLastWrites
  <2>8. initial_state(v) = StateOf(I)
    BY <1>2, <2>7, InitialStateIs
  <2> QED
    BY <2>1, <2>8
<1> QED
  BY <1>3, <1>4

\* An initial transaction that passes its assertions becomes writes.
LEMMA InitialWritesAreWrites ==
  ASSUME LogDirectory(logs), NEW f \in DOMAIN logs, NEW i \in DOMAIN logs[f],
         NEW v, v = logs[f][i].value, ~InitialAsserts(v)
  PROVE  \A j \in DOMAIN InitialWrites(v) : InitialWrites(v)[j].f = "w"
<1>1. /\ Len(v) \in Nat /\ DOMAIN v = 1..Len(v)
      /\ \A j \in DOMAIN v : v[j].f = "range" => IsFiniteSet(RangeItems(v[j]))
  BY DEF LogDirectory
<1>2. CASE IsGlobalQuery(v)
  <2> PICK R, w : R = RangeItems(v[1]) /\ w = InitialWrites(v)
    OBVIOUS
  <2>1. w = SetToSeq({WriteOf(p) : p \in R})
    BY <1>2 DEF InitialWrites, WriteOf
  <2>2. IsFiniteSet(R)
    BY <1>1, <1>2 DEF IsGlobalQuery
  <2>3. PICK m \in Nat : AreWritesOf(w, m, R)
    BY <2>1, <2>2, WritesOfQuery
  <2>4. ASSUME NEW j \in DOMAIN w PROVE w[j].f = "w"
    <3>1. PICK p \in R : w[j] = WriteOf(p)
      BY <2>3 DEF AreWritesOf
    <3> QED
      BY <3>1 DEF WriteOf
  <2> QED
    BY <2>4
<1>3. CASE ~IsGlobalQuery(v)
  BY <1>3 DEF InitialAsserts, InitialWrites
<1> QED
  BY <1>2, <1>3

LEMMA AssembledInit ==
  ASSUME LogDirectory(logs), PInv, lpc = "loaded", ~InitialStateAsserts
  PROVE  /\ Assembled.hasInit = LoggedHistory.hasInit
         /\ Assembled.hasInit => Assembled.init = LoggedHistory.init
<1> DEFINE I == UNION {InitialPairs(v) : v \in InitialTxns}
<1>1. /\ LoggedHistory.hasInit = (InitialTxns # {})
      /\ LoggedHistory.init = StateOf(I)
  BY DEF LoggedHistory, StateOf
<1>2. /\ Assembled.hasInit = (t0 # {})
      /\ Assembled.init = IF t0 = {} THEN << >> ELSE initial_state(CHOOSE writes \in t0 : TRUE)
  BY DEF Assembled
<1>3. unread = {}
  BY DEF PInv, LInv, SessionsSoFar
<1>4. /\ \A w \in t0 : \E f \in DOMAIN logs :
           is_initial_history(logs[f]) /\ w = InitialWrites(logs[f][1].value)
      /\ \A f \in DOMAIN logs :
           is_initial_history(logs[f]) => t0 = {InitialWrites(logs[f][1].value)}
  BY <1>3 DEF PInv, InitialSoFar
<1>5. \A v : v \in InitialTxns <=>
        \E f \in DOMAIN logs : is_initial_history(logs[f]) /\ v = logs[f][1].value
  BY InitialTxnsFacts
<1> HIDE DEF I
<1>6. CASE \A f \in DOMAIN logs : ~is_initial_history(logs[f])
  <2>1. t0 = {} /\ InitialTxns = {}
    BY <1>4, <1>5, <1>6
  <2> QED
    BY <1>1, <1>2, <2>1
<1>7. ASSUME NEW f \in DOMAIN logs, is_initial_history(logs[f])
      PROVE  /\ Assembled.hasInit = LoggedHistory.hasInit
             /\ Assembled.init = LoggedHistory.init
  <2> PICK v : v = logs[f][1].value
    OBVIOUS
  <2>1. t0 = {InitialWrites(v)}
    BY <1>4, <1>7
  <2>2. InitialTxns = {v}
    <3>1. \A g \in DOMAIN logs : is_initial_history(logs[g]) => g = f
      BY <1>7 DEF LogDirectory
    <3> QED
      BY <1>5, <1>7, <3>1
  <2>3. I = InitialPairs(v)
    BY <2>2 DEF I
  <2>4. ~InitialAsserts(v)
    <3>1. ~FileAsserts(logs[f])
      BY <1>3 DEF PInv, ParsedSoFar
    <3>2. 1 \in DOMAIN logs[f] /\ logs[f][1].initial
      BY <1>7 DEF LogDirectory, InitialAlone, is_initial_history
    <3> QED
      BY <3>1, <3>2 DEF FileAsserts
  <2>5. \A m \in ToSet(InitialWrites(v)) : m.succ
    BY <2>1 DEF InitialStateAsserts
  <2>6. initial_state(InitialWrites(v)) = StateOf(I)
    BY <1>7, <2>3, <2>4, <2>5, InitialPairsState
  <2>7. (CHOOSE writes \in t0 : TRUE) = InitialWrites(v)
    BY <2>1
  <2>8. t0 # {} /\ InitialTxns # {}
    BY <2>1, <2>2
  <2>9. Assembled.hasInit = LoggedHistory.hasInit
    BY <1>1, <1>2, <2>8
  <2> QED
    BY <1>1, <1>2, <2>6, <2>7, <2>8, <2>9
<1> QED
  BY <1>6, <1>7

\* Up to the numbering the history that is handed over is the logged one.
LEMMA AssembledRenumbers ==
  ASSUME LogDirectory(logs), PInv, lpc = "loaded", ~InitialStateAsserts
  PROVE  /\ \E pi : Renumbers(LoggedHistory, Assembled, pi)
         /\ \E pi : Renumbers(Assembled, LoggedHistory, pi)
<1> PICK h, g : h = LoggedHistory /\ g = Assembled
  OBVIOUS
<1>1. PICK a : Lists(h, a)
  BY LoggedLists
<1>2. PICK b : Lists(g, b)
  BY AssembledLists
<1>3. g.hasInit = h.hasInit /\ (g.hasInit => g.init = h.init)
  BY AssembledInit
<1>4. \E pi : Renumbers(h, g, pi)
  BY <1>1, <1>2, <1>3, ListsRenumber
<1>5. \E pi : Renumbers(g, h, pi)
  BY <1>1, <1>2, <1>3, ListsRenumber
<1> QED
  BY <1>4, <1>5

\* A file that check_INT rejects logs a history that is not SI.
LEMMA RejectedFile ==
  ASSUME LogDirectory(logs), Regular(LoggedHistory), NEW f \in DOMAIN logs, FileRejected(logs[f])
  PROVE  ~IsSI(LoggedHistory, StrongSession)
<1> PICK h : h = LoggedHistory
  OBVIOUS
<1>1. PICK i \in DOMAIN logs[f] : /\ ~(logs[f][i].initial /\ InitialAsserts(logs[f][i].value))
                                  /\ INTError(Value(logs[f][i]))
  BY DEF FileRejected
<1>2. ~logs[f][i].initial
  <2> SUFFICES ASSUME logs[f][i].initial PROVE FALSE
    OBVIOUS
  <2> PICK v, w : v = logs[f][i].value /\ w = InitialWrites(v)
    OBVIOUS
  <2>1. ~InitialAsserts(v) /\ INTError(w)
    BY <1>1 DEF Value
  <2>2. \A j \in DOMAIN w : w[j].f = "w"
    BY <2>1, InitialWritesAreWrites
  <2>3. \A j \in DOMAIN w : Observed(w[j]) = {}
    BY <2>2, ObservedFacts
  <2> QED
    BY <2>1, <2>3 DEF INTError, IntReads
<1>3. <<f, i>> \in Positions(logs)
  <2>1. f \in SessionFiles
    <3> SUFFICES ASSUME is_initial_history(logs[f]) PROVE FALSE
      BY DEF SessionFiles
    <3>1. DOMAIN logs[f] = 1..1 /\ logs[f][1].initial
      BY DEF is_initial_history, LogDirectory, InitialAlone
    <3> QED
      BY <1>2, <3>1
  <2> QED
    BY <2>1, PositionFacts
<1>4. PICK a : Lists(h, a)
  BY LoggedLists
<1>5. PICK t \in 1..NTxns : a[t] = <<f, i>>
  BY <1>3, <1>4 DEF Lists
<1>6. t \in Ids(h) /\ h.txns[t] = logs[f][i].value
  BY <1>4, <1>5 DEF Lists
<1>7. INTError(h.txns[t])
  BY <1>1, <1>2, <1>6 DEF Value
<1>8. WellFormed(h) /\ Cardinality(Ids(h)) = NTxns
  <2>1. WellFormed(h)
    BY LoggedLists
  <2> QED
    BY <2>1, IntervalSize, NTxnsAssumption DEF WellFormed
<1> SUFFICES ASSUME IsSI(h, StrongSession) PROVE FALSE
  OBVIOUS
<1>9. PICK init \in InitialStates(h), tm \in Timings(NTxns) : Explains(h, tm, init, StrongSession)
  BY <1>8 DEF IsSI
<1>10. Explained(h, tm, init)
  BY <1>8, <1>9 DEF Explained
<1> QED
  BY <1>6, <1>7, <1>10, NoINTError
-----------------------------------------------------------------------------
(* The encodings of the baselines: times that respect the graph satisfy    *)
(* them, and what satisfies them has such times.                           *)

LEMMA ValidFacts ==
  ASSUME NEW E \in SUBSET ValidEdges, NEW e \in E
  PROVE  /\ e = <<e[1], e[2], e[3]>> /\ e[1] \in Txn /\ e[2] \in 1..NTxns /\ e[1] # e[2]
         /\ e[1] \in Int /\ e[2] \in Int /\ e[1] >= 0
         /\ e[3] \in EdgeTypes /\ (e[3] # "rw" => e[3] \in CbTypes)
<1>1. e \in Txn \X Txn \X EdgeTypes /\ e[1] # e[2] /\ e[2] # 0
  BY DEF ValidEdges
<1>2. e[1] \in Txn /\ e[2] \in Txn /\ e[3] \in EdgeTypes /\ e = <<e[1], e[2], e[3]>>
  BY <1>1
<1> QED
  BY <1>1, <1>2, NTxnsAssumption DEF Txn, EdgeTypes, CbTypes

\* Without T0's two nodes the begin/commit graph is that of the checker of
\* algorithms 4 and 5, whose numbers are smaller by 2.
LEMMA SameGraph ==
  ASSUME NEW E \in SUBSET ValidEdges, NEW u \in 1..2*NTxns, NEW v \in 1..2*NTxns
  PROVE  <<u + 2, v + 2>> \in to_BC_graph(E) <=> <<u, v>> \in CheckerGraph(E)
<1>1. ASSUME NEW i \in Txn
      PROVE  <<u + 2, v + 2>> = <<si(i), ci(i)>> <=>
               i # 0 /\ <<u, v>> = <<CheckerSi(i), CheckerCi(i)>>
  <2>1. i \in Nat
    BY NTxnsAssumption DEF Txn
  <2> QED
    BY <2>1, NTxnsAssumption DEF si, ci, CheckerSi, CheckerCi
<1>2. ASSUME NEW e \in E
      PROVE  <<u + 2, v + 2>> = BCEdge(e) <=> <<u, v>> = CheckerEdge(e)
  <2>1. e[1] \in Nat /\ e[2] \in Nat /\ e[2] # 0
    BY ValidFacts, NTxnsAssumption
  <2>2. CASE e[3] = "rw"
    BY <2>1, <2>2, NTxnsAssumption DEF BCEdge, CheckerEdge, si, ci, CheckerSi, CheckerCi
  <2>3. CASE e[3] # "rw"
    BY <2>1, <2>3, NTxnsAssumption DEF BCEdge, CheckerEdge, si, ci, CheckerSi, CheckerCi
  <2> QED
    BY <2>2, <2>3
<1>3. <<u + 2, v + 2>> \in to_BC_graph(E) <=>
        \/ \E i \in Txn : <<u + 2, v + 2>> = <<si(i), ci(i)>>
        \/ \E e \in E : <<u + 2, v + 2>> = BCEdge(e)
  BY DEF to_BC_graph
<1>4. <<u, v>> \in CheckerGraph(E) <=>
        \/ \E i \in Txn \ {0} : <<u, v>> = <<CheckerSi(i), CheckerCi(i)>>
        \/ \E e \in E : <<u, v>> = CheckerEdge(e)
  BY DEF CheckerGraph
<1> QED
  BY <1>1, <1>2, <1>3, <1>4

\* Nothing precedes T0, and only its begin precedes its commit.
LEMMA T0First ==
  ASSUME NEW E \in SUBSET ValidEdges, NEW u
  PROVE  /\ <<u, 0>> \notin CheckerGraph(E)
         /\ <<u, 1>> \notin to_BC_graph(E)
         /\ <<u, 2>> \in to_BC_graph(E) => u = 1
<1>1. ASSUME NEW e \in E PROVE e[1] \in Nat /\ e[2] \in Nat /\ e[2] # 0
  BY ValidFacts, NTxnsAssumption
<1>2. \A i \in Txn : i \in Nat
  BY NTxnsAssumption DEF Txn
<1>3. ASSUME NEW e \in E
      PROVE  /\ <<u, 0>> # CheckerEdge(e)
             /\ <<u, 1>> # BCEdge(e) /\ <<u, 2>> # BCEdge(e)
  <2>1. e[1] \in Nat /\ e[2] \in Nat /\ e[2] # 0
    BY <1>1
  <2>2. /\ CheckerSi(e[2]) # 0 /\ CheckerCi(e[2]) # 0
        /\ si(e[2]) \notin {1, 2} /\ ci(e[2]) \notin {1, 2}
    <3> PICK n : n = e[2]
      OBVIOUS
    <3>1. n \in Nat /\ n >= 1
      BY <2>1
    <3>2. CheckerSi(n) = 2*n - 1 /\ CheckerCi(n) = 2*n
      BY <3>1 DEF CheckerSi, CheckerCi
    <3>3. si(n) = 2*n + 1 /\ ci(n) = 2*n + 2
      BY DEF si, ci
    <3> QED
      BY <3>1, <3>2, <3>3
  <2>3. /\ CheckerEdge(e)[2] \in {CheckerSi(e[2]), CheckerCi(e[2])}
        /\ BCEdge(e)[2] \in {si(e[2]), ci(e[2])}
    BY DEF CheckerEdge, BCEdge
  <2> QED
    BY <2>2, <2>3
<1>4. ASSUME NEW i \in Txn
      PROVE  /\ i # 0 => <<u, 0>> # <<CheckerSi(i), CheckerCi(i)>>
             /\ <<u, 1>> # <<si(i), ci(i)>>
             /\ <<u, 2>> = <<si(i), ci(i)>> => u = 1
  BY <1>2 DEF CheckerSi, CheckerCi, si, ci
<1>5. <<u, 0>> \notin CheckerGraph(E)
  BY <1>3, <1>4 DEF CheckerGraph
<1>6. <<u, 1>> \notin to_BC_graph(E)
  BY <1>3, <1>4 DEF to_BC_graph
<1>7. <<u, 2>> \in to_BC_graph(E) => u = 1
  BY <1>3, <1>4 DEF to_BC_graph
<1> QED
  BY <1>5, <1>6, <1>7

LEMMA SameCycles ==
  ASSUME NEW E \in SUBSET ValidEdges
  PROVE  Acyclic(BCNodes, to_BC_graph(E)) <=> Acyclic(CheckerNodes, CheckerGraph(E))
<1>0. BCNodes = 1..2*NTxns+2 /\ CheckerNodes = 0..2*NTxns
  BY NTxnsAssumption DEF BCNodes, n_nodes_bc, n_nodes, CheckerNodes
<1>1. ASSUME Acyclic(BCNodes, to_BC_graph(E)), NEW S \in SUBSET CheckerNodes, S # {}
      PROVE  \E v \in S : \A u \in S : <<u, v>> \notin CheckerGraph(E)
  <2>1. CASE 0 \in S
    BY <2>1, T0First
  <2>2. CASE 0 \notin S
    <3> DEFINE T == {v + 2 : v \in S}
    <3>1. \A v \in S : v \in 1..2*NTxns
      BY <1>0, <2>2, NTxnsAssumption
    <3>2. T \in SUBSET BCNodes /\ T # {}
      <4>1. \A v \in S : v + 2 \in BCNodes
        BY <1>0, <3>1, NTxnsAssumption
      <4> QED
        BY <1>1, <4>1
    <3>3. PICK w \in T : \A u \in T : <<u, w>> \notin to_BC_graph(E)
      BY <1>1, <3>2 DEF Acyclic
    <3>4. PICK v \in S : w = v + 2
      BY <3>3
    <3>5. ASSUME NEW u \in S PROVE <<u, v>> \notin CheckerGraph(E)
      BY <3>1, <3>3, <3>4, SameGraph
    <3> QED
      BY <3>5
  <2> QED
    BY <2>1, <2>2
<1>2. ASSUME Acyclic(CheckerNodes, CheckerGraph(E)), NEW S \in SUBSET BCNodes, S # {}
      PROVE  \E v \in S : \A u \in S : <<u, v>> \notin to_BC_graph(E)
  <2>1. CASE 1 \in S
    BY <2>1, T0First
  <2>2. CASE 1 \notin S /\ 2 \in S
    BY <2>2, T0First
  <2>3. CASE 1 \notin S /\ 2 \notin S
    <3> DEFINE T == {v \in CheckerNodes : v + 2 \in S}
    <3>1. \A w \in S : w - 2 \in 1..2*NTxns /\ w = (w - 2) + 2 /\ w - 2 \in T
      BY <1>0, <2>3, NTxnsAssumption
    <3>2. T # {}
      BY <1>2, <3>1
    <3>3. PICK v \in T : \A u \in T : <<u, v>> \notin CheckerGraph(E)
      BY <1>2, <3>2 DEF Acyclic
    <3>4. v + 2 \in S /\ v \in 1..2*NTxns
      BY <1>0, <2>3, <3>3, NTxnsAssumption
    <3>5. ASSUME NEW w \in S PROVE <<w, v + 2>> \notin to_BC_graph(E)
      <4> PICK u : u = w - 2
        OBVIOUS
      <4>1. u \in 1..2*NTxns /\ w = u + 2 /\ u \in T
        BY <3>1
      <4>2. <<u, v>> \notin CheckerGraph(E)
        BY <3>3, <4>1
      <4> QED
        BY <3>4, <4>1, <4>2, SameGraph
    <3> QED
      BY <3>4, <3>5
  <2> QED
    BY <2>1, <2>2, <2>3
<1> QED
  BY <1>1, <1>2 DEF Acyclic

LEMMA ChosenValid ==
  ASSUME NEW con, ValidConstraints(con), NEW sel \in SUBSET con
  PROVE  Chosen(con, sel) \in SUBSET ValidEdges
<1>1. \A c \in con : c[1] \subseteq ValidEdges /\ c[2] \subseteq ValidEdges
  BY DEF ValidConstraints
<1> QED
  BY <1>1 DEF Chosen

\* An assignment of a baseline also satisfies the polygraph.
LEMMA EncodingsSat ==
  ASSUME NEW E \in SUBSET ValidEdges, NEW con, ValidConstraints(con), NEW ww
  PROVE  /\ Z301Sat(E, con) => ~Unsat(E, con)
         /\ EdgeWeightSat(E, con, ww) => ~Unsat(E, con)
<1>1. ASSUME NEW sel \in SUBSET con, Acyclic(BCNodes, TimeDeps(E \cup Chosen(con, sel)))
      PROVE  ~Unsat(E, con)
  <2>1. E \cup Chosen(con, sel) \in SUBSET ValidEdges
    BY ChosenValid
  <2>2. Acyclic(CheckerNodes, CheckerGraph(E \cup Chosen(con, sel)))
    BY <1>1, <2>1, SameCycles DEF TimeDeps
  <2> QED
    BY <2>2 DEF Unsat, Sat
<1>2. Z301Sat(E, con) => \E sel \in SUBSET con : Acyclic(BCNodes, TimeDeps(E \cup Chosen(con, sel)))
  BY DEF Z301Sat
<1>3. EdgeWeightSat(E, con, ww) => \E sel \in SUBSET con : Acyclic(BCNodes, TimeDeps(E \cup Chosen(con, sel)))
  BY DEF EdgeWeightSat
<1> QED
  BY <1>1, <1>2, <1>3

\* Valid edges, all of them forward in time.
AllForward(tm, F) ==
  /\ tm \in Timings(NTxns)
  /\ F \in SUBSET ValidEdges
  /\ \A e \in F : Forward(tm, e)

\* Wr, ww and cb edges lead from a transaction only to later ones.
LEMMA ClosureForward ==
  ASSUME NEW tm, NEW F, AllForward(tm, F), NEW i, NEW j, <<i, j>> \in WRWW(F)
  PROVE  /\ i \in Txn /\ j \in 1..NTxns
         /\ i # 0 => i \in 1..NTxns /\ Precedes(tm, i, j)
<1> DEFINE D == Pairs(F, CbTypes)
           S == {x \in 1..NTxns : i # 0 => Precedes(tm, i, x)}
<1>1. i \in Txn /\ j \in Txn
  BY DEF WRWW, Closure
<1>2. i # 0 => i \in 1..NTxns
  BY <1>1, NTxnsAssumption DEF Txn
<1>3. ASSUME NEW d \in D
      PROVE  d[2] \in 1..NTxns /\ (d[1] # 0 => d[1] \in 1..NTxns /\ Precedes(tm, d[1], d[2]))
  <2>1. PICK e \in F : e[3] \in CbTypes /\ d = <<e[1], e[2]>>
    BY DEF Pairs
  <2>2. e[2] \in 1..NTxns /\ e[1] \in Txn
    BY ValidFacts DEF AllForward
  <2>3. e[1] # 0 => Precedes(tm, e[1], e[2])
    BY <2>1 DEF AllForward, Forward, CbTypes
  <2> QED
    BY <2>1, <2>2, <2>3, NTxnsAssumption DEF Txn
<1>4. \A d \in D : d[1] = i => d[2] \in S
  BY <1>3
<1>5. ASSUME NEW d \in D, d[1] \in S PROVE d[2] \in S
  <2>1. d[1] # 0 /\ d[1] \in 1..NTxns /\ d[2] \in 1..NTxns /\ Precedes(tm, d[1], d[2])
    BY <1>3, <1>5, NTxnsAssumption
  <2>2. i # 0 => Precedes(tm, i, d[2])
    BY <1>2, <1>5, <2>1, PrecedesFacts DEF AllForward
  <2> QED
    BY <2>1, <2>2
<1>6. S \in SUBSET Txn
  BY NTxnsAssumption DEF Txn
<1>7. j \in S
  <2> HIDE DEF S
  <2> QED
    BY <1>4, <1>5, <1>6 DEF WRWW, Closure
<1> QED
  BY <1>1, <1>2, <1>7

LEMMA RwForward ==
  ASSUME NEW tm, NEW F, AllForward(tm, F), NEW i, NEW j, <<i, j>> \in RW(F)
  PROVE  /\ i \in Txn /\ j \in 1..NTxns
         /\ i # 0 => i \in 1..NTxns /\ tm.begin[i] < tm.commit[j]
<1>1. PICK e \in F : e[3] = "rw" /\ <<i, j>> = <<e[1], e[2]>>
  BY DEF RW, Pairs
<1>2. e[1] = i /\ e[2] = j
  BY <1>1
<1>3. i \in Txn /\ j \in 1..NTxns
  BY <1>2, ValidFacts DEF AllForward
<1>4. i # 0 => tm.begin[i] < tm.commit[j]
  BY <1>1, <1>2 DEF AllForward, Forward
<1> QED
  BY <1>3, <1>4, NTxnsAssumption DEF Txn

\* The relations hold only what is forward in time.
LEMMA HoldsForward ==
  ASSUME NEW tm, NEW F, AllForward(tm, F), NEW e, Holds(F, e)
  PROVE  Forward(tm, e)
<1>1. CASE e[3] = "rw"
  BY <1>1, RwForward DEF Holds, Forward
<1>2. CASE e[3] # "rw"
  BY <1>2, ClosureForward DEF Holds, Forward
<1> QED
  BY <1>1, <1>2

LEMMA ForwardNoCycle ==
  ASSUME NEW tm, NEW F, AllForward(tm, F)
  PROVE  /\ Acyclic(BCNodes, TimeDeps(F))
         /\ \A i \in Txn : <<i, i>> \notin WRWW(F)
         /\ NoSingleRW(F)
<1>0. tm \in Timings(NTxns)
  BY DEF AllForward
<1>1. Acyclic(BCNodes, TimeDeps(F))
  BY ForwardAcyclic, SameCycles DEF AllForward, TimeDeps
<1>2. ASSUME NEW i \in Txn, <<i, i>> \in WRWW(F) PROVE FALSE
  <2>1. i \in 1..NTxns /\ i # 0
    BY <1>2, ClosureForward, NTxnsAssumption
  <2>2. Precedes(tm, i, i)
    BY <1>2, <2>1, ClosureForward
  <2> QED
    BY <1>0, <2>1, <2>2, PrecedesFacts
<1>3. ASSUME NEW i \in Txn, NEW j \in Txn, i < j, <<i, j>> \in WRWW(F), <<j, i>> \in RW(F)
      PROVE  FALSE
  <2>1. i \in 1..NTxns /\ j \in 1..NTxns /\ i # 0 /\ j # 0
    BY <1>3, ClosureForward, RwForward, NTxnsAssumption
  <2>2. Precedes(tm, i, j) /\ tm.begin[j] < tm.commit[i]
    BY <1>3, <2>1, ClosureForward, RwForward
  <2>3. tm.commit[i] \in Int /\ tm.begin[j] \in Int
    BY <1>0, <2>1, Times
  <2> QED
    BY <2>2, <2>3 DEF Precedes
<1> QED
  BY <1>1, <1>2, <1>3 DEF NoSingleRW

LEMMA ForwardDistance ==
  ASSUME NEW tm, NEW F, AllForward(tm, F), NEW i \in Txn, NEW j \in Txn, i < j,
         <<i, j>> \in WRWW(F)
  PROVE  <<j, i>> \notin DistanceLeq1(F)
<1> SUFFICES ASSUME <<j, i>> \in DistanceLeq1(F) PROVE FALSE
  OBVIOUS
<1>0. tm \in Timings(NTxns)
  BY DEF AllForward
<1>1. CASE <<j, i>> \in WRWW(F)
  <2>1. i \in 1..NTxns /\ j \in 1..NTxns /\ i # 0 /\ j # 0
    BY <1>1, ClosureForward, NTxnsAssumption
  <2>2. Precedes(tm, i, j) /\ Precedes(tm, j, i)
    BY <1>1, <2>1, ClosureForward
  <2> QED
    BY <1>0, <2>1, <2>2, PrecedesFacts
<1>2. CASE <<j, i>> \notin WRWW(F)
  <2> DEFINE D0 == WRWW(F) \cup {<<x, x>> : x \in Txn}
  <2>1. PICK r \in RW(F) : <<j, r[1]>> \in D0 /\ <<r[2], i>> \in D0
    BY <1>2 DEF DistanceLeq1
  <2>2. r = <<r[1], r[2]>>
    BY DEF RW, Pairs
  <2> PICK a, b : a = r[1] /\ b = r[2]
    OBVIOUS
  <2>3. <<a, b>> \in RW(F) /\ (a = j \/ <<j, a>> \in WRWW(F)) /\ (b = i \/ <<b, i>> \in WRWW(F))
    BY <2>1, <2>2
  <2>4. b \in 1..NTxns /\ i \in 1..NTxns /\ j \in 1..NTxns
    BY <2>3, ClosureForward, RwForward
  <2>5. i # 0 /\ j # 0 /\ b # 0
    BY <2>4, NTxnsAssumption
  <2>6. a \in 1..NTxns /\ a # 0
    BY <2>3, <2>4, ClosureForward, NTxnsAssumption
  <2>7. /\ tm.begin[a] < tm.commit[b] /\ Precedes(tm, i, j)
        /\ a = j \/ Precedes(tm, j, a)
        /\ b = i \/ Precedes(tm, b, i)
    BY <2>3, <2>5, <2>6, ClosureForward, RwForward
  <2>8. /\ tm.commit[i] \in Int /\ tm.begin[i] \in Int /\ tm.begin[i] < tm.commit[i]
        /\ tm.commit[j] \in Int /\ tm.begin[j] \in Int /\ tm.begin[j] < tm.commit[j]
        /\ tm.commit[b] \in Int /\ tm.begin[a] \in Int
    BY <1>0, <2>4, <2>6, Times
  <2> QED
    BY <2>7, <2>8 DEF Precedes
<1> QED
  BY <1>1, <1>2

\* Of every constraint one side is forward in time ...
OneSide(tm, con) ==
  \A c \in con : (\A e \in c[1] : Forward(tm, e)) \/ (\A e \in c[2] : Forward(tm, e))

\* ... and not both are.
OneSideOnly(tm, con) ==
  \A c \in con : \A e1 \in c[1], e2 \in c[2] : ~(Forward(tm, e1) /\ Forward(tm, e2))

LEMMA ChooseForward ==
  ASSUME NEW tm, NEW con, ValidConstraints(con), OneSide(tm, con)
  PROVE  \E sel \in SUBSET con : /\ Chosen(con, sel) \in SUBSET ValidEdges
                                 /\ \A e \in Chosen(con, sel) : Forward(tm, e)
<1> DEFINE sel == {c \in con : \A e \in c[1] : Forward(tm, e)}
<1>1. sel \in SUBSET con
  OBVIOUS
<1>2. \A e \in Chosen(con, sel) : Forward(tm, e)
  BY DEF Chosen, OneSide
<1>3. Chosen(con, sel) \in SUBSET ValidEdges
  BY <1>1, ChosenValid
<1> HIDE DEF sel
<1> QED
  BY <1>1, <1>2, <1>3

LEMMA ForwardZ301 ==
  ASSUME NEW tm, NEW E, AllForward(tm, E), NEW con, ValidConstraints(con),
         OneSide(tm, con), OneSideOnly(tm, con)
  PROVE  Z301Sat(E, con)
<1>1. PICK sel \in SUBSET con : /\ Chosen(con, sel) \in SUBSET ValidEdges
                                /\ \A e \in Chosen(con, sel) : Forward(tm, e)
  BY ChooseForward
<1> PICK F : F = E \cup Chosen(con, sel)
  OBVIOUS
<1>2. AllForward(tm, F)
  BY <1>1 DEF AllForward
<1>3. \A c \in con : \A e1 \in c[1], e2 \in c[2] : ~(Holds(F, e1) /\ Holds(F, e2))
  BY <1>2, HoldsForward DEF OneSideOnly
<1>4. /\ Acyclic(BCNodes, TimeDeps(F))
      /\ \A i \in Txn : <<i, i>> \notin WRWW(F)
      /\ NoSingleRW(F)
  BY <1>2, ForwardNoCycle
<1> QED
  BY <1>3, <1>4 DEF Z301Sat

LEMMA ForwardEdgeWeight ==
  ASSUME NEW tm, NEW E, AllForward(tm, E), NEW con, ValidConstraints(con), OneSide(tm, con),
         NEW ww, ValidConstraints(ww), OneSide(tm, ww), EnoughTimestamps
  PROVE  EdgeWeightSat(E, con, ww)
<1>1. PICK sel \in SUBSET con : /\ Chosen(con, sel) \in SUBSET ValidEdges
                                /\ \A e \in Chosen(con, sel) : Forward(tm, e)
  BY ChooseForward
<1>2. PICK ord \in SUBSET ww : /\ Chosen(ww, ord) \in SUBSET ValidEdges
                               /\ \A e \in Chosen(ww, ord) : Forward(tm, e)
  BY ChooseForward
<1> PICK T, F : T = E \cup Chosen(con, sel) /\ F = T \cup Chosen(ww, ord)
  OBVIOUS
<1>3. AllForward(tm, T) /\ AllForward(tm, F)
  BY <1>1, <1>2 DEF AllForward
<1>4. Acyclic(BCNodes, TimeDeps(T))
  BY <1>3, ForwardNoCycle
<1>5. \A i, j \in Txn : i < j => ~(<<i, j>> \in WRWW(F) /\ <<j, i>> \in DistanceLeq1(F))
  BY <1>3, ForwardDistance
<1> QED
  BY <1>4, <1>5 DEF EdgeWeightSat

-----------------------------------------------------------------------------
(* The pairs of the pair builder. *)

LEMMA ReaderPairsFacts ==
  ASSUME NEW c
  PROVE  c \in ReaderPairs <=>
           \E f \in ReadFrom : \E t \in k_writes_fn(hist, f[1]) :
             /\ f[2] # 0 /\ t # f[2] /\ t # f[3]
             /\ c = <<{<<t, f[2], "ww">>}, {<<f[3], t, "rw">>}>>
  BY DEF ReaderPairs, EdgePair, Tk_set_fn

LEMMA WriterPairsFacts ==
  ASSUME NEW c
  PROVE  c \in WriterPairs <=>
           \E key : \E x, y \in k_writes_fn(hist, key) :
             x < y /\ c = <<{<<x, y, "ww">>}, {<<y, x, "ww">>}>>
<1>1. ASSUME c \in WriterPairs
      PROVE  \E key : \E x, y \in k_writes_fn(hist, key) :
               x < y /\ c = <<{<<x, y, "ww">>}, {<<y, x, "ww">>}>>
  <2>1. PICK key \in DOMAIN ext_key2writes :
          \E p \in ext_key2writes[key] \X ext_key2writes[key] :
            p[1] < p[2] /\ c = EdgePair(<<p[1], p[2], "ww">>, <<p[2], p[1], "ww">>)
    BY <1>1 DEF WriterPairs
  <2>2. ext_key2writes[key] = k_writes_fn(hist, key)
    BY <2>1 DEF ext_key2writes
  <2>3. PICK p \in k_writes_fn(hist, key) \X k_writes_fn(hist, key) :
            p[1] < p[2] /\ c = EdgePair(<<p[1], p[2], "ww">>, <<p[2], p[1], "ww">>)
    BY <2>1, <2>2
  <2>4. p[1] \in k_writes_fn(hist, key) /\ p[2] \in k_writes_fn(hist, key)
    BY <2>3
  <2> QED
    BY <2>3, <2>4 DEF EdgePair
<1>2. ASSUME NEW key, NEW x \in k_writes_fn(hist, key), NEW y \in k_writes_fn(hist, key),
             x < y, c = <<{<<x, y, "ww">>}, {<<y, x, "ww">>}>>
      PROVE  c \in WriterPairs
  <2>1. key \in DOMAIN ext_key2writes /\ ext_key2writes[key] = k_writes_fn(hist, key)
    BY KWritesFacts DEF ext_key2writes
  <2> PICK p : p = <<x, y>>
    OBVIOUS
  <2>2. p \in ext_key2writes[key] \X ext_key2writes[key] /\ p[1] = x /\ p[2] = y
    BY <2>1
  <2> QED
    BY <1>2, <2>1, <2>2 DEF WriterPairs, EdgePair
<1> QED
  BY <1>1, <1>2

LEMMA WriterTypes ==
  ASSUME WellFormed(hist), NEW key, NEW x \in k_writes_fn(hist, key)
  PROVE  x \in Txn /\ x # 0 /\ x \in Ids(hist) /\ x \in 1..NTxns /\ x \in Int
<1>1. x \in Ids(hist) /\ Ids(hist) = 1..NTxns
  BY WritersAreIds, IdsFacts
<1> QED
  BY <1>1, IdsFacts, NTxnsAssumption

LEMMA PairsValid ==
  ASSUME WellFormed(hist), ReadsFine
  PROVE  ValidConstraints(ReaderPairs) /\ ValidConstraints(WriterPairs)
<1>1. ASSUME NEW c \in ReaderPairs PROVE c \in (SUBSET ValidEdges) \X (SUBSET ValidEdges)
  <2>1. PICK f \in ReadFrom : \E t \in k_writes_fn(hist, f[1]) :
             /\ f[2] # 0 /\ t # f[2] /\ t # f[3]
             /\ c = <<{<<t, f[2], "ww">>}, {<<f[3], t, "rw">>}>>
    BY ReaderPairsFacts
  <2>2. PICK t \in k_writes_fn(hist, f[1]) :
             /\ f[2] # 0 /\ t # f[2] /\ t # f[3]
             /\ c = <<{<<t, f[2], "ww">>}, {<<f[3], t, "rw">>}>>
    BY <2>1
  <2>3. /\ f[2] \in Txn /\ f[3] \in Txn /\ t \in Txn /\ t # 0
        /\ "ww" \in EdgeTypes /\ "rw" \in EdgeTypes
    BY ReadFromTypes, WriterTypes DEF EdgeTypes, CbTypes
  <2>4. <<t, f[2], "ww">> \in ValidEdges /\ <<f[3], t, "rw">> \in ValidEdges
    BY <2>2, <2>3, ValidEdge
  <2> QED
    BY <2>2, <2>4
<1>2. ASSUME NEW c \in WriterPairs PROVE c \in (SUBSET ValidEdges) \X (SUBSET ValidEdges)
  <2>1. PICK key : \E x, y \in k_writes_fn(hist, key) :
             x < y /\ c = <<{<<x, y, "ww">>}, {<<y, x, "ww">>}>>
    BY WriterPairsFacts
  <2>2. PICK x \in k_writes_fn(hist, key), y \in k_writes_fn(hist, key) :
             x < y /\ c = <<{<<x, y, "ww">>}, {<<y, x, "ww">>}>>
    BY <2>1
  <2>3. /\ x \in Txn /\ y \in Txn /\ x # 0 /\ y # 0 /\ x \in Int /\ y \in Int
        /\ "ww" \in EdgeTypes
    BY WriterTypes DEF EdgeTypes, CbTypes
  <2>4. <<x, y, "ww">> \in ValidEdges /\ <<y, x, "ww">> \in ValidEdges
    BY <2>2, <2>3, ValidEdge
  <2> QED
    BY <2>2, <2>4
<1> QED
  BY <1>1, <1>2 DEF ValidConstraints

\* The times that explain a history choose one side of each pair.
LEMMA PairsForward ==
  ASSUME NEW tm, NEW init, Explained(hist, tm, init), ReadsFine
  PROVE  /\ OneSide(tm, ReaderPairs) /\ OneSideOnly(tm, ReaderPairs)
         /\ OneSide(tm, WriterPairs) /\ OneSideOnly(tm, WriterPairs)
<1>0. WellFormed(hist) /\ tm \in Timings(NTxns)
  BY DEF Explained
<1>1. ASSUME NEW c \in ReaderPairs, NEW e1 \in c[1], NEW e2 \in c[2]
      PROVE  /\ (\A e \in c[1] : Forward(tm, e)) \/ (\A e \in c[2] : Forward(tm, e))
             /\ ~(Forward(tm, e1) /\ Forward(tm, e2))
  <2>1. PICK f \in ReadFrom : \E t \in k_writes_fn(hist, f[1]) :
             /\ f[2] # 0 /\ t # f[2] /\ t # f[3]
             /\ c = <<{<<t, f[2], "ww">>}, {<<f[3], t, "rw">>}>>
    BY ReaderPairsFacts
  <2>2. PICK t \in k_writes_fn(hist, f[1]) :
             /\ f[2] # 0 /\ t # f[2] /\ t # f[3]
             /\ c = <<{<<t, f[2], "ww">>}, {<<f[3], t, "rw">>}>>
    BY <2>1
  <2>3. /\ c[1] = {<<t, f[2], "ww">>} /\ c[2] = {<<f[3], t, "rw">>}
        /\ e1 = <<t, f[2], "ww">> /\ e2 = <<f[3], t, "rw">>
    BY <2>2
  <2>4. /\ t \in Ids(hist) /\ f[2] \in Ids(hist) /\ f[3] \in Ids(hist)
        /\ f[2] \in k_writes_fn(hist, f[1]) /\ Precedes(tm, f[2], f[3])
        /\ t # 0 /\ f[3] # 0
    BY <1>0, <2>2, WriterTypes, ReadWriter, ReaderTiming, ReadFromTypes
  <2>5. Forward(tm, e1) <=> Precedes(tm, t, f[2])
    BY <2>3, <2>4 DEF Forward
  <2>6. Forward(tm, e2) <=> tm.begin[f[3]] < tm.commit[t]
    BY <2>3, <2>4 DEF Forward
  <2>7. Precedes(tm, t, f[2]) \/ Precedes(tm, f[2], t)
    BY <2>2, <2>4, WritersOrdered
  <2>8. Precedes(tm, f[2], t) => tm.begin[f[3]] < tm.commit[t]
    BY <2>2, ReaderBeforeLater
  <2>9. ~(Precedes(tm, t, f[2]) /\ tm.begin[f[3]] < tm.commit[t])
    <3>1. /\ tm.commit[t] \in Int /\ tm.begin[f[3]] \in Int
          /\ tm.commit[f[2]] \in Int /\ tm.begin[f[2]] \in Int /\ tm.begin[f[2]] < tm.commit[f[2]]
      BY <2>4, TimingFacts
    <3> QED
      BY <2>4, <3>1 DEF Precedes
  <2> QED
    BY <2>3, <2>5, <2>6, <2>7, <2>8, <2>9
<1>2. ASSUME NEW c \in WriterPairs, NEW e1 \in c[1], NEW e2 \in c[2]
      PROVE  /\ (\A e \in c[1] : Forward(tm, e)) \/ (\A e \in c[2] : Forward(tm, e))
             /\ ~(Forward(tm, e1) /\ Forward(tm, e2))
  <2>1. PICK key : \E x, y \in k_writes_fn(hist, key) :
             x < y /\ c = <<{<<x, y, "ww">>}, {<<y, x, "ww">>}>>
    BY WriterPairsFacts
  <2>2. PICK x \in k_writes_fn(hist, key), y \in k_writes_fn(hist, key) :
             x < y /\ c = <<{<<x, y, "ww">>}, {<<y, x, "ww">>}>>
    BY <2>1
  <2>3. /\ c[1] = {<<x, y, "ww">>} /\ c[2] = {<<y, x, "ww">>}
        /\ e1 = <<x, y, "ww">> /\ e2 = <<y, x, "ww">>
    BY <2>2
  <2>4. /\ x \in 1..NTxns /\ y \in 1..NTxns /\ x # 0 /\ y # 0 /\ x \in Int /\ y \in Int /\ x # y
    BY <1>0, <2>2, WriterTypes
  <2>5. (Forward(tm, e1) <=> Precedes(tm, x, y)) /\ (Forward(tm, e2) <=> Precedes(tm, y, x))
    BY <2>3, <2>4 DEF Forward
  <2>6. Precedes(tm, x, y) \/ Precedes(tm, y, x)
    BY <2>4, WritersOrdered
  <2>7. ~(Precedes(tm, x, y) /\ Precedes(tm, y, x))
    BY <1>0, <2>4, PrecedesFacts
  <2> QED
    BY <2>3, <2>5, <2>6, <2>7
<1>3. ASSUME NEW c, c \in ReaderPairs \/ c \in WriterPairs PROVE c[1] # {} /\ c[2] # {}
  <2>1. \E a, b : c = <<{a}, {b}>>
    <3>1. CASE c \in ReaderPairs
      <4>1. PICK f \in ReadFrom : \E t \in k_writes_fn(hist, f[1]) :
              /\ f[2] # 0 /\ t # f[2] /\ t # f[3]
              /\ c = <<{<<t, f[2], "ww">>}, {<<f[3], t, "rw">>}>>
        BY <3>1, ReaderPairsFacts
      <4> QED
        BY ONLY <4>1
    <3>2. CASE c \in WriterPairs
      <4>1. PICK key : \E x, y \in k_writes_fn(hist, key) :
              x < y /\ c = <<{<<x, y, "ww">>}, {<<y, x, "ww">>}>>
        BY <3>2, WriterPairsFacts
      <4> QED
        BY ONLY <4>1
    <3> QED
      BY <1>3, <3>1, <3>2
  <2> QED
    BY <2>1
<1> QED
  BY <1>1, <1>2, <1>3 DEF OneSide, OneSideOnly

\* Times that respect the pairs order the versions and the readers.
LEMMA PairsTimed ==
  ASSUME NEW tm, ReadTimed(tm), OneSide(tm, ReaderPairs), OneSide(tm, WriterPairs)
  PROVE  Timed(tm)
<1>0. WellFormed(hist) /\ ReadsFine /\ tm \in Timings(NTxns)
  BY DEF ReadTimed
<1>1. ASSUME NEW key, NEW x \in k_writes_fn(hist, key), NEW y \in k_writes_fn(hist, key), x < y
      PROVE  Precedes(tm, x, y) \/ Precedes(tm, y, x)
  <2> PICK c : c = <<{<<x, y, "ww">>}, {<<y, x, "ww">>}>>
    OBVIOUS
  <2>1. c \in WriterPairs
    BY <1>1, WriterPairsFacts
  <2>2. c[1] = {<<x, y, "ww">>} /\ c[2] = {<<y, x, "ww">>}
    OBVIOUS
  <2>3. Forward(tm, <<x, y, "ww">>) \/ Forward(tm, <<y, x, "ww">>)
    BY <2>1, <2>2 DEF OneSide
  <2>4. x # 0 /\ y # 0
    BY <1>0, WriterTypes
  <2> QED
    BY <2>3, <2>4 DEF Forward
<1>2. ASSUME NEW key, NEW x \in k_writes_fn(hist, key), NEW y \in k_writes_fn(hist, key), x # y
      PROVE  Precedes(tm, x, y) \/ Precedes(tm, y, x)
  <2>1. x \in Int /\ y \in Int
    BY <1>0, WriterTypes
  <2>2. x < y \/ y < x
    BY <1>2, <2>1
  <2> QED
    BY <1>1, <2>2
<1>3. ASSUME NEW f \in ReadFrom, NEW x \in k_writes_fn(hist, f[1]),
             f[2] # 0, Precedes(tm, f[2], x)
      PROVE  tm.begin[f[3]] < tm.commit[x]
  <2>1. /\ x \in 1..NTxns /\ f[2] \in 1..NTxns /\ f[3] \in 1..NTxns
        /\ x # 0 /\ f[3] # 0
    BY <1>0, <1>3, WriterTypes, ReadForward, NTxnsAssumption
  <2>2. ~Precedes(tm, x, f[2])
    BY <1>0, <1>3, <2>1, PrecedesFacts
  <2>3. x # f[2]
    BY <1>3, <2>2
  <2>4. CASE x = f[3]
    BY <1>0, <2>1, <2>4, Times
  <2>5. CASE x # f[3]
    <3> PICK c : c = <<{<<x, f[2], "ww">>}, {<<f[3], x, "rw">>}>>
      OBVIOUS
    <3>1. c \in ReaderPairs
      BY <1>3, <2>3, <2>5, ReaderPairsFacts
    <3>2. c[1] = {<<x, f[2], "ww">>} /\ c[2] = {<<f[3], x, "rw">>}
      OBVIOUS
    <3>3. Forward(tm, <<x, f[2], "ww">>) \/ Forward(tm, <<f[3], x, "rw">>)
      BY <3>1, <3>2 DEF OneSide
    <3> QED
      BY <2>1, <2>2, <3>3 DEF Forward
  <2> QED
    BY <2>4, <2>5
<1> QED
  BY <1>2, <1>3 DEF Timed

LEMMA PairOwnWrites ==
  ASSUME WellFormed(hist), Transparent(hist),
         \A m \in MissedUpserts : ~PairOwnUpsertMissed(m[1], m[2])
  PROVE  OwnWritesSeen
<1> SUFFICES ASSUME NEW t \in Ids(hist), NEW j \in DOMAIN hist.txns[t], NEW key,
                    NEW q, q = hist.txns[t][j], q.f = "range",
                    in_between(key, q.k1, q.k2), key \notin KeysOf(RangeItems(q)),
                    NEW i \in WritesBefore(hist.txns[t], j, key)
             PROVE  FALSE
  BY DEF OwnWritesSeen
<1>1. i \in 1..j-1 /\ Writes(hist.txns[t][i], key)
  BY DEF WritesBefore
<1>2. i \in DOMAIN hist.txns[t] /\ i < j
  BY <1>1 DEF WellFormed
<1> PICK m : m = <<<<t, j - 1>>, <<t, i - 1>>>>
  OBVIOUS
<1>3. m \in MissedUpserts /\ i \in Int /\ j \in Int
  BY <1>1, <1>2, UpsertIsMissed
<1>4. ~PairOwnUpsertMissed(m[1], m[2])
  BY <1>3
<1> QED
  BY <1>2, <1>3, <1>4 DEF PairOwnUpsertMissed

-----------------------------------------------------------------------------
(* The pair builder and its checkers: the invariant. *)

\* The builder has passed the loops before bpc without an exception, and its
\* edges and pairs are what these loops add.
PairsSoFar ==
  /\ bpc \in {"known", "reads", "ww", "range", "built", "reject", "crash"}
  /\ bpc \in {"known", "reads", "ww", "range", "built"} =>
       \A t \in Ids(hist) : ~INTError(hist.txns[t]) /\ ~ParseAsserts(hist.txns[t])
  /\ bpc \in {"reads", "ww", "range", "built"} => Covers(edges, SessionEdges)
  /\ bpc \in {"ww", "range", "built"} => ReadsFine /\ Covers(edges, ReadEdges)
  /\ bpc = "ww" => conn = ReaderPairs
  /\ bpc \in {"range", "built"} => conn = ReaderPairs \cup WriterPairs
  /\ bpc = "built" => /\ Covers(edges, MissedEdges)
                      /\ \A m \in MissedUpserts : ~PairOwnUpsertMissed(m[1], m[2])

\* The builder and the checker reject no history that tm explains.
PairsAgree(tm) ==
  /\ bpc # "reject"
  /\ verdict # "reject"
  /\ \A e \in edges : Forward(tm, e)

PairInv ==
  /\ WellFormed(hist)
  /\ edges \in SUBSET ValidEdges
  /\ verdict \in {"none", "accept", "reject"}
  /\ PairsSoFar
  /\ verdict = "accept" => bpc = "built" /\ ~Unsat(edges, conn)
  /\ \A tm, init : (/\ Explained(hist, tm, init)
                    /\ args.algo = 2 => EnoughTimestamps) => PairsAgree(tm)

LEMMA PairsValidUnion ==
  ASSUME WellFormed(hist), ReadsFine
  PROVE  ValidConstraints(ReaderPairs \cup WriterPairs)
  BY PairsValid DEF ValidConstraints

\* What the pair builder's constraints are when it is done.
LEMMA PairBuilt ==
  ASSUME PairInv, bpc = "built"
  PROVE  /\ WellFormed(hist) /\ ReadsFine /\ edges \in SUBSET ValidEdges
         /\ conn = ReaderPairs \cup WriterPairs /\ ValidConstraints(conn)
         /\ PairConstraints = conn
<1>1. WellFormed(hist) /\ ReadsFine /\ edges \in SUBSET ValidEdges
  BY DEF PairInv, PairsSoFar
<1>2. conn = ReaderPairs \cup WriterPairs
  BY DEF PairInv, PairsSoFar
<1> QED
  BY <1>1, <1>2, PairsValidUnion DEF PairConstraints

\* Each of the three checkers accepts only what has times ...
LEMMA CheckerSound ==
  ASSUME PairInv, bpc = "built", CheckerAccepts
  PROVE  ~Unsat(edges, conn)
<1>1. /\ edges \in SUBSET ValidEdges /\ ValidConstraints(conn) /\ PairConstraints = conn
  BY PairBuilt
<1>2. CASE args.algo = 1
  BY <1>1, <1>2, EncodingsSat DEF CheckerAccepts
<1>3. CASE args.algo = 2
  BY <1>1, <1>3, EncodingsSat DEF CheckerAccepts
<1>4. CASE args.algo # 1 /\ args.algo # 2
  BY <1>1, <1>4 DEF CheckerAccepts, Unsat
<1> QED
  BY <1>2, <1>3, <1>4

\* ... and all of that.
LEMMA CheckerComplete ==
  ASSUME PairInv, bpc = "built", NEW tm, NEW init, Explained(hist, tm, init),
         args.algo = 2 => EnoughTimestamps
  PROVE  CheckerAccepts
<1>1. /\ WellFormed(hist) /\ ReadsFine /\ edges \in SUBSET ValidEdges
      /\ conn = ReaderPairs \cup WriterPairs /\ ValidConstraints(conn)
      /\ PairConstraints = conn
  BY PairBuilt
<1>2. \A e \in edges : Forward(tm, e)
  BY DEF PairInv, PairsAgree
<1>3. tm \in Timings(NTxns)
  BY DEF Explained
<1>4. AllForward(tm, edges)
  BY <1>1, <1>2, <1>3 DEF AllForward
<1>5. /\ OneSide(tm, ReaderPairs) /\ OneSideOnly(tm, ReaderPairs)
      /\ OneSide(tm, WriterPairs) /\ OneSideOnly(tm, WriterPairs)
  BY <1>1, PairsForward
<1>6. OneSide(tm, conn) /\ OneSideOnly(tm, conn)
  BY <1>1, <1>5 DEF OneSide, OneSideOnly
<1>7. CASE args.algo = 1
  BY <1>1, <1>4, <1>6, <1>7, ForwardZ301 DEF CheckerAccepts
<1>8. CASE args.algo = 2
  <2> PICK ww : ww = IF args.ww_order THEN WriterPairs ELSE {}
    OBVIOUS
  <2>1. ValidConstraints({}) /\ OneSide(tm, {})
    BY DEF ValidConstraints, OneSide
  <2>2. ValidConstraints(ww) /\ OneSide(tm, ww)
    BY <1>1, <1>5, <2>1, PairsValid
  <2>3. EdgeWeightSat(edges, conn, ww)
    BY <1>1, <1>4, <1>6, <1>8, <2>2, ForwardEdgeWeight
  <2> QED
    BY <1>8, <2>3 DEF CheckerAccepts
<1>9. CASE args.algo # 1 /\ args.algo # 2
  <2>1. ~Unsat(edges, conn)
    BY <1>1, <1>2, <1>3, <1>6, ForwardSat DEF OneSide
  <2> QED
    BY <1>1, <1>9, <2>1 DEF CheckerAccepts, Unsat
<1> QED
  BY <1>7, <1>8, <1>9

\* What depends on the history alone.
LEMMA HistoryUnchanged ==
  ASSUME hist' = hist
  PROVE  /\ SessionEdges' = SessionEdges /\ ReadEdges' = ReadEdges /\ ReadsFine' = ReadsFine
         /\ MissedUpserts' = MissedUpserts /\ MissedEdges' = MissedEdges
         /\ ReaderPairs' = ReaderPairs /\ WriterPairs' = WriterPairs
         /\ WellFormed(hist)' = WellFormed(hist)
         /\ \A tm, init : Explained(hist, tm, init)' = Explained(hist, tm, init)
<1>1. /\ SessionEdges' = SessionEdges /\ ReadEdges' = ReadEdges
      /\ MissedUpserts' = MissedUpserts /\ MissedEdges' = MissedEdges
  BY DEF SessionEdges, ReadEdges, ReadFrom, T0ReaderEdges, ReadsT0, MissedUpserts, MissedEdges
<1>2. ReadsFine' = ReadsFine
  BY DEF ReadsFine, DirtyRead, ReadsT0
<1>3. ReaderPairs' = ReaderPairs
  BY DEF ReaderPairs, ReadFrom, ReadsT0
<1>4. WriterPairs' = WriterPairs
  BY DEF WriterPairs, ext_key2writes
<1> QED
  BY <1>1, <1>2, <1>3, <1>4

LEMMA PairsUnchanged ==
  ASSUME PairInv, UNCHANGED bvars, args' = args, verdict' = verdict
  PROVE  PairInv'
<1>1. hist' = hist /\ edges' = edges /\ conn' = conn /\ bpc' = bpc
  BY DEF bvars
<1>2. PairsSoFar'
  BY <1>1, HistoryUnchanged DEF PairInv, PairsSoFar, Covers, PairOwnUpsertMissed
<1>3. Unsat(edges, conn)' = Unsat(edges, conn)
  BY <1>1
<1>4. \A tm : PairsAgree(tm)' = PairsAgree(tm)
  BY <1>1 DEF PairsAgree, Forward, Precedes
<1>5. EnoughTimestamps' = EnoughTimestamps
  BY DEF EnoughTimestamps, n_nodes_bc, n_nodes
<1> QED
  BY <1>1, <1>2, <1>3, <1>4, <1>5, HistoryUnchanged DEF PairInv

\* The exceptions of the pair builder are no rejections of such a history.
LEMMA PairNoReject ==
  ASSUME PairInv, NEW tm, NEW init, Explained(hist, tm, init)
  PROVE  ~DirtyReadReject /\ ~PairRangeReject
<1>1. ~DirtyReadReject
  BY NoDirtyRead DEF DirtyReadReject
<1>2. ~PairRangeReject
  BY MissedUpsertTiming DEF PairRangeReject, PairOwnUpsertMissed
<1> QED
  BY <1>1, <1>2

LEMMA PairStop ==
  ASSUME PairInv, NEW how \in {"reject", "crash"}, Stop(how), verdict' = verdict, args' = args,
         bpc # "built",
         \A tm, init : Explained(hist, tm, init) => how # "reject"
  PROVE  PairInv'
<1>1. hist' = hist /\ edges' = edges /\ conn' = conn /\ bpc' = how
  BY DEF Stop
<1>2. PairsSoFar'
  BY <1>1 DEF PairsSoFar
<1>3. ASSUME NEW tm, NEW init, Explained(hist, tm, init), PairsAgree(tm)
      PROVE  PairsAgree(tm)'
  BY <1>1, <1>3 DEF PairsAgree, Forward, Precedes
<1>4. EnoughTimestamps' = EnoughTimestamps
  BY DEF EnoughTimestamps, n_nodes_bc, n_nodes
<1>5. verdict # "accept"
  BY DEF PairInv
<1> QED
  BY <1>1, <1>2, <1>3, <1>4, <1>5, HistoryUnchanged DEF PairInv

\* Adding edges that are valid and that point forward in time.
LEMMA PairAdds ==
  ASSUME PairInv, NEW E \in SUBSET ValidEdges, NEW new \in SUBSET ValidEdges,
         E = edges \/ \A tm, init : Explained(hist, tm, init) => \A e \in E : Forward(tm, e),
         \A tm, init : Explained(hist, tm, init) => \A e \in new : Forward(tm, e),
         hist' = hist, edges' = AddEdges(E, new), verdict' = verdict, args' = args,
         bpc # "built", bpc' # "reject", PairsSoFar'
  PROVE  PairInv'
<1>1. edges' \in SUBSET ValidEdges
  BY AddEdgesValid
<1>2. ASSUME NEW tm, NEW init, Explained(hist, tm, init), PairsAgree(tm)
      PROVE  PairsAgree(tm)'
  <2>1. \A e \in E : Forward(tm, e)
    BY <1>2 DEF PairsAgree
  <2>2. \A e \in new : Forward(tm, e)
    BY <1>2
  <2>3. \A e \in edges' : Forward(tm, e)
    BY <2>1, <2>2, AddForward
  <2> QED
    BY <1>2, <2>3 DEF PairsAgree, Forward, Precedes
<1>3. EnoughTimestamps' = EnoughTimestamps
  BY DEF EnoughTimestamps, n_nodes_bc, n_nodes
<1>4. verdict # "accept"
  BY DEF PairInv
<1> QED
  BY <1>1, <1>2, <1>3, <1>4, HistoryUnchanged DEF PairInv

LEMMA PairBuildInv ==
  ASSUME PairInv, PairBuild, args' = args
  PROVE  PairInv'
<1>0. WellFormed(hist) /\ edges \in SUBSET ValidEdges /\ PairsSoFar
  BY DEF PairInv
<1>1. CASE PairKnown /\ IndexCrash
  BY <1>1, PairStop DEF PairKnown, IndexCrash
<1>2. CASE PairKnown /\ ReadsCrash
  BY <1>2, PairStop DEF PairKnown, ReadsCrash
<1>3. CASE PairKnown /\ DirtyReadReject
  <2>1. \A tm, init : ~Explained(hist, tm, init)
    BY <1>3, PairNoReject
  <2> QED
    BY <1>3, <2>1, PairStop DEF PairKnown, DirtyReadReject
<1>4. CASE PairKnown /\ KnownStart
  <2> DEFINE new == {<<0, i, "cb">> : i \in Txn \ {0}}
  <2>1. /\ bpc = "known" /\ bpc' = "reads" /\ hist' = hist /\ verdict' = verdict
        /\ edges' = AddEdges(SessionEdges, new)
    BY <1>4 DEF PairKnown, KnownStart
  <2>2. SessionEdges \in SUBSET ValidEdges /\ new \in SUBSET ValidEdges
    BY <1>0, KnownEdgesValid
  <2>3. \A tm, init : Explained(hist, tm, init) => \A e \in SessionEdges : Forward(tm, e)
    BY SessionEdgesForward
  <2>4. \A tm, init : Explained(hist, tm, init) => \A e \in new : Forward(tm, e)
    BY DEF Forward
  <2> HIDE DEF new
  <2>5. Covers(edges', SessionEdges)
    BY <2>1, CoversAdd
  <2>6. PairsSoFar'
    BY <1>0, <2>1, <2>5, HistoryUnchanged DEF PairsSoFar, Covers
  <2> QED
    BY <2>1, <2>2, <2>3, <2>4, <2>6, PairAdds
<1>5. CASE PairReadLoop
  <2>1. /\ bpc = "reads" /\ bpc' = "ww" /\ hist' = hist /\ verdict' = verdict
        /\ edges' = AddEdges(edges, ReadEdges) /\ conn' = ReaderPairs /\ ReadsFine
    BY <1>5 DEF PairReadLoop
  <2>2. ReadEdges \in SUBSET ValidEdges
    BY <1>0, <2>1, ReadEdgesValid
  <2>3. \A tm, init : Explained(hist, tm, init) => \A e \in ReadEdges : Forward(tm, e)
    BY <2>1, ReadEdgesForward
  <2>4. Covers(edges', SessionEdges) /\ Covers(edges', ReadEdges)
    BY <1>0, <2>1, CoversAdd DEF PairsSoFar
  <2>5. PairsSoFar'
    BY <1>0, <2>1, <2>4, HistoryUnchanged DEF PairsSoFar, Covers
  <2> QED
    BY <1>0, <2>1, <2>2, <2>3, <2>5, PairAdds
<1>6. CASE PairWriteLoop
  <2>1. /\ bpc = "ww" /\ bpc' = "range" /\ hist' = hist /\ verdict' = verdict
        /\ edges' = edges /\ conn' = conn \cup WriterPairs
    BY <1>6 DEF PairWriteLoop
  <2>2. PairsSoFar'
    BY <1>0, <2>1, HistoryUnchanged DEF PairsSoFar, Covers
  <2>3. edges' = AddEdges(edges, {})
    BY <2>1 DEF AddEdges
  <2> QED
    BY <1>0, <2>1, <2>2, <2>3, PairAdds
<1>7. CASE PairDuplicateCrash
  BY <1>7, PairStop DEF PairDuplicateCrash
<1>8. CASE PairRangeReject
  <2>1. \A tm, init : ~Explained(hist, tm, init)
    BY <1>8, PairNoReject
  <2> QED
    BY <1>8, <2>1, PairStop DEF PairRangeReject
<1>9. CASE PairRangeLoop
  <2>1. /\ bpc = "range" /\ bpc' = "built" /\ hist' = hist /\ verdict' = verdict
        /\ edges' = AddEdges(edges, MissedEdges) /\ conn' = conn
        /\ \A m \in MissedUpserts : ~PairOwnUpsertMissed(m[1], m[2])
    BY <1>9 DEF PairRangeLoop, MissedEdges
  <2>2. MissedEdges \in SUBSET ValidEdges
    BY <1>0, MissedEdgesValid DEF MissedEdges
  <2>3. ASSUME NEW tm, NEW init, Explained(hist, tm, init), NEW e \in MissedEdges
        PROVE  Forward(tm, e)
    BY <2>3, MissedUpsertTiming DEF MissedEdges, Forward
  <2>4. /\ Covers(edges', SessionEdges) /\ Covers(edges', ReadEdges)
        /\ Covers(edges', MissedEdges)
    BY <1>0, <2>1, CoversAdd DEF PairsSoFar
  <2>5. PairsSoFar'
    BY <1>0, <2>1, <2>4, HistoryUnchanged DEF PairsSoFar, Covers, PairOwnUpsertMissed
  <2> QED
    BY <1>0, <2>1, <2>2, <2>3, <2>5, PairAdds
<1> QED
  BY <1>1, <1>2, <1>3, <1>4, <1>5, <1>6, <1>7, <1>8, <1>9 DEF PairBuild, PairKnown

LEMMA PairCheckInv ==
  ASSUME PairInv, RunPairChecker, args' = args
  PROVE  PairInv'
<1>1. /\ bpc = "built" /\ UNCHANGED bvars
      /\ verdict' = IF CheckerAccepts THEN "accept" ELSE "reject"
  BY DEF RunPairChecker
<1>2. hist' = hist /\ edges' = edges /\ conn' = conn /\ bpc' = bpc
  BY <1>1 DEF bvars
<1>3. PairsSoFar'
  BY <1>2, HistoryUnchanged DEF PairInv, PairsSoFar, Covers, PairOwnUpsertMissed
<1>4. verdict' = "accept" => ~Unsat(edges, conn)
  BY <1>1, CheckerSound
<1>5. Unsat(edges, conn)' = Unsat(edges, conn)
  BY <1>2
<1>6. EnoughTimestamps' = EnoughTimestamps
  BY DEF EnoughTimestamps, n_nodes_bc, n_nodes
<1>7. ASSUME NEW tm, NEW init, Explained(hist, tm, init), args.algo = 2 => EnoughTimestamps,
             PairsAgree(tm)
      PROVE  PairsAgree(tm)'
  <2>1. verdict' = "accept"
    BY <1>1, <1>7, CheckerComplete
  <2> QED
    BY <1>2, <1>7, <2>1 DEF PairsAgree, Forward, Precedes
<1> QED
  BY <1>1, <1>2, <1>3, <1>4, <1>5, <1>6, <1>7, HistoryUnchanged DEF PairInv

LEMMA PairCatchInv ==
  ASSUME PairInv, CatchReject, args' = args
  PROVE  PairInv'
<1>1. bpc = "reject" /\ UNCHANGED bvars /\ verdict' = "reject"
  BY DEF CatchReject
<1>2. hist' = hist /\ edges' = edges /\ conn' = conn /\ bpc' = bpc
  BY <1>1 DEF bvars
<1>3. PairsSoFar'
  BY <1>2, HistoryUnchanged DEF PairInv, PairsSoFar, Covers, PairOwnUpsertMissed
<1>4. EnoughTimestamps' = EnoughTimestamps
  BY DEF EnoughTimestamps, n_nodes_bc, n_nodes
<1>5. \A tm : ~PairsAgree(tm)
  BY <1>1 DEF PairsAgree
<1> QED
  BY <1>1, <1>2, <1>3, <1>4, <1>5, HistoryUnchanged DEF PairInv

\* The three checkers of the pair builder: what they accept has times.
LEMMA PairAcceptedIsSI ==
  ASSUME PairInv, verdict = "accept", Transparent(hist)
  PROVE  IsSI(hist, StrongSession)
<1>1. bpc = "built" /\ ~Unsat(edges, conn) /\ PairsSoFar /\ WellFormed(hist)
  BY DEF PairInv
<1>2. /\ ReadsFine /\ edges \in SUBSET ValidEdges
      /\ conn = ReaderPairs \cup WriterPairs /\ ValidConstraints(conn)
  BY <1>1, PairBuilt
<1>3. PICK tm \in Timings(NTxns) :
        /\ \A e \in edges : Forward(tm, e)
        /\ \A c \in conn : (\A e \in c[1] : Forward(tm, e)) \/ (\A e \in c[2] : Forward(tm, e))
  BY <1>1, <1>2, SatForward
<1>4. OneSide(tm, ReaderPairs) /\ OneSide(tm, WriterPairs)
  BY <1>2, <1>3 DEF OneSide
<1>5. Covers(edges, SessionEdges) /\ Covers(edges, ReadEdges) /\ Covers(edges, MissedEdges)
  BY <1>1 DEF PairsSoFar
<1>6. \A e \in SessionEdges \cup ReadEdges : Forward(tm, e)
  BY <1>3, <1>5, CoversForward
<1>7. ASSUME NEW m \in MissedUpserts, m[1][1] # m[2][1]
      PROVE  tm.begin[m[1][1]] < tm.commit[m[2][1]]
  <2> PICK e : e = <<m[1][1], m[2][1], "rw">>
    OBVIOUS
  <2>1. e \in MissedEdges
    BY <1>7 DEF MissedEdges
  <2>2. Forward(tm, e)
    BY <1>3, <1>5, <2>1, CoversForward
  <2>3. e[1] = m[1][1] /\ e[2] = m[2][1] /\ e[3] = "rw"
    OBVIOUS
  <2>4. e[1] # 0
    BY <1>1, <2>3, MissedUpsertsTypes, IdsFacts
  <2> QED
    BY <2>2, <2>3, <2>4 DEF Forward
<1>8. ReadTimed(tm)
  BY <1>1, <1>2, <1>6, <1>7 DEF ReadTimed
<1>9. Timed(tm)
  BY <1>4, <1>8, PairsTimed
<1>10. OwnWritesSeen
  BY <1>1, PairOwnWrites DEF PairsSoFar
<1> QED
  BY <1>1, <1>9, <1>10, TimedIsSI DEF PairsSoFar

-----------------------------------------------------------------------------
(* From the logs to the verdict. *)

\* The builder has not started.
NotStarted ==
  /\ bpc = "load" /\ verdict = "none"
  /\ edges = {} /\ so = {} /\ readfrom = {} /\ wwpairs = {} /\ chains = {} /\ conn = {}

\* check_INT rejected a transaction of the logs.
RejectedLogs == bpc = "reject" /\ lpc = "reject" /\ verdict \in {"none", "reject"}

\* The builder got the assembled history.
Started ==
  /\ lpc = "loaded" /\ ~InitialStateAsserts
  /\ hist = Assembled
  /\ args.algo = 5 => RInv /\ AInv
  /\ args.algo # 5 => PairInv

MInv ==
  LogDirectory(logs) =>
    /\ PInv
    /\ NotStarted \/ RejectedLogs \/ (bpc = "crash" /\ verdict = "none") \/ Started

\* A builder that has not started or that has stopped takes no step.
LEMMA BuilderIdle ==
  ASSUME bpc \in {"load", "reject", "crash"}
  PROVE  ~BStep /\ ~RunChecker /\ ~PairBuild /\ ~RunPairChecker
<1>1. ~BStep
  BY DEF BStep, INTReject, ParseCrash, Parse, IndexCrash, KnownStart, DirtyReadReject,
     ReadsCrash, ReadLoop, DivergeReject, WWLoop, DuplicateCrash, RangeReject, RangeLoop,
     CombineWrites, CyclicReject, InferRWEdges, Coalesce
<1>2. ~PairBuild
  BY DEF PairBuild, PairKnown, IndexCrash, KnownStart, DirtyReadReject, ReadsCrash,
     PairReadLoop, PairWriteLoop, PairDuplicateCrash, PairRangeReject, PairRangeLoop
<1> QED
  BY <1>1, <1>2 DEF RunChecker, RunPairChecker

LEMMA AssemblyUnchanged ==
  ASSUME UNCHANGED lvars
  PROVE  /\ logs' = logs /\ lpc' = lpc
         /\ Assembled' = Assembled /\ InitialStateAsserts' = InitialStateAsserts
  BY DEF lvars, Assembled, InitialStateAsserts

\* The invariants of the builders hold when they get the history.
LEMMA StartInv ==
  ASSUME LogDirectory(logs), PInv, NotStarted, HandOver, ~InitialStateAsserts
  PROVE  Started'
<1>1. /\ lpc = "loaded" /\ hist' = Assembled /\ bpc' = "known" /\ UNCHANGED lvars
      /\ args' = args /\ verdict' = "none"
      /\ edges' = {} /\ so' = {} /\ readfrom' = {} /\ wwpairs' = {} /\ chains' = {} /\ conn' = {}
  BY DEF HandOver, NotStarted
<1>2. /\ logs' = logs /\ lpc' = lpc
      /\ Assembled' = Assembled /\ InitialStateAsserts' = InitialStateAsserts
  BY <1>1, AssemblyUnchanged
<1>3. WellFormed(hist')
  BY <1>1, AssembledLists
<1>4. \A t \in Ids(hist') : ~INTError(hist'.txns[t]) /\ ~ParseAsserts(hist'.txns[t])
  BY <1>1, AssembledLists
<1>5. BInv'
  <2>1. Ids(hist') = 1..NTxns
    BY <1>3, IdsFacts
  <2>2. BTypeOK'
    BY <1>1, <2>1 DEF BTypeOK, ValidConstraints
  <2> QED
    BY <1>1, <1>3, <2>2 DEF BInv, HasReads, HasOrder, HasChains
<1>6. RInv'
  BY <1>1, <1>5 DEF RInv, Agrees
<1>7. BuiltSoFar'
  BY <1>1, <1>4 DEF BuiltSoFar, HasKnown, HasReads, HasChains
<1>8. AInv'
  BY <1>1, <1>5, <1>7 DEF AInv
<1>9. PairInv'
  <2>1. PairsSoFar'
    BY <1>1, <1>4 DEF PairsSoFar
  <2>2. \A tm : PairsAgree(tm)'
    BY <1>1 DEF PairsAgree
  <2> QED
    BY <1>1, <1>3, <2>1, <2>2 DEF PairInv
<1> QED
  BY <1>1, <1>2, <1>6, <1>8, <1>9 DEF Started

LEMMA RunInv ==
  ASSUME Started, Run
  PROVE  Started'
<1>1. UNCHANGED lvars /\ args' = args
  BY DEF Run
<1>2. /\ lpc' = lpc
      /\ Assembled' = Assembled /\ InitialStateAsserts' = InitialStateAsserts
  BY <1>1, AssemblyUnchanged
<1>3. CASE args.algo = 5
  <2>1. VStep
    BY <1>3 DEF Run
  <2>2. [VNext]_vvars
    BY <2>1 DEF VNext
  <2>3. RInv' /\ AInv'
    BY <1>3, <2>2, RStepInv, AStepInv DEF Started
  <2>4. hist' = hist
    <3>1. CASE Build
      BY <3>1 DEF Build, BStep, INTReject, ParseCrash, Parse, IndexCrash, KnownStart,
         DirtyReadReject, ReadsCrash, ReadLoop, DivergeReject, WWLoop, DuplicateCrash,
         RangeReject, RangeLoop, CombineWrites, CyclicReject, InferRWEdges, Coalesce, Stop
    <3>2. CASE CatchReject \/ RunChecker
      BY <3>2 DEF CatchReject, RunChecker, bvars
    <3> QED
      BY <2>1, <3>1, <3>2 DEF VStep
  <2> QED
    BY <1>1, <1>2, <1>3, <2>3, <2>4 DEF Started
<1>4. CASE args.algo # 5
  <2>1. PairBuild \/ CatchReject \/ RunPairChecker
    BY <1>4 DEF Run
  <2>2. PairInv
    BY <1>4 DEF Started
  <2>3. PairInv'
    BY <1>1, <2>1, <2>2, PairBuildInv, PairCatchInv, PairCheckInv
  <2>4. hist' = hist
    <3>1. CASE PairBuild
      BY <3>1 DEF PairBuild, PairKnown, IndexCrash, KnownStart, DirtyReadReject, ReadsCrash,
         PairReadLoop, PairWriteLoop, PairDuplicateCrash, PairRangeReject, PairRangeLoop, Stop
    <3>2. CASE CatchReject \/ RunPairChecker
      BY <3>2 DEF CatchReject, RunPairChecker, bvars
    <3> QED
      BY <2>1, <3>1, <3>2
  <2> QED
    BY <1>1, <1>2, <1>4, <2>3, <2>4 DEF Started
<1> QED
  BY <1>3, <1>4

LEMMA StartedUnchanged ==
  ASSUME Started, UNCHANGED mvars
  PROVE  Started'
<1>1. UNCHANGED vvars /\ UNCHANGED bvars /\ UNCHANGED lvars /\ args' = args /\ verdict' = verdict
      /\ hist' = hist
  BY DEF mvars, vvars, bvars
<1>2. /\ lpc' = lpc
      /\ Assembled' = Assembled /\ InitialStateAsserts' = InitialStateAsserts
  BY <1>1, AssemblyUnchanged
<1>3. args.algo = 5 => RInv' /\ AInv'
  BY <1>1, RStepInv, AStepInv DEF Started
<1>4. args.algo # 5 => PairInv'
  BY <1>1, PairsUnchanged DEF Started
<1> QED
  BY <1>1, <1>2, <1>3, <1>4 DEF Started

LEMMA MInitInv == MInit => MInv
<1> SUFFICES ASSUME MInit PROVE PInv /\ NotStarted
  BY DEF MInv
<1>1. PInv
  BY PlacedStart DEF MInit
<1> QED
  BY <1>1 DEF MInit, NotStarted

LEMMA MStepInv == ASSUME MInv, [MNext]_mvars PROVE MInv'
<1> DEFINE Ended == bpc = "crash" /\ verdict = "none"
<1> SUFFICES ASSUME LogDirectory(logs)'
             PROVE  PInv' /\ (NotStarted' \/ RejectedLogs' \/ Ended' \/ Started')
  BY DEF MInv
<1>1. CASE Load
  <2>1. LStep /\ UNCHANGED vvars /\ args' = args
    BY <1>1 DEF Load
  <2>2. logs' = logs /\ lpc = "load"
    BY <2>1 DEF LStep, LoadFile, LoadReject, LoadCrash, LStop
  <2>3. LogDirectory(logs)
    BY <2>2
  <2>4. PInv'
    BY <2>1, <2>3, PlacedStep DEF MInv
  <2>5. NotStarted \/ Ended
    BY <2>2, <2>3 DEF MInv, RejectedLogs, Started
  <2>6. NotStarted' \/ Ended'
    BY <2>1, <2>5 DEF NotStarted, vvars, bvars
  <2> QED
    BY <2>4, <2>6
<1>2. ASSUME UNCHANGED lvars PROVE LogDirectory(logs) /\ PInv /\ PInv' /\ lpc' = lpc
  <2>1. logs' = logs /\ lpc' = lpc
    BY <1>2, AssemblyUnchanged
  <2>2. LogDirectory(logs)
    BY <2>1
  <2> QED
    BY <1>2, <2>1, <2>2, PlacedUnchanged DEF MInv
<1>3. CASE HandOver
  <2>1. UNCHANGED lvars /\ bpc = "load" /\ lpc = "loaded" /\ verdict' = verdict
    BY <1>3 DEF HandOver
  <2>2. NotStarted
    BY <1>2, <2>1 DEF MInv, RejectedLogs, Started, RInv, BInv, BTypeOK, PairInv, PairsSoFar
  <2>3. CASE InitialStateAsserts
    BY <1>2, <1>3, <2>1, <2>2, <2>3 DEF HandOver, NotStarted
  <2>4. CASE ~InitialStateAsserts
    BY <1>2, <1>3, <2>1, <2>2, <2>4, StartInv
  <2> QED
    BY <2>3, <2>4
<1>4. CASE LoadRaises
  <2>1. /\ UNCHANGED lvars /\ bpc = "load" /\ lpc \in {"reject", "crash"} /\ verdict' = verdict
        /\ bpc' = lpc
    BY <1>4 DEF LoadRaises, Stop
  <2>2. verdict = "none"
    BY <1>2, <2>1 DEF MInv, NotStarted, RejectedLogs, Started
  <2> QED
    BY <1>2, <2>1, <2>2 DEF RejectedLogs
<1>5. CASE Run
  <2>1. /\ UNCHANGED lvars
        /\ VStep \/ PairBuild \/ CatchReject \/ RunPairChecker
    BY <1>5 DEF Run
  <2>2. CASE NotStarted \/ Ended
    <3>1. bpc \in {"load", "crash"}
      BY <2>2 DEF NotStarted
    <3>2. ~CatchReject
      BY <3>1 DEF CatchReject
    <3> QED
      BY <2>1, <3>1, <3>2, BuilderIdle DEF VStep, Build
  <2>3. CASE RejectedLogs
    <3>1. bpc = "reject"
      BY <2>3 DEF RejectedLogs
    <3>2. CatchReject
      BY <2>1, <3>1, BuilderIdle DEF VStep, Build
    <3>3. bpc' = bpc /\ verdict' = "reject"
      BY <3>2 DEF CatchReject, bvars
    <3> QED
      BY <1>2, <2>1, <2>3, <3>3 DEF RejectedLogs
  <2>4. CASE Started
    BY <1>2, <1>5, <2>1, <2>4, RunInv
  <2> QED
    BY <1>2, <2>1, <2>2, <2>3, <2>4 DEF MInv
<1>6. CASE UNCHANGED mvars
  <2>1. UNCHANGED lvars /\ UNCHANGED vvars /\ UNCHANGED bvars /\ verdict' = verdict
    BY <1>6 DEF mvars, vvars
  <2>2. CASE NotStarted
    BY <1>2, <2>1, <2>2 DEF NotStarted, bvars
  <2>3. CASE RejectedLogs
    BY <1>2, <2>1, <2>3 DEF RejectedLogs, bvars
  <2>4. CASE Ended
    BY <1>2, <2>1, <2>4 DEF bvars
  <2>5. CASE Started
    BY <1>2, <1>6, <2>1, <2>5, StartedUnchanged
  <2> QED
    BY <1>2, <2>1, <2>2, <2>3, <2>4, <2>5 DEF MInv
<1> QED
  BY <1>1, <1>3, <1>4, <1>5, <1>6 DEF MNext, MStep

\* The invariant holds in every state of main_allcases.py.
THEOREM MInvariant == MSpec => []MInv
<1>1. MInv /\ [MNext]_mvars => MInv'
  BY MStepInv
<1> QED
  BY <1>1, MInitInv, PTL DEF MSpec

LEMMA MInvRejects ==
  ASSUME MInv, LogDirectory(logs), Regular(LoggedHistory),
         args.algo = 2 => EnoughTimestamps, verdict = "reject"
  PROVE  ~IsSI(LoggedHistory, StrongSession)
<1>1. PInv /\ (RejectedLogs \/ Started)
  BY DEF MInv, NotStarted
<1>2. CASE RejectedLogs
  <2>1. PICK f \in DOMAIN logs : FileRejected(logs[f])
    BY <1>1, <1>2 DEF PInv, ParsedSoFar, RejectedLogs
  <2> QED
    BY <2>1, RejectedFile
<1>3. CASE Started
  <2> SUFFICES ASSUME IsSI(LoggedHistory, StrongSession) PROVE FALSE
    OBVIOUS
  <2>1. lpc = "loaded" /\ ~InitialStateAsserts /\ hist = Assembled
    BY <1>3 DEF Started
  <2>2. PICK pi : Renumbers(LoggedHistory, hist, pi)
    BY <1>1, <2>1, AssembledRenumbers
  <2>3. Regular(hist) /\ IsSI(hist, StrongSession)
    BY <2>2, RenumberedRegular, RenumberedSI
  <2>4. CASE args.algo = 5
    BY <1>3, <2>3, <2>4, RInvSound DEF Started, RejectedIsNotSI
  <2>5. CASE args.algo # 5
    <3>1. PairInv
      BY <1>3, <2>5 DEF Started
    <3>2. WellFormed(hist) /\ Ids(hist) = 1..NTxns
      BY <3>1, IdsFacts DEF PairInv
    <3>3. Cardinality(Ids(hist)) = NTxns
      BY <3>2, IntervalSize, NTxnsAssumption
    <3>4. PICK init \in InitialStates(hist), tm \in Timings(NTxns) :
            Explains(hist, tm, init, StrongSession)
      BY <2>3, <3>3 DEF IsSI
    <3>5. Explained(hist, tm, init)
      BY <2>3, <3>2, <3>4 DEF Explained
    <3> QED
      BY <3>1, <3>5 DEF PairInv, PairsAgree
  <2> QED
    BY <2>4, <2>5
<1> QED
  BY <1>1, <1>2, <1>3

LEMMA MInvAccepts ==
  ASSUME MInv, LogDirectory(logs), Transparent(hist), verdict = "accept"
  PROVE  IsSI(LoggedHistory, StrongSession)
<1>1. PInv /\ Started
  BY DEF MInv, NotStarted, RejectedLogs
<1>2. lpc = "loaded" /\ ~InitialStateAsserts /\ hist = Assembled
  BY <1>1 DEF Started
<1>3. PICK pi : Renumbers(hist, LoggedHistory, pi)
  BY <1>1, <1>2, AssembledRenumbers
<1>4. IsSI(hist, StrongSession)
  <2>1. CASE args.algo = 5
    BY <1>1, <2>1, AInvSound DEF Started, AcceptedIsSI
  <2>2. CASE args.algo # 5
    BY <1>1, <2>2, PairAcceptedIsSI DEF Started
  <2> QED
    BY <2>1, <2>2
<1> QED
  BY <1>3, <1>4, RenumberedSI

(***************************************************************************)
(* What main_allcases.py rejects is not snapshot isolated, for algorithms  *)
(* 1, 2 (with and without ww_order), 4 and 5, any number of files,         *)
(* transactions and keys and every order of the files: whether check_INT,  *)
(* a builder or a checker rejects, the logged history is not SI, if it is  *)
(* regular and, for algorithm 2, the timestamps have bits enough for it.   *)
(***************************************************************************)
THEOREM LogsRejectionTheorem ==
  MSpec => []((/\ LogDirectory(logs) /\ Regular(LoggedHistory)
               /\ args.algo = 2 => EnoughTimestamps) => RejectedLogsAreNotSI)
<1>1. MInv => ((/\ LogDirectory(logs) /\ Regular(LoggedHistory)
                /\ args.algo = 2 => EnoughTimestamps) => RejectedLogsAreNotSI)
  BY MInvRejects DEF RejectedLogsAreNotSI
<1> QED
  BY <1>1, MInvariant, PTL

(***************************************************************************)
(* What it accepts is snapshot isolated: the assembly loses and mixes up   *)
(* nothing that matters, and the chains, the pairs and the encodings of    *)
(* the four checkers agree about what remains, if the history that the     *)
(* builder got is transparent.                                             *)
(***************************************************************************)
THEOREM LogsAcceptanceTheorem ==
  MSpec => []((LogDirectory(logs) /\ Transparent(hist)) => AcceptedLogsAreSI)
<1>1. MInv => ((LogDirectory(logs) /\ Transparent(hist)) => AcceptedLogsAreSI)
  BY MInvAccepts DEF AcceptedLogsAreSI
<1> QED
  BY <1>1, MInvariant, PTL
=============================================================================
