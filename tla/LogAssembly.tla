---------------------------- MODULE LogAssembly ----------------------------
(***************************************************************************)
(* From a directory of JSON logs to full_history and the session           *)
(* histories: load_logs_json of utils/utils.py and construct_all_txns_json *)
(* with construct_single_txn4wrrange_json of parse/wr_range_parse.py.      *)
(*                                                                         *)
(* A log directory is a function from file names to sequences of logged    *)
(* transactions [initial, value], value a sequence of mops.  The files are *)
(* read in the order of os.listdir, which is arbitrary, and numbered as    *)
(* they come.  The transaction that logs the initial database has a file   *)
(* of its own; its value is a series of writes or one global range query.  *)
(***************************************************************************)
EXTENDS History, SequencesExt

VARIABLES
  logs,             \* the directory
  unread,           \* names of the files still to be parsed
  full_history,     \* [id, value] records; full_history[0] is t0 below
  t0,               \* the value of full_history[0]: {} for None, else {mops}
  session_histories,\* sequence of sequences of ids
  txn_id,           \* the next id
  lpc               \* "load", "loaded", "reject" or "crash"

lvars == <<logs, unread, full_history, t0, session_histories, txn_id, lpc>>

LStart(dir) ==
  /\ logs = dir
  /\ unread = DOMAIN dir
  /\ full_history = << >>
  /\ t0 = {}
  /\ session_histories = << >>
  /\ txn_id = 1
  /\ lpc = "load"

\* A transaction that logs the initial state as one query of everything.
IsGlobalQuery(value) == Len(value) = 1 /\ value[1].f = "range"

\* Mutant: the dead items of the query are forgotten.
InitialWrites_Live(value) ==
  IF IsGlobalQuery(value)
  THEN SetToSeq({[f |-> "w", k |-> p[1], v |-> p[2], succ |-> TRUE] : p \in value[1].rs})
  ELSE value

\* The query becomes a write of each item it returned, dead ones included.
InitialWrites(value) ==
  IF IsGlobalQuery(value)
  THEN SetToSeq({[f |-> "w", k |-> p[1], v |-> p[2], succ |-> TRUE] :
                   p \in RangeItems(value[1])})
  ELSE value

\* The assertions on an initial transaction: a query has no bounds, anything
\* else consists of writes.
InitialAsserts(value) ==
  IF IsGlobalQuery(value) THEN value[1].k1 # Nil \/ value[1].k2 # Nil
  ELSE \E j \in DOMAIN value : value[j].f # "w"

Value(txn) == IF txn.initial THEN InitialWrites(txn.value) ELSE txn.value

\* The id of the i-th transaction of a file.
AssignId(file, i) ==
  IF file[i].initial THEN 0
  ELSE txn_id + Cardinality({j \in 1..i-1 : ~file[j].initial})

is_initial_history(file) == Len(file) = 1 /\ file[1].initial

\* The directories that the numbering is made for: lists of transactions, and
\* the initial one in no file with others.
InitialAlone(dir) ==
  \A name \in DOMAIN dir :
    LET file == dir[name]
    IN  /\ Len(file) \in Nat /\ DOMAIN file = 1..Len(file)
        /\ is_initial_history(file) \/ \A i \in DOMAIN file : ~file[i].initial

FileAsserts(file) ==
  \E i \in DOMAIN file :
    \/ file[i].initial /\ InitialAsserts(file[i].value)
    \/ ParseAsserts(Value(file[i]))

\* An initial transaction passes its assertions before check_INT sees it.
FileRejected(file) ==
  \E i \in DOMAIN file :
    /\ ~(file[i].initial /\ InitialAsserts(file[i].value))
    /\ INTError(Value(file[i]))

\* The transaction replaces T0's entry and joins no session.
LoadInitial(file) ==
  /\ is_initial_history(file)
  /\ t0' = {InitialWrites(file[1].value)}
  /\ UNCHANGED <<full_history, session_histories, txn_id>>

\* Mutant: the ids of a file start with 1.
LoadSession_Restart(file) ==
  /\ ~is_initial_history(file)
  /\ full_history' =
       full_history \o [i \in DOMAIN file |-> [id |-> i, value |-> file[i].value]]
  /\ session_histories' = Append(session_histories, [i \in DOMAIN file |-> i])
  /\ txn_id' = 1
  /\ UNCHANGED t0

LoadSession(file) ==
  /\ ~is_initial_history(file)
  /\ full_history' =
       full_history \o
         [i \in DOMAIN file |-> [id |-> AssignId(file, i), value |-> Value(file[i])]]
  /\ session_histories' =
       Append(session_histories, [i \in DOMAIN file |-> AssignId(file, i)])
  /\ txn_id' = txn_id + Cardinality({j \in DOMAIN file : ~file[j].initial})
  /\ UNCHANGED t0

\* One turn of the loop over logs, without an exception.
LoadFile ==
  /\ lpc = "load"
  /\ \E name \in unread :
       /\ ~FileAsserts(logs[name]) /\ ~FileRejected(logs[name])
       /\ LoadInitial(logs[name]) \/ LoadSession(logs[name])
       /\ unread' = unread \ {name}
  /\ lpc' = IF unread' = {} THEN "loaded" ELSE "load"
  /\ UNCHANGED logs

LStop(how) ==
  /\ lpc' = how
  /\ UNCHANGED <<logs, unread, full_history, t0, session_histories, txn_id>>

\* "INT error"
LoadReject == /\ lpc = "load"
              /\ \E name \in unread : FileRejected(logs[name])
              /\ LStop("reject")

LoadCrash == /\ lpc = "load"
             /\ \E name \in unread : FileAsserts(logs[name])
             /\ LStop("crash")

LStep == LoadFile \/ LoadReject \/ LoadCrash

-----------------------------------------------------------------------------
(* What the builders get. *)

\* utils.initial_state: the last write of each key.
initial_state(writes) ==
  [key \in {m.k : m \in ToSet(writes)} |->
     writes[CHOOSE j \in DOMAIN writes :
              writes[j].k = key /\ \A i \in DOMAIN writes : writes[i].k = key => i <= j].v]

\* utils.initial_state asserts that each write succeeded.
InitialStateAsserts == \E writes \in t0 : \E m \in ToSet(writes) : ~m.succ

Assembled ==
  [txns |-> [i \in DOMAIN full_history |-> full_history[i].value],
   sessions |-> ToSet(session_histories),
   hasInit |-> t0 # {},
   init |-> IF t0 = {} THEN << >> ELSE initial_state(CHOOSE writes \in t0 : TRUE)]

-----------------------------------------------------------------------------
(***************************************************************************)
(* The builders use ids and positions of full_history as if they were the  *)
(* same (the assertion "txn_id == len(full_history)" is commented out).    *)
(* They are, whatever the order of the files, and the next id is the next  *)
(* free position.                                                          *)
(***************************************************************************)
IdsAreIndices ==
  /\ \A i \in DOMAIN full_history : full_history[i].id = i
  /\ lpc = "load" => txn_id = Len(full_history) + 1

(***************************************************************************)
(* Nothing is lost, repeated or mixed up by the assembly: the sessions,    *)
(* with their ids replaced by the transactions that have them, are the     *)
(* files without the initial transaction's, and every transaction of       *)
(* full_history is in one session, once.                                   *)
(***************************************************************************)
SessionsAreFiles ==
  lpc = "loaded" =>
    /\ {[i \in DOMAIN s |-> full_history[s[i]].value] : s \in ToSet(session_histories)}
         = {[i \in DOMAIN logs[name] |-> logs[name][i].value] :
              name \in {name \in DOMAIN logs : ~is_initial_history(logs[name])}}
    /\ \A t \in DOMAIN full_history :
         Cardinality({p \in (DOMAIN session_histories) \X (1..Len(full_history)) :
                        /\ p[2] \in DOMAIN session_histories[p[1]]
                        /\ session_histories[p[1]][p[2]] = t}) = 1
=============================================================================
