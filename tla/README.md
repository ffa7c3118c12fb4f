# Viper: a TLA+ verification project

Viper decides offline whether a history, the log of the committed transactions
of a database, satisfies snapshot isolation (SI). It builds a graph of the
dependencies the reads determine, leaves the unknown version orders to
constraints, and asks a SAT solver with graph theories (MonoSAT) whether some
choice keeps the graph acyclic. The verdict is only as good as every step on
the way. This project models those steps, checks them on small instances
against a definition of SI that knows nothing of graphs, and proves for
histories of every size that the verdicts of algorithms 1, 2, 4, 5 (from the log
directory on), 6 and 8 agree with it, within the classes of histories section 4 names.

## 1. Inventory

| Component | Source (`src/src/...`) | State | Operations |
|---|---|---|---|
| Polygraph, begin/commit graph | `utils/graphs.py`, `utils/utils.py` | `edges`, session order | `add_edge(s)`, `to_BC_graph`, `_my_to_BC_graph_w_session_order` |
| Topological sort | `utils/graphs.py` `my_topo_sort` | `in_degrees`, `Q`, `sorted_arr`, `nid2rank` | two passes of Kahn's algorithm |
| k-bounded heuristic | `optimization/chain_heuristic.py`, `algos/algo_entrances.py` | `k`, `ith_k`, copies of graph and constraints | `pick_this_es`, `k_bounded_constraints`, the loop of `main_algo_6_8_12` |
| Checker of algorithms 5, 6 | `checker/checkers.py` | none | `MonoBCPolyGraphCheckerOptimized.check` |
| Operation extraction | `utils/range_utils.py` | none | `ext_writes_fn`, `ext_reads_fn`, `check_INT`, `all_index`, range queries |
| Chain builder | `buildgraph/build_graph4adyaSI_chain.py` | `g`, `readfrom`, `wwpairs`, `chains`, constraints | `create_knowngraph`, `gen_constraints` |
| Log loading and parsing | `parse/*.py`, `utils/utils.py` | `full_history`, `session_histories`, `txn_id` | `load_logs_json`, `construct_all_txns_json`, `construct_single_txn4wrrange_json`, `initial_state`; `parse` of the append logs |
| Pair builder | `buildgraph/build_graph4adyaSI.py` | `g`, edge pairs, `ext_key2writes` | `construct_graph_from_log`; baselines 0, 1, 2, 4, 9-11 |
| Checker of algorithm 4 | `checker/checkers.py` | none | `MonoBCPolyGraphChecker.check` |
| Pair heuristic | `optimization/pair_heuristic.py`, `algos/algo_entrances.py` | as the k-bounded heuristic | `k_bounded_constraints`, the loop of `main_algo_0_1_2_heuristic`; baselines 9-11 |
| Append builder | `buildgraph/build_graph4append.py`, `parse/append_parse.py` | as the chain builder | `create_knowngraph`, `gen_constraints`; algorithm 8 |
| Baseline checkers | `checker/checkers.py`, `checker/directcheckers.py` | none | `Z301Checker.check`, `MonoSAT_EdgeWeightSIChecker.check` and others |
| Selection | `main_allcases.py`, `algos/algo.py` | arguments | `get_algo`, the choice of the entrance |
| Profiler, scripts | `utils/profiler.py`, `ae/` | none that matters | |

The components call each other in one thread: parse, build, (sort, prune)*,
check. They share the graph object, which the heuristic copies before it adds
edges. `RejectException` carries a verdict from deep inside the parser, the
builder or the sort to the entrance; every other exception ends the program
without one. There is no concurrency, persistence or network. What is hard is

- order: sets, dictionaries and directories are walked in an order nobody
  chose, and `combine_writes`, `my_topo_sort` and the numbering of transactions
  depend on it;
- numbering: two numberings of begin/commit nodes, transaction ids against
  list indices against mop indices;
- guesses: the heuristic checks polygraphs that are not the one in question;
- case analysis: reads of T0, of null, of own, failed, overwritten and future
  writes, and the keys a range query does *not* return;
- numbers: the bound `k` is a float sum of terms `0.1 n` compared with `n` and
  `n - 1`; timestamps of one encoding have ten bits.

`PROJECT.json` lists each hazard at its line. What makes the components correct:
the sort's ranks are topological and it rejects only cycles; the heuristic
never changes the verdict; chains are exactly the version orders that the reads
determine; the logs are assembled without loss whatever order they are listed
in; what Viper accepts is SI and what it rejects is not, with every algorithm.

## 2. Modules

```
PolyGraph ----- TopoSort ----- KBounded --(INSTANCE)--> DirectCheck
  |  |
  |  +--- ChainBuilder ---- Viper ---- ViperHeuristic --(INSTANCE)--> KBounded
  |           ^             ^ | |
  |  History -+             | | +----- AppendBuilder
  |     |  +- SnapshotIsolation
  |     |                     +------- ViperPairs ---+
  |     +-------- LogAssembly -----------------------+--- ViperMain
  +-------------- Encodings -------------------------+

Proofs:
TopoSortProofs <- KBoundedProofs <--(INSTANCE)--+
ChainBuilderProofs <- ViperProofs <- ViperAcceptProofs <- ViperHeuristicProofs
                                     ViperAcceptProofs <- ViperMainProofs
                                     ViperAcceptProofs <- AppendProofs
```

- `PolyGraph`: transactions are numbers, 0 is T0; an edge is `<<src, dst, type>>`,
  a constraint a pair of edge sets. `AddEdges` is `add_edge` with its rule for
  parallel commit-before edges; `to_BC_graph` and `CheckerGraph` are the two
  begin/commit translations; `Sat` is what `check` asks of MonoSAT. The `Xor` of
  two conjunctions leaves single edges of the other side free, but turning them
  off never creates a cycle, so "one side fully on" is equivalent. MonoSAT is
  external: it is assumed to answer its question correctly.
- `TopoSort`: `my_topo_sort`. One action per step of the code: counting, popping,
  relaxing one edge (set order is free), the fallback, rejection, ranking. Both
  passes share the actions; `mode` tells them apart.
- `KBounded`: the loops of `main_algo_6_8_12` and `main_algo_0_1_2_heuristic`,
  which are the same but for what happens to a decided constraint: the chain
  heuristic removes it, the pair heuristic removes it from a temporary list, so
  that the checker still gets it (`decidedStay`). There the checker is
  `Z301Checker` or `MonoSAT_EdgeWeightSIChecker` (`algo.py:32`), for which the
  satisfiability of begin/commit graphs stands; `Encodings` has the encodings, and
  `ViperMain` compares them with the definition of SI. That the iterations work on
  copies of graph and constraints (`copy.deepcopy`) is built into the model:
  `Picked` and `Remaining` are computed from `edges` and `conn`, which no action
  changes. `k` is in hundredths; the i-th
  sum may be off by one hundredth either way, which covers float rounding.
- `DirectCheck`: one call of the checker; `main_algo3_5` and at the same time the
  abstract specification of `KBounded`.
- `History`: mops as records and the functions of `range_utils.py` as set
  definitions. The loops of these functions are pure and fill dictionaries; the
  definitions say what the dictionaries contain at the end. A query returns a
  key once. `'nil'` keys and values are not needed: NULL_VALUE is 0 as in
  `constants.py`, an open bound is `Nil`.
- `ChainBuilder`: `create_knowngraph` and `gen_constraints`. A loop that only
  adds to its results is one action, a loop that can raise has one more action
  per exception. `combine_writes` looks up what it has changed before and is one
  action per pair. `bpc` names the next loop, or `built`, `reject`
  (RejectException) or `crash` (assertion, TypeError). `ValidEdges`
  is what `add_edge` asserts, and that both ends are transactions of the history,
  which `is_valid_node_id` does not test (it always returns True); `BTypeOK` shows
  that the builder needs no such test.
- `Viper`, `ViperHeuristic`: algorithms 5 and 6 end to end. The second composes
  the builder with `KBounded` on the same `edges`, `so` and `conn`.
- `ViperPairs`: the pair builder of algorithms 1, 2 and 4 (and 10, 11), which
  repeats the chain builder's code up to the reads (those actions are shared)
  and then makes edge pairs in place of chains. An edge pair is a constraint
  with one edge on each side. The checker of algorithm 4 orders the writers of
  each key a second time with fresh edges; acyclicity makes both copies choose
  alike, so that the set of constraints is the union.
- `Encodings`: the two Adya encodings of the baselines as existence statements.
  `Z301Checker` has one pair of relations for all constraints, the MonoSAT one
  has edges of its own for each pair and weighs anti-dependencies. The solvers
  are taken to decide: `checkers.py:188` counts Z3's "unknown" as a rejection. Both add
  timestamps, which exist iff the required comparisons are acyclic and, for bit
  vectors, the width suffices (`EnoughTimestamps`).
- `LogAssembly`: `load_logs_json` and `construct_all_txns_json`. One action per
  file, in any order; a file is a session, or the initial transaction, which
  becomes T0. `check_INT` rejects, the assertions crash, and those about the initial
  transaction come before its `check_INT`. A directory has the
  initial transaction in a file of its own, which the code assumes
  (`wr_range_parse.py:165`).
- `ViperMain`: `main_allcases.py` from a log directory to the verdict for
  algorithms 1, 2, 4 and 5: the assembly, then the builder and checker that
  `get_algo` selects. Its reference is the history that the directory logs,
  `LoggedHistory`, numbered independently of the listing order. `LogDirectory` says
  what a directory of `NTxns` transactions is: a file for each session, at most one
  for the initial state, queries that return a key once.
- `AppendBuilder`: algorithm 8. Jepsen's list appends: a read returns the whole
  list, so that it determines a part of the version order. The first and last
  actions are those of `ChainBuilder`; the loop over the reads, the fill of
  `wwpairs` from lists and the two ways in which `combine_writes` can raise are
  its own. The verdict is that of `DirectCheck`, which `HeuristicIsSound`
  justifies. `AppendSI` is its reference: lists are the concatenation of what
  the visible transactions appended, in commit order, and of own appends.
  `ListHistory` says what Jepsen's workload issues, `TransparentLists` which
  histories hold nothing that the builder leaves out.
- `SnapshotIsolation`: the reference, not a translation. A history is SI if
  commit and begin times exist such that writers of a common key do not overlap
  and every observation returns the transaction's own last write or else the
  snapshot at its begin, absent keys included. It uses the record format of
  `History` and none of the extraction functions.
- `MC...`: instances. Definitions whose comment begins with "Mutant" are faulty
  variants of the definition below them; the project substitutes them to show
  that a property can fail. No specification uses them.

## 3. Runs

All with deadlock checking; finished runs stutter explicitly.

| Run | What it shows | Bounds |
|---|---|---|
| `topo` | ranks topological, reject and fallback justified, termination | 3 transactions, all sets of up to 3 of the wr/rw edges, sessions empty, short, long |
| `kbounded` | both heuristics implement one direct check; rejection only unpruned | 3 transactions; chains: 1 known edge and 2 constraints or 2 edges and 1 constraint; pairs of single edges; all roundings |
| `chains` | `find_chain_*` never fail, no write lost, chains = version order, cyclic reject justified | 4 transactions, one key, every read-from relation; 8 histories refused, one or two for each exception before the chains |
| `viper` | algorithm 5: accept iff SI (Adya); no SI history ends on an exception | 3 transactions, 2 keys, no logged T0: 1 to 3 point operations each; range queries alone, after a write, before a write of a returned key; one key: reads after own writes, failed writes and deletions, by deletions and insertions, and deletions that find what they write |
| `viper_main` | algorithms 1, 2, 4, 5: accept iff the logged history is SI, strong sessions; ids are indices and sessions are files in every listing order | logged T0, as writes or as a query with a dead item: 3 transactions, 2 operations, a ghost value 99; 2 transactions, one key, 31 programs; no T0: range queries, for the pair builder also before a write of a missed key; refused logs; timestamps of 3 bits for 8 events, exactly enough |
| `viper_heuristic` | algorithm 6 implements algorithm 5; every history gets a verdict | 3 transactions, one key, one or two strong sessions |
| `append` | algorithm 8: rejections and crashes only for violations; acceptance right where reads order the appends | 3 transactions of 2 processes, a failed one in the log; one list with up to 4 appends, one transaction appending two, read up to length 3, or up to 2 with a value nobody appended; two lists with one or two appends each, every order of what is read |
| `gap_null_reads` | violated: fractured null read accepted | 2 transactions |
| `gap_query_then_write` | violated: query before own write rejected | 2 transactions |
| `gap_insert_then_read` | violated: stale read after own insertion accepted | 2 transactions |
| `gap_failed_upsert` | violated: query that misses a key whose write failed rejected | 2 transactions |
| `gap_list_order` | violated: list against the known order of its appends accepted | 3 transactions, 2 lists |

Why the bounds suffice: three transactions are needed and enough for a fork of
versions, a write skew, a long fork's reader and a fractured read; four for
chains that merge from both sides and cycles found only after merging; two
known anti-dependencies and one constraint give an acyclic known graph with an
unsatisfiable polygraph, so that the loop runs through all eleven bounds. With
`n = 8` nodes the step of `k` is 0.8, so that neighbouring ranks are pruned first
and the last sums pass `n - 1`. Three log files give all six listing orders.

The violated runs are disagreements between the code and its own comments or
Readme (`findings` in `PROJECT.json`); each has correct histories of the same
form beside it. `viper_main` passes with algorithms 1 and 4 on the histories that
`gap_query_then_write` gets wrong: the two builders differ in the index they
compare. The families of the passing runs avoid exactly the situations in which
the verdict is known to be wrong, or in which nothing in the code looks at the
data:

- without a logged T0 every unwritten value is attributed to it, so the only
  unwritten value of these histories is null (`build_graph4adyaSI_chain.py:102`);
  a logged T0 has both keys, and a range query over its keys returns them
  (`all_keys` has only what transactions write);
- for algorithm 5, a query is not followed by a write of a key it missed; a read
  after an insertion returns the inserted value; a failed write and a range query
  that misses its key do not meet;
- in append logs a transaction reads a key once, before it appends to it; a list
  shows the elements of one transaction once and in order, and does not end in
  the middle of one (`TransparentLists`). `AppendAcceptedOrderIsSI` speaks of histories in which each
  neighbour in a list has itself read its predecessor's append; the others are
  what `gap_list_order` is about.

`Z301Checker` with `ww_order` is left out: it constrains list positions instead
of transactions (`checkers.py:181`). Beyond 512 transactions the ten bits of
`MONO_BV_WIDTH` do not suffice, and algorithm 2 rejects everything; the model
has the bound (`EnoughTimestamps`), the run is at it.

Fairness. The program is one sequential thread without waiting, so weak
fairness of "some step" is what an operating system gives it. No property
assumes more.

Action property: `CyclicRejectJustified`. Liveness: `TopoTerminates`, and
`GetsVerdict` for builder, sort and the loop over `k` together. Refinement:
`ImplementsDirect`, `ImplementsAlgorithm5`.

## 4. Theorems

All hold for every `NTxns`. Each inductive invariant was model-checked on the
families of the runs before it was proved.

**The sort and the heuristic**, for every set of known graphs or polygraphs over
valid edges (`ValidEdges`) and every session order:

- `TopoSortProofs`: `RanksTheorem`, `RejectTheorem`, `FallbackTheorem`,
  `TopoTypeTheorem`. The inductive invariant `TopoInv` is needed because an
  in-degree is just a number: `InDegreesCount` says it counts the set
  `Unrelaxed(v)` of predecessors whose edge has not been relaxed;
  `ZeroIffQueued` and `QueuedOnce` tie zero to having been queued exactly once;
  `PendingOfLast` says whose edges are being relaxed; `PredecessorsFirst` is the
  order itself. At the end of a short pass every unsorted node has an unsorted
  predecessor, which is the absence of acyclicity; at the end of a full pass the
  sequence is a bijection and `PredecessorsFirst` gives the ranks.
- `KBoundedProofs`: `HeuristicIsSound` (`KSpec => ImplementsDirect`),
  `RejectsUnprunedTheorem`, `KTypeTheorem`, for both heuristics. `PrunedSat`: an
  assignment for the pruned polygraph extends to the whole; where the decided
  constraints stay (`decidedStay`) it is one already, with more edges than
  needed. `FullBoundExact`: ranks lie in
  `0..n-1`, so the bound `n - 1` decides nothing. `CyclicKnownUnsat`: a cycle in
  the two-node-for-T0 numbering avoids T0 (no edge ends there) and shifts by two
  into the checker's numbering. `BoundInv` counts the bounds.

**The chain builder**, for every set of well-formed histories. `WellFormed` is
what the parser delivers: transactions numbered from 1 and made of lists, no
session with the same transaction twice in a row, queries that return a key
once.

- `ChainBuilderProofs`: `BTypeTheorem`, `FindChainTheorem`, `PartitionTheorem`,
  `ChainsFollowReadsTheorem`, `CyclicRejectTheorem`. None of these properties is
  inductive: that a pair finds its chains depends on the pairs combined before.
  `BInv` says what links them, beside the well-formedness of the history, which is a
  conjunct so that the invariant also serves `ViperMain`, where the history is not
  there at first. Once there are chains, `ChainInv` holds: neighbours
  in chains (`Linked`) and pairs still to be combined (`wwpairs`) are disjoint and
  together always `NextVersions`, and no writer stands in two places. A version has
  one successor, since `~Diverges` survived, and one predecessor, since a
  transaction has one external read of a key. So the first transaction of a pair
  that is left can have no neighbour behind it: it ends a chain; the second one
  begins one. If both are in one chain, its links and the pair are a cycle of
  `NextVersions`, which is when `CyclicReject` happens.

**The verdict**, for every set of well-formed histories, both session guarantees
and any number of keys and sessions:

- `ViperProofs`: `RejectionTheorem`, `VSafety => [](Regular(hist) =>
  RejectedIsNotSI)`, and `CrashTheorem`, `VSafety => []((Regular(hist) /\
  AssertionsHold(hist)) => CrashIsNotSI)`. `RInv` carries every timing that explains
  the history along with the builder: as long as one exists, each edge added so
  far points forward in it, and the builder has not rejected. At the end one side
  of each constraint points forward as well, because the timing orders the writers
  of a key and so the chains, which cannot interleave (a chain's neighbours
  read each other). The times map the graph into the numbers, so it has no cycle.
  `NotCrashed` does the same for exceptions: with unique writes a value has one
  writer (`UniqueWriter`), and a transaction cannot read its own write from outside,
  since the writer it reads committed before it began (`NoOwnExternalRead`).
  `AssertionsHold` leaves out the histories that the assertions about single mops
  refuse whether or not they are SI: failed deletions and first insertions, keys
  outside their range, results of open ranges.
- `ViperAcceptProofs`: `AcceptanceTheorem`, `VSafety => [](Transparent(hist) =>
  AcceptedIsSI)`. `AInv` adds to `BInv` what the finished loops have put into
  `edges` and `conn` (`BuiltSoFar`: `SessionEdges`, `ReadEdges`, `MissedEdges`,
  `InferredEdges`, `ChainConstraints`), which `edges` alone does not tell. The
  checker's acyclic graph is put in a linear order (`OrdersPrefix`, extended one
  node at a time), begin and commit times are read off from it (`Timed`), and the
  edges show that every observation is that of the snapshot (`TimedIsSI`). Of the
  builder this needs only that the times order the writers of each key and put a
  reader before the versions after the one it read: `ChainTimed` gives that for the
  chains, `PairsTimed` (below) for the pairs.
- `ViperHeuristicProofs`: `Algorithm6ImplementsAlgorithm5`
  (`HSpec => ImplementsAlgorithm5`) and with it `HeuristicRejectionTheorem` and
  `HeuristicAcceptanceTheorem`. `HInv` says that the builder hands over a polygraph
  that meets the assumptions of `KBounded`, so that `KInv` and its step lemmas
  apply from there on.

The two classes, defined in `SnapshotIsolation`, say of which histories the
verdict can be relied on. They speak of the history alone and are the exact
counterpart of the gaps of section 3; `MCViper` assumes both, and
`AssertionsHold`, of all its histories, so that TLC shows them to be inhabited.

| Part of the class | Excludes | Why |
|---|---|---|
| `UniqueWrites`, `NoInitialWrites` | two writes of one value of a key; writes of T0's value | the paper's assumption: a value identifies its writer |
| `DeletionsSucceed` | failed deletions | `ext_writes_fn` counts their null |
| `InsertsUnobserved` | observing a key after inserting it | `gap_insert_then_read` |
| `MissedUpsertsCount` | failed or later own upserts of a key a query misses | `gap_failed_upsert`, `gap_query_then_write` |
| `NoAppends`, `InsertsFirst` | appends; insertions of a key accessed before | nothing looks at them |
| `InitialReadsSensible` | unwritten values that differ or are written elsewhere; nulls of keys a logged T0 lacks | without logged T0 every unwritten value is T0's; `gap_null_reads` |
| `QueriesSensible` | queries that miss a key of T0 or an insertion, or whose transaction's id is too small for line 189 | `all_keys` has only upserts; an id is compared with a mop index |

**List appends**, for every set of well-formed histories, both session guarantees
and any number of lists:

- `AppendProofs`: `AppendRejectionTheorem` and `AppendCrashTheorem`, about `ASpec`,
  for the histories of the class `ListHistory`: reads and appends only, and a value
  is appended to a list by one transaction (what Jepsen's workload issues; `MCAppend`
  assumes it of all its histories). `ListInv` follows the builder with every timing
  that explains the lists, as `RInv` does. A timing makes each list that was read
  the concatenation of what was appended in commit order (`FlattenFacts`,
  `ListWriters`), so neighbours in a list, and the last one in a list and a reader
  that appends too, are neighbours in the time order of the key's appenders
  (`ListOrderTiming`). Hence `wwpairs` never diverges (`OrderUnique`), and, unlike in
  the chain builder, a crash in `combine_writes` is excluded without a test for
  cycles: a pair left over joins the end of one chain to the begin of another
  (`AllJoinable`), since times go up along a chain.
- `AppendAcceptanceTheorem`, about `ASpec`, is the converse: what algorithm 8 accepts
  is SI if `ListOrder \subseteq AppendReadFrom` (the condition of
  `AppendAcceptedOrderIsSI`; `gap_list_order` shows that it cannot be dropped) and the
  history is in `ListHistory` and `TransparentLists`, which excludes three things the
  builder does not look at: a read of a key after an own append or after a read of
  another value, a value appended twice by one transaction, and a list that shows one
  transaction's elements out of order, repeated, or not all of the last one's. `MCAppend` assumes both
  classes of all its histories.

  `ListAcceptInv` follows the builder whatever the lists are: the graph has the edges
  of the loops that were run (`ListBuilt`), and an accepted one is satisfiable, so
  that there are times along which the known edges and one side of each constraint
  point forward (`AcceptedListTimed`). The links of a chain are in `ListOrder`, hence
  wr edges, so chains go forward in time; with the constraints, so do all appenders of
  a list (`AppendersTimed`). A list that was read consists, in the order of the
  commits and of the mops, of exactly what was appended before the reader began
  (`ReadWriters`: wr edges for order and visibility, the rw edges of `UnseenEdges` for
  completeness), and so does the list of the snapshot (`SnapshotWriters`). A value has
  one place among the appends, so two such lists are equal (`SameWriters`).

**From the logs to the verdict**, for every set of command lines with algorithms 1
(without `ww_order`), 2, 4 and 5, any number of files, transactions and keys, every
order in which the files are listed and both session guarantees:

- `ViperMainProofs`, about `MSpec`: `IdsTheorem` and `SessionsTheorem` for every
  directory in which the initial transaction is alone in its file (`InitialAlone`,
  what `wr_range_parse.py:165` assumes); `LogsRejectionTheorem`, that what is rejected
  is not SI as it was logged, for every `LogDirectory` with a `Regular` history (and,
  for algorithm 2, `EnoughTimestamps`); `LogsAcceptanceTheorem`, that what is accepted
  is SI as it was logged, for every `LogDirectory` whose assembled history is
  `Transparent`. `Transparent` is asked of the assembled history, since
  `QueriesSensible` compares with the ids the run gives (line 189).

  The argument has four parts.

  1. *Assembly.* `LInv`: ids are positions (`Numbered`), the sessions are the files
     read so far (`SessionsSoFar`), and no id is in two places (`EachInOneSession`).
     `PInv` adds which position of which file each id stands for, as a bijection
     (`PlacedBy`), which the loop extends file by file. At the end there are exactly
     `NTxns` ids (`AssembledLists`), and the assembled history is the logged one under
     a permutation of ids (`AssembledRenumbers`).
  2. *Numbering.* `RenumberedSI`, `RenumberedRegular`: a permutation of ids changes
     neither. A time for each transaction is carried over by the permutation.
     With `RejectedFile` this covers `check_INT`: a file it rejects has a transaction
     that contradicts itself, in every timing.
  3. *Pair builder.* `PairInv` follows the builder: `PairsSoFar` says what the finished
     loops have put into the graph. `PairsForward`: in a timing that explains the
     history every known edge and one side of each pair point forward (`OneSide`).
     `PairsTimed`: conversely an order of the checker's graph decides each pair,
     which orders the writers of a key and puts a reader before the later ones.
  4. *Encodings.* `EncodingsSat`: a solution of `Z301Sat` or `EdgeWeightSat` is one of
     `Sat`, because the timestamps alone already forbid the checker's cycles
     (`SameCycles`: the two numberings of begin/commit nodes agree). Conversely
     (`ForwardZ301`, `ForwardEdgeWeight`) times along which every edge and one side
     of each pair point forward satisfy both encodings: wr, ww and cb edges lead only
     to later transactions (`ClosureForward`), so that no path goes back with at most
     one anti-dependency; for the relations that all pairs of `Z301Checker` share,
     the other side of no pair points forward (`OneSideOnly`).

  `MInv` puts these together: before the hand-over the assembly's invariant holds
  and nothing is built (`NotStarted`), a rejection by the parser is of a directory
  with a rejected file (`RejectedLogs`), and after the hand-over (`Started`) the
  invariant of the algorithm's builder holds of the assembled history.

  TLC evaluates `LogDirectory` on all directories of `MCViperMain` (an assumption of
  that module); among the reached states are accepting and rejecting ones of each
  algorithm that satisfy the hypotheses of the theorems.

Only model-checked: liveness (`TopoTerminates`, `GetsVerdict`), since fairness is
outside the prover. Every invariant and every safety property of the passing runs is
stated by a theorem.

## 5. Not modelled

- Text decoding, file output, profiling, configuration files and the experiment
  scripts: I/O without influence on a verdict. MonoSAT and Z3 themselves.
- `hasFinal`: a final query with results fails with a TypeError in `ext_reads_fn`
  (`range_utils.py:216`, comparison with `None`) before its handling is reached.
- The EDN path of the workloads other than append: `load_logs_edn` calls
  `is_edn_log` with one argument of two (`utils.py:575`) and raises a TypeError.
- Algorithms that raise before they solve anything: 0 and 9
  (`Z3GeneralSIChecker.check` takes three arguments, its callers pass four), 3 and
  12 (`self.g` at `checkers.py:383` does not exist), 7 (no entrance in
  `main_allcases.py`).
- `ww_order` with algorithm 1, the `debug` option, ":info" lines of append logs
  (dropped by the code; the reference would need transactions that may have
  committed).
- Unused code: `all_reads_fn`, `topological_sort`, the DFS cycle detectors,
  `directcheckers.py`, `wr_parse.py`.

## 6. Plan

What can be modelled of the program is, and the safety properties the runs check are
proved. What remains is to follow the code: the hazards without a property in
`PROJECT.json` are places where it would have to change before there is something to
state.
