------------------------------- MODULE Viper -------------------------------
(***************************************************************************)
(* Viper end to end with algorithm 5 (main_algo3_5): build the polygraph   *)
(* of a history, then ask the checker.  A RejectException of the builder   *)
(* is the verdict False; any other exception ends the program without one. *)
(***************************************************************************)
EXTENDS ChainBuilder, SnapshotIsolation

VARIABLE verdict    \* "none", "accept" or "reject"

vvars == <<bvars, verdict>>

Direct == INSTANCE DirectCheck

VInit == BInit /\ verdict = "none"

Build == BStep /\ UNCHANGED verdict

\* except RejectException as e: result = False
CatchReject == /\ bpc = "reject"
               /\ verdict = "none"
               /\ verdict' = "reject"
               /\ UNCHANGED bvars

\* result = checker.check(g, conn)
RunChecker == /\ bpc = "built"
              /\ Direct!Check
              /\ UNCHANGED bvars

VStep == Build \/ CatchReject \/ RunChecker

VDone == verdict # "none" \/ bpc = "crash"

VNext == VStep \/ (VDone /\ UNCHANGED vvars)

VSafety == VInit /\ [][VNext]_vvars

\* The program is one sequential thread that runs to its end.
VSpec == VSafety /\ WF_vvars(VStep)

-----------------------------------------------------------------------------
(***************************************************************************)
(* Readme: Viper "checks snapshot isolation of a set of transactions".     *)
(* What it accepts is SI ...                                               *)
(***************************************************************************)
AcceptedIsSI == verdict = "accept" => IsSI(hist, StrongSession)

(***************************************************************************)
(* ... and what it rejects is not: dirty reads, diverging versions, cyclic *)
(* version orders, unseen own writes and unsatisfiable polygraphs are all  *)
(* violations.                                                             *)
(***************************************************************************)
RejectedIsNotSI == verdict = "reject" => ~IsSI(hist, StrongSession)

(***************************************************************************)
(* Only RejectException is caught: the assertions of the read loop (a      *)
(* value has one writer, add_edge's src != dst where a transaction seems   *)
(* to read its own write from outside) and of the write index end the run  *)
(* without a verdict.  No SI history ends so, whatever its transactions    *)
(* read after or in their own writes, deletions and insertions, as long as *)
(* its mops are ones that the parser takes (AssertionsHold) and values     *)
(* name their writers (Regular).                                           *)
(***************************************************************************)
CrashIsNotSI == bpc = "crash" => ~IsSI(hist, StrongSession)

\* The assertions of check_INT and ext_index about single mops hold.
AssertionsHold(h) ==
  \A t \in Ids(h) : ~ParseAsserts(h.txns[t]) /\ ~IndexAsserts(h.txns[t])

\* Every history that can be parsed gets a verdict.
GetsVerdict == <>(verdict # "none")
=============================================================================
