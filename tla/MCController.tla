---------------------------- MODULE MCController ----------------------------
(***************************************************************************)
(* One staged job ahead of one legacy job.  The only step of the staged    *)
(* job stands for its whole chain: its output is the result, and its       *)
(* completion delivers.                                                    *)
(***************************************************************************)
EXTENDS Controller, TLC

CONSTANTS staged, legacy, report

MCStep == {report}
MCJobOf == report :> staged
MCOrdinal == report :> 1
MCDependsOn == report :> {}
MCQueue == <<staged, legacy>>

\* Bound: the staged job is not paused; module StagedWorkflow has that.
NotPaused == \A j \in Job : ~paused[j]

\* The legacy job alone.
LegacyJobOf == [s \in {} |-> legacy]
LegacyOrdinal == [s \in {} |-> 1]
LegacyDependsOn == [s \in {} |-> {}]
LegacyQueue == <<legacy>>
=============================================================================
