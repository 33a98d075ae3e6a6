-------------------------- MODULE MCStagedWorkflow --------------------------
(***************************************************************************)
(* StagedWorkflow with one staged job and two of its five stages:          *)
(* "validate", whose output is the result, and "deliver", which depends on *)
(* it and which a configuration submits with the job or leaves to be       *)
(* appended, behind a gate or not.                                         *)
(***************************************************************************)
EXTENDS StagedWorkflow, TLC

CONSTANTS j1, validate, deliver

ChainStep == {validate, deliver}
ChainJobOf == [s \in ChainStep |-> j1]
ChainOrdinal == validate :> 1 @@ deliver :> 2
ChainDependsOn == validate :> {} @@ deliver :> {validate}

\* Bound: what a resumed job does as one opaque execution is followed up in its first
\* revision and with first attempts of its steps, which that execution does not read.
OpaqueBound ==
    \A j \in Job : resumed[j] > 0 =>
        revision[j] <= 1 /\ \A s \in Step : Len(stepAttempts[s]) <= 1
=============================================================================
