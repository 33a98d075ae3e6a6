--------------------------- MODULE StagedWorkflow ---------------------------
(***************************************************************************)
(* Staged jobs: the tables "workflow_jobs", "workflow_steps",              *)
(* "step_attempts", "artifacts" and "result_events", and the transactions  *)
(* of internal/store/workflow.go and result_events.go over them, together  *)
(* with the jobs table of module JobQueue that they share.                 *)
(*                                                                         *)
(* Each action is one transaction (SaveStepArtifact, which writes a file   *)
(* between two statements, is two).  Callers are not modelled here: they   *)
(* may pass any step, any attempt and any artifact, stale or not, in any   *)
(* order.  An attempt is named by its ordinal and an artifact by the step  *)
(* and the attempt that produced it.  A definition marked "Variant" is a   *)
(* plausible slip in the definition that follows it; no action uses it.    *)
(***************************************************************************)
EXTENDS JobQueue

CONSTANTS
    Step,               \* identities of workflow steps
    JobOf,              \* the job a step belongs to
    Ordinal,            \* workflow_steps.ordinal
    DependsOn,          \* the steps named in dependencies_json
    InitialStep,        \* steps submitted with their job; the others may be appended
    ManualGate,         \* steps whose gate_policy is manual
    ManualCheckpoint,   \* jobs submitted with manual_checkpoint
    Validate,           \* steps with key "validate", whose output is the result
    Deliver,            \* steps with key "deliver"
    NoArtifact,         \* the empty output_artifact_id
    AttemptBound,       \* bound on the attempts explored per step
    RevisionBound       \* bound on the request revisions explored per job

Artifact == Step \X Nat

ASSUME WorkflowAssumption ==
    /\ JobOf \in [Step -> Job]
    /\ Ordinal \in [Step -> Nat \ {0}]
    /\ DependsOn \in [Step -> SUBSET Step]
    /\ InitialStep \subseteq Step
    /\ \A s, t \in Step : JobOf[s] = JobOf[t] /\ Ordinal[s] = Ordinal[t] => s = t
    \* validateSteps: a dependency is an earlier step of the same job
    /\ \A s \in Step : \A d \in DependsOn[s] : JobOf[d] = JobOf[s] /\ Ordinal[d] < Ordinal[s]
    \* the submitted steps take the first ordinals
    /\ \A s \in InitialStep : \A t \in Step :
          JobOf[t] = JobOf[s] /\ Ordinal[t] < Ordinal[s] => t \in InitialStep
    /\ Validate \subseteq Step /\ Deliver \subseteq Step
    \* UNIQUE(job_id,step_key)
    /\ \A s, t \in Validate : JobOf[s] = JobOf[t] => s = t
    /\ NoArtifact \notin Artifact
    /\ AttemptBound \in Nat /\ RevisionBound \in Nat

VARIABLES
    paused,         \* workflow_jobs.paused
    revision,       \* workflow_jobs.request_revision
    stepState,      \* workflow_steps.state, "absent" before the row exists
    stepAttempts,   \* step_attempts of the step: status and pinned inputs, by ordinal
    currentAttempt, \* workflow_steps.current_attempt_id, 0 when empty
    pinned,         \* workflow_steps.pinned_inputs_json, as far as steps produced the inputs
    output,         \* workflow_steps.output_artifact_id
    saving,         \* artifact files written, or about to be, by SaveStepArtifact calls in flight
    artifacts,      \* rows of artifacts that belong to a step attempt
    results         \* rows of result_events

stepVars == <<stepState, stepAttempts, currentAttempt, pinned, output>>
artifactVars == <<saving, artifacts>>
flowVars == <<paused, revision>>
stagedVars == <<flowVars, stepVars, artifactVars, results>>
vars == <<queueVars, stagedVars>>

StepState == {"absent", "pending", "ready", "running", "waiting_input", "waiting_auth",
              "retry_wait", "completed", "failed", "cancelled", "superseded"}
StepAttemptStatus == {"running", "completed", "failed", "waiting_input", "waiting_auth",
                      "retry_wait", "cancelled", "interrupted"}
StepAttempt == [status : StepAttemptStatus, inputs : SUBSET Artifact]
DeliveryStatus == {"available", "sending", "delivered", "unconfirmed", "failed"}
Result == [step : Step, revision : Nat, artifact : Artifact, delivery : DeliveryStatus]

TypeOK ==
    /\ QueueTypeOK
    /\ paused \in [Job -> BOOLEAN]
    /\ revision \in [Job -> Nat]
    /\ stepState \in [Step -> StepState]
    /\ stepAttempts \in [Step -> Seq(StepAttempt)]
    /\ currentAttempt \in [Step -> Nat]
    /\ pinned \in [Step -> SUBSET Artifact]
    /\ output \in [Step -> Artifact \cup {NoArtifact}]
    /\ saving \subseteq Artifact
    /\ artifacts \subseteq Artifact
    /\ results \subseteq Result

Init ==
    /\ QueueInit
    /\ paused = [j \in Job |-> FALSE]
    /\ revision = [j \in Job |-> 0]
    /\ stepState = [s \in Step |-> "absent"]
    /\ stepAttempts = [s \in Step |-> <<>>]
    /\ currentAttempt = [s \in Step |-> 0]
    /\ pinned = [s \in Step |-> {}]
    /\ output = [s \in Step |-> NoArtifact]
    /\ saving = {}
    /\ artifacts = {}
    /\ results = {}

-----------------------------------------------------------------------------
(***************************************************************************)
(* Reading the tables                                                      *)
(***************************************************************************)

StepsOf(j) == {s \in Step : JobOf[s] = j /\ stepState[s] # "absent"}

Open(j) == status[j] = "staged" /\ ~paused[j]

\* resolvedInputs: every dependency is completed and has an output.
Resolved(s) == \A d \in DependsOn[s] : stepState[d] = "completed" /\ output[d] # NoArtifact

\* The inputs a step works on: what it has pinned before stays pinned, and the present
\* outputs of its dependencies are added.
Inputs(s) == pinned[s] \cup {output[d] : d \in DependsOn[s]}

\* A step that ReadyStep would promote, were it the first to be looked at.
Promotable(s) == stepState[s] \in {"pending", "retry_wait"} /\ Resolved(s)

Gated(s) == s \in ManualGate \/ (JobOf[s] \in ManualCheckpoint /\ Ordinal[s] > 1)

\* The attempt a of step s may still publish: it is current and running, and so is its step.
Live(s, a) ==
    /\ status[JobOf[s]] = "staged"
    /\ stepState[s] = "running"
    /\ currentAttempt[s] = a
    /\ a \in 1..Len(stepAttempts[s])
    /\ stepAttempts[s][a].status = "running"

AllStepsCompleted(j) == \A s \in StepsOf(j) : stepState[s] = "completed"

ResultsOf(j, rs) == {e \in rs : JobOf[e.step] = j}

-----------------------------------------------------------------------------
(***************************************************************************)
(* Admission and revision of a workflow                                    *)
(***************************************************************************)

SubmitStaged(j) ==
    /\ status[j] = "none"
    /\ \E s \in InitialStep : JobOf[s] = j
    /\ status' = [status EXCEPT ![j] = "staged"]
    /\ revision' = [revision EXCEPT ![j] = 1]
    /\ stepState' = [s \in Step |-> IF s \in InitialStep /\ JobOf[s] = j
                                    THEN "pending" ELSE stepState[s]]
    /\ UNCHANGED <<attempts, current, delayed, diagnostic, resumed, limit, paused,
                   stepAttempts, currentAttempt, pinned, output, artifactVars, results>>

\* New steps take the ordinals that follow the existing ones, whatever their state.
AppendSteps(j, new) ==
    /\ status[j] = "staged"
    /\ \A s \in StepsOf(j) : stepState[s] # "running"
    /\ new # {}
    /\ \A s \in new : JobOf[s] = j /\ stepState[s] = "absent"
    /\ \A s \in new : \A t \in Step :
          JobOf[t] = j /\ Ordinal[t] < Ordinal[s] => t \in StepsOf(j) \cup new
    /\ stepState' = [s \in Step |-> IF s \in new THEN "pending" ELSE stepState[s]]
    /\ UNCHANGED <<queueVars, flowVars, stepAttempts, currentAttempt, pinned, output, artifactVars, results>>

\* Variant: a send in progress does not hold the new revision back.
NoWorkInProgress(j) == \A s \in StepsOf(j) : stepState[s] # "running"

NothingInProgress(j) ==
    /\ \A s \in StepsOf(j) : stepState[s] # "running"
    /\ \A e \in ResultsOf(j, results) : e.delivery # "sending"

\* A new request revision retires every step, completed ones included.
SupersedeJobRevision(j, next) ==
    /\ status[j] = "staged"
    /\ next > revision[j]
    /\ NothingInProgress(j)
    /\ revision' = [revision EXCEPT ![j] = next]
    /\ stepState' = [s \in Step |->
           IF JobOf[s] = j /\ stepState[s] \notin {"absent", "cancelled", "superseded"}
           THEN "superseded" ELSE stepState[s]]
    /\ UNCHANGED <<queueVars, paused, stepAttempts, currentAttempt, pinned, output, artifactVars, results>>

SetPaused(j, p) ==
    /\ status[j] = "staged"
    /\ paused' = [paused EXCEPT ![j] = p]
    /\ UNCHANGED <<queueVars, revision, stepVars, artifactVars, results>>

-----------------------------------------------------------------------------
(***************************************************************************)
(* One step from eligible to ended                                         *)
(***************************************************************************)

\* ReadyStep promotes only the earliest eligible step, and stops at one that is
\* already ready.  A gated step is parked until the owner approves it.
ReadyStep(s) ==
    /\ Open(JobOf[s])
    /\ Promotable(s)
    /\ \A t \in StepsOf(JobOf[s]) :
          Ordinal[t] < Ordinal[s] => stepState[t] # "ready" /\ ~Promotable(t)
    /\ stepState' = [stepState EXCEPT ![s] = IF Gated(s) THEN "waiting_input" ELSE "ready"]
    /\ pinned' = [pinned EXCEPT ![s] = Inputs(s)]
    /\ UNCHANGED <<queueVars, flowVars, stepAttempts, currentAttempt, output, artifactVars, results>>

ApproveStep(s) ==
    /\ Open(JobOf[s])
    /\ Resolved(s)
    /\ stepState[s] = "waiting_input"
    /\ stepState' = [stepState EXCEPT ![s] = "ready"]
    /\ UNCHANGED <<queueVars, flowVars, stepAttempts, currentAttempt, pinned, output, artifactVars, results>>

ClaimStep(s, expected) ==
    /\ Open(JobOf[s])
    /\ stepState[s] = "ready"
    /\ currentAttempt[s] = expected
    /\ Resolved(s)
    /\ Len(stepAttempts[s]) < AttemptBound
    /\ stepAttempts' = [stepAttempts EXCEPT ![s] =
           Append(@, [status |-> "running", inputs |-> Inputs(s)])]
    /\ pinned' = [pinned EXCEPT ![s] = Inputs(s)]
    /\ currentAttempt' = [currentAttempt EXCEPT ![s] = Len(stepAttempts[s]) + 1]
    /\ stepState' = [stepState EXCEPT ![s] = "running"]
    /\ UNCHANGED <<queueVars, flowVars, output, artifactVars, results>>

\* SaveStepArtifact, up to the write of the private file.
BeginSaveArtifact(s, a) ==
    /\ Live(s, a)
    /\ saving' = saving \cup {<<s, a>>}
    /\ UNCHANGED <<queueVars, flowVars, stepVars, artifacts, results>>

\* Variant: the row is inserted without looking at the attempt again.
InsertedAnyway(s, a) == {<<s, a>>}

\* The conditional INSERT: a late child leaves no more than an unreferenced file.
Inserted(s, a) == IF Live(s, a) THEN {<<s, a>>} ELSE {}

\* SaveStepArtifact, after the write of the private file.
EndSaveArtifact(s, a) ==
    /\ <<s, a>> \in saving
    /\ saving' = saving \ {<<s, a>>}
    /\ artifacts' = artifacts \cup Inserted(s, a)
    /\ UNCHANGED <<queueVars, flowVars, stepVars, results>>

\* Variant: every way an attempt may end is taken for a status of the step.
AnyEnd == StepAttemptStatus \ {"running"}

CompletionStatus == {"completed", "failed", "waiting_input", "waiting_auth", "retry_wait", "cancelled"}

\* Variant: a step that did not complete keeps the artifact it was ended with.
StepOutputAlways(art, st) == art

StepOutput(art, st) == IF st = "completed" THEN art ELSE NoArtifact

CompleteStep(s, a, art, st) ==
    /\ status[JobOf[s]] = "staged"
    /\ stepState[s] = "running"
    /\ currentAttempt[s] = a
    /\ stepAttempts[s][a].status = "running"
    /\ st \in CompletionStatus
    /\ st = "completed" => art # NoArtifact
    /\ art # NoArtifact => art \in artifacts /\ art = <<s, a>>
    /\ stepState' = [stepState EXCEPT ![s] = st]
    /\ output' = [output EXCEPT ![s] = StepOutput(art, st)]
    /\ stepAttempts' = [stepAttempts EXCEPT ![s][a].status = st]
    /\ UNCHANGED <<queueVars, flowVars, currentAttempt, pinned, artifactVars, results>>

\* Variant: a completed step may be run again.
RetryableOrCompleted == {"completed", "failed", "waiting_auth", "waiting_input", "retry_wait"}

Retryable == {"failed", "waiting_auth", "waiting_input", "retry_wait"}

RetryStep(s, expected) ==
    /\ status[JobOf[s]] = "staged"
    /\ expected # 0
    /\ currentAttempt[s] = expected
    /\ stepState[s] \in Retryable
    /\ stepState' = [stepState EXCEPT ![s] = "retry_wait"]
    /\ UNCHANGED <<queueVars, flowVars, stepAttempts, currentAttempt, pinned, output, artifactVars, results>>

\* One transaction over the steps of all jobs, run by the exclusive controller after
\* it has reconciled the surviving children.
RecoverInterruptedSteps ==
    /\ \E s \in Step : stepState[s] = "running"
    /\ stepState' = [s \in Step |->
           IF stepState[s] = "running" THEN "waiting_input" ELSE stepState[s]]
    /\ stepAttempts' = [s \in Step |->
           [a \in 1..Len(stepAttempts[s]) |->
               IF /\ stepState[s] = "running"
                  /\ a = currentAttempt[s]
                  /\ stepAttempts[s][a].status = "running"
               THEN [stepAttempts[s][a] EXCEPT !.status = "interrupted"]
               ELSE stepAttempts[s][a]]]
    /\ UNCHANGED <<queueVars, flowVars, currentAttempt, pinned, output, artifactVars, results>>

\* Variant: the running step attempt is forgotten.
EndStepAttemptsForgotten(as, st) == as

EndStepAttempts(as, st) ==
    [a \in 1..Len(as) |-> IF as[a].status = "running" THEN [as[a] EXCEPT !.status = st] ELSE as[a]]

\* Variant: a step that waits for the owner is left as it is.
EndedOrWaiting == {"absent", "completed", "superseded", "cancelled", "waiting_input"}

\* The steps that cancelStagedTx leaves as they are.
EndedStep == {"absent", "completed", "superseded", "cancelled"}

\* Store.Cancel: the job, its attempts, its unfinished steps and their attempts at once.
Cancel(j) ==
    /\ CancelJob(j)
    /\ stepState' = [s \in Step |->
           IF JobOf[s] = j /\ stepState[s] \notin EndedStep THEN "cancelled" ELSE stepState[s]]
    /\ stepAttempts' = [s \in Step |->
           IF JobOf[s] = j THEN EndStepAttempts(stepAttempts[s], "cancelled") ELSE stepAttempts[s]]
    /\ UNCHANGED <<flowVars, currentAttempt, pinned, output, artifactVars, results>>

-----------------------------------------------------------------------------
(***************************************************************************)
(* Result events and the completion of a staged job                        *)
(***************************************************************************)

\* Variant: only an event that still waits for delivery counts as published.
WaitsForDelivery(s) ==
    \E e \in results : e.step = s /\ e.artifact = output[s] /\ e.delivery = "available"

\* event_key names the step, the revision and the artifact.
Published(s) ==
    \E e \in results : e.step = s /\ e.revision = revision[JobOf[s]] /\ e.artifact = output[s]

\* PublishResultEvent is idempotent.
PublishResultEvent(s) ==
    /\ status[JobOf[s]] \in {"staged", "completed"}
    /\ stepState[s] = "completed"
    /\ output[s] \in artifacts
    /\ ~Published(s)
    /\ results' = results \cup {[step |-> s, revision |-> revision[JobOf[s]],
                                 artifact |-> output[s], delivery |-> "available"]}
    /\ UNCHANGED <<queueVars, flowVars, stepVars, artifactVars>>

\* The controller publishes the output of "validate" once every step is completed.
PublishValidatedResult(j) ==
    /\ AllStepsCompleted(j)
    /\ StepsOf(j) \cap Deliver # {}
    /\ \E s \in StepsOf(j) \cap Validate : PublishResultEvent(s)

HandedOff(j, rs) ==
    /\ AllStepsCompleted(j)
    /\ \A e \in ResultsOf(j, rs) : e.delivery = "delivered"

\* completeDeliveredJobTx, inside the transaction that leaves the event table as rs.
CompleteDeliveredJob(j, rs) ==
    status' = IF status[j] = "staged" /\ HandedOff(j, rs)
              THEN [status EXCEPT ![j] = "completed"]
              ELSE status

\* Variant: a delivered result may be sent again.
RepeatedDeliveryTransition(from, to) ==
    CASE from \in {"available", "delivered"} -> to \in {"sending", "delivered"} \ {from}
      [] from = "sending" -> to \in {"delivered", "unconfirmed", "failed"}
      [] from = "failed" -> to = "available"
      [] OTHER -> FALSE

AllowedDeliveryTransition(from, to) ==
    CASE from = "available" -> to \in {"sending", "delivered"}
      [] from = "sending" -> to \in {"delivered", "unconfirmed", "failed"}
      [] from = "failed" -> to = "available"
      [] OTHER -> FALSE

\* The event e gets delivery status d; a delivered event may complete the job.
SetDelivery(e, d) ==
    LET rs == (results \ {e}) \cup {[e EXCEPT !.delivery = d]} IN
    /\ results' = rs
    /\ IF d = "delivered" THEN CompleteDeliveredJob(JobOf[e.step], rs) ELSE UNCHANGED status
    /\ UNCHANGED <<attempts, current, delayed, diagnostic, resumed, limit,
                   flowVars, stepVars, artifactVars>>

MayLeaveAvailable(e) == e.delivery = "available" => e.revision = revision[JobOf[e.step]]

\* Marking an event with the status it already has succeeds and changes nothing.
MarkResultDelivery(e, d) ==
    /\ MayLeaveAvailable(e)
    /\ AllowedDeliveryTransition(e.delivery, d)
    /\ SetDelivery(e, d)

ReconcileAbandonedResultSend(e) ==
    /\ e.delivery = "sending"
    /\ e.revision = revision[JobOf[e.step]]
    /\ SetDelivery(e, "unconfirmed")

\* The owner's decision on an uncertain send: "delivered" for sent, "available" for retry.
ResolveUnconfirmedResult(e, d) ==
    /\ e.delivery = "unconfirmed"
    /\ e.revision = revision[JobOf[e.step]]
    /\ d \in {"delivered", "available"}
    /\ SetDelivery(e, d)

-----------------------------------------------------------------------------
WorkflowStep(j) ==
    \/ SubmitStaged(j)
    \/ \E new \in SUBSET Step : AppendSteps(j, new)
    \/ \E next \in 1..RevisionBound : SupersedeJobRevision(j, next)
    \/ \E p \in BOOLEAN : SetPaused(j, p)
    \/ Cancel(j)
    \/ PublishValidatedResult(j)

ExecutionStep(s) ==
    \/ ReadyStep(s)
    \/ ApproveStep(s)
    \/ \E a \in 0..AttemptBound :
          \/ ClaimStep(s, a)
          \/ RetryStep(s, a)
          \/ BeginSaveArtifact(s, a)
          \/ EndSaveArtifact(s, a)
          \/ \E art \in artifacts \cup {NoArtifact}, st \in StepState \cup StepAttemptStatus :
                CompleteStep(s, a, art, st)

DeliveryStep(e) ==
    \/ \E d \in DeliveryStatus : MarkResultDelivery(e, d)
    \/ ReconcileAbandonedResultSend(e)
    \/ \E d \in DeliveryStatus : ResolveUnconfirmedResult(e, d)

\* A resumed staged job is open to the operations of the queue.  Jobs submitted without
\* steps are the subject of JobQueue alone: no transaction here reads another job.
LegacyStep(j) == QueueStep(j) /\ UNCHANGED stagedVars

Next ==
    \/ \E j \in Job : WorkflowStep(j) \/ LegacyStep(j)
    \/ \E s \in Step : ExecutionStep(s)
    \/ \E e \in results : DeliveryStep(e)
    \/ RecoverInterruptedSteps
    \/ \E n \in 1..MaxAttempts : Reconfigure(n) /\ UNCHANGED stagedVars

Spec == Init /\ [][Next]_vars

-----------------------------------------------------------------------------
(***************************************************************************)
(* Properties                                                              *)
(***************************************************************************)

\* A step attempt is running exactly when it is the current attempt of a running step
\* of a staged job.  Claim, completion, cancellation and recovery write both tables.
LiveAttemptIsCurrent ==
    \A s \in Step : \A a \in 1..Len(stepAttempts[s]) :
        stepAttempts[s][a].status = "running" <=>
            stepState[s] = "running" /\ a = currentAttempt[s]

\* A step that runs or has completed rests on dependencies that are still completed,
\* and its current attempt pinned exactly the outputs they have now: no retry of a
\* dependency slipped between the pinning and the result.
PinnedInputsStayCurrent ==
    \A s \in Step : stepState[s] \in {"running", "completed"} =>
        /\ currentAttempt[s] \in 1..Len(stepAttempts[s])
        /\ \A d \in DependsOn[s] : stepState[d] = "completed"
        /\ stepAttempts[s][currentAttempt[s]].inputs = {output[d] : d \in DependsOn[s]}

\* The output of a step is a registered artifact of its own, completed, current attempt.
OutputComesFromCompletedAttempt ==
    \A s \in Step :
        /\ stepState[s] = "completed" => output[s] # NoArtifact
        /\ output[s] # NoArtifact =>
              /\ output[s] = <<s, currentAttempt[s]>>
              /\ output[s] \in artifacts
              /\ currentAttempt[s] \in 1..Len(stepAttempts[s])
              /\ stepAttempts[s][currentAttempt[s]].status = "completed"

\* Once a job has left "staged", by completion or cancellation, none of its steps can
\* be promoted, approved, claimed or retried any more, resumed or not.
ClosedJobHasNoWork ==
    \A s \in Step : status[JobOf[s]] # "staged" =>
        stepState[s] \in {"absent", "completed", "superseded", "cancelled"}

\* A send in progress is never a result of a superseded request: the revision of a job
\* cannot change between the mark "sending" and the outcome of the send.
SendingIsCurrentRevision ==
    \A e \in results : e.delivery = "sending" => e.revision = revision[JobOf[e.step]]

\* One result event per step output and revision, however often an idle worker republishes
\* and whatever became of the earlier delivery.
OneResultPerOutput ==
    \A e, f \in results : e.step = f.step /\ e.revision = f.revision => e = f

\* A result event names the output of a step, and that output never changes under it.
ResultIsTheOutput ==
    \A e \in results : e.artifact = output[e.step] /\ e.artifact \in artifacts

\* A job that completed through its steps has completed them all and handed over every
\* result.
CompletedMeansHandedOff ==
    \A s \in Step : LET j == JobOf[s] IN
        status[j] = "completed" /\ attempts[j] = <<>> =>
            /\ AllStepsCompleted(j)
            /\ \A e \in ResultsOf(j, results) : e.delivery = "delivered"

\* A late child cannot publish: an artifact row only ever appears for an attempt that is
\* still current and running when the row is written.
ArtifactsOfLiveAttempts ==
    [][\A x \in artifacts' \ artifacts : Live(x[1], x[2])]_vars

\* The result of a superseded request never starts towards the conversation: a stale event
\* that was not being sent keeps the status it had.
StaleResultIsFrozen ==
    [][\A e \in results :
          e.revision < revision[JobOf[e.step]] /\ e.delivery # "failed" => e \in results']_vars

\* Results and outputs correspond one to one in each revision, across retries and
\* republications.
ResultsMatchOutputs == OneResultPerOutput /\ ResultIsTheOutput

\* Whoever comes late changes nothing: neither a child whose attempt has ended nor the
\* consumer of a superseded result.
LateCallersChangeNothing == ArtifactsOfLiveAttempts /\ StaleResultIsFrozen

\* A staged job is driven by its steps only; it never becomes one opaque execution.
StagedJobHasNoOpaqueAttempt == \A s \in Step : attempts[JobOf[s]] = <<>>
=============================================================================
