-------------------------- MODULE ControllerProofs --------------------------
(***************************************************************************)
(* What executes heeds the owner, and nothing uncertain is started again,  *)
(* whatever the jobs, the interleaving of the dispatch loop, the owner's   *)
(* requests and the child processes, and wherever the controller crashes.  *)
(* The controller is one of the callers that the models of the store leave *)
(* open, so what the store promises any caller holds here as well.         *)
(***************************************************************************)
EXTENDS Controller, StagedWorkflowProofs

\* No execution is in progress in these places of the loop.
IdlePhase == {"down", "intent", "enabling", "wait", "read", "scan", "check"} \cup FaultCode

\* Where the loop is tells what is executed and which attempt, if any, it works on.
PhaseInv ==
    /\ loop \in IdlePhase => active = NoJob
    /\ loop \in {"start"} \cup StagePhase \cup ChildPhase \cup ChildEnd => active \in Job
    /\ active = NoJob => work = NoWork /\ ~cancelled
    /\ loop \in Recovering \cup {"start", "ready"} => work = NoWork
    /\ loop \in {"claim", "insert", "complete"} => work \in Step \X Nat
    /\ loop = "publish" => work \in (Step \X Nat) \cup {NoWork}
    /\ loop \in ChildPhase \cup ChildEnd => work \in Attempt

\* While the boot lasts the gate is shut, and what opens it later has seen that recovery
\* was not blocked.
GateInv ==
    /\ loop = "down" \/ Booting => ~dispatch /\ ~inspecting
    /\ dispatch \/ inspecting => ~recoveryBlocked

\* While a request holds admission no other job is admitted.
HandlingInv ==
    /\ Revoking => active \in {NoJob, handling.job}
    /\ handling.op = "revoke" => handling.job \in Job

\* The budget that retry and resolve have counted changes by one attempt at most: that of an
\* execution of the job which was admitted before them and has not recorded it yet.
ResumeInv ==
    handling.op = "resume" =>
        /\ handling.job \in Job
        /\ handling.seen < limit
        /\ \/ current[handling.job] = handling.seen
           \/ /\ current[handling.job] = handling.seen + 1
              /\ ~(active = handling.job /\ loop \in Recovering \cup {"start"})

\* The work of an execution is that of the active job, and of a legacy job it is the
\* current attempt.
WorkInv ==
    work # NoWork => (work[1] \in Job => work[1] = active /\ work[2] = current[active])

\* The records name the current attempt of a job only, so recovery sees all of them; from
\* its end to the record of the next attempt nothing is alive, and nothing but that attempt
\* until its child has ended.
ProcessInv ==
    /\ \A g \in groups \cup starting : g[1] \in Job => g[2] = current[g[1]]
    /\ loop \in {"recover_steps", "recover_jobs", "start"} => groups = {} /\ starting = {}
    /\ loop \in {"prepare", "launch"} /\ work[1] \in Job => groups = {}

\* The ordinals in the tables are within the bounds of the models, and a running job has one.
OrdinalsInv ==
    /\ \A j \in Job : current[j] <= MaxAttempts /\ (status[j] = "running" => current[j] >= 1)
    /\ \A s \in Step : currentAttempt[s] <= AttemptBound
    /\ \A art \in saving : art[2] <= AttemptBound

ControllerInv ==
    /\ StagedInv
    /\ OrdinalsInv
    /\ ControllerTypeOK
    /\ PhaseInv
    /\ GateInv
    /\ WorkInv
    /\ ExecutionHeedsOwner
    /\ HandlingInv
    /\ ResumeInv
    /\ ProcessInv

-----------------------------------------------------------------------------
(***************************************************************************)
(* The controller is one of the callers that the store's models leave open *)
(***************************************************************************)

\* What the models of the store allow their callers: those of the staged tables, and
\* the submission of a job that has no steps.
StoreNext ==
    \/ Next
    \/ \E j \in Job : Submit(j) /\ (\A s \in Step : JobOf[s] # j) /\ UNCHANGED stagedVars

LEMMA SubmittedLegacyInv ==
    ASSUME StagedInv, NEW j \in Job, Submit(j), \A s \in Step : JobOf[s] # j, UNCHANGED stagedVars
    PROVE  StagedInv'
<1>1. QueueInv'
  BY SubmitInv DEF StagedInv
<1>2. UNCHANGED <<flowVars, stepVars, artifactVars, results>>
  BY DEF stagedVars
<1>3. UNCHANGED <<paused, revision, stepState, stepAttempts, currentAttempt, pinned, output, saving, artifacts>>
  BY <1>2 DEF flowVars, stepVars, artifactVars
<1>4. \A s \in Step : status'[JobOf[s]] = status[JobOf[s]]
  BY StepFacts DEF Submit, StagedInv, TypeOK, QueueTypeOK
<1>5. TypeOK'
  BY <1>1, <1>2, <1>3 DEF StagedInv, TypeOK, QueueInv
<1>6. StepRowsAgree' /\ ClosedJobHasNoWork'
  BY <1>3, <1>4 DEF StagedInv, StepRowsAgree, ClosedJobHasNoWork
<1>7. LiveAttemptIsCurrent' /\ OutputIsFinal' /\ OutputComesFromCompletedAttempt'
  BY <1>3 DEF StagedInv, LiveAttemptIsCurrent, OutputIsFinal, OutputComesFromCompletedAttempt
<1>8. PinnedAreOutputs' /\ PinnedInputsStayCurrent'
  BY <1>3 DEF StagedInv, PinnedAreOutputs, PinnedInputsStayCurrent
<1>9. SendingIsCurrentRevision' /\ ResultIsTheOutput' /\ OneResultPerOutput'
  BY <1>2, <1>3 DEF StagedInv, SendingIsCurrentRevision, ResultIsTheOutput, OneResultPerOutput
<1> QED BY <1>1, <1>5, <1>6, <1>7, <1>8, <1>9 DEF StagedInv

LEMMA StoreStep ==
    ASSUME StagedInv, StoreNext \/ UNCHANGED vars
    PROVE  StagedInv'
BY NextStagedInv, SubmittedLegacyInv DEF StoreNext

\* What the types of the controller's variables tell of the attempt in progress.
LEMMA WorkFacts ==
    ASSUME ControllerInv
    PROVE  /\ work \in Attempt => work[1] \in Job \cup Step /\ work[2] \in Nat
           /\ work \in Attempt /\ ~Staged => work[1] \in Job
           /\ work \in Step \X Nat => Staged /\ work[1] \in Step /\ work[2] \in Nat
           /\ active \in Job \/ active = NoJob
BY DEF ControllerInv, ControllerTypeOK, Attempt, Staged

\* The number of an attempt that a caller gets to use is one of those the models range over.
LEMMA OrdinalFacts ==
    ASSUME StagedInv, OrdinalsInv
    PROVE  /\ \A j \in Job : status[j] = "running" => current[j] \in 1..MaxAttempts
           /\ \A s \in Step : currentAttempt[s] \in 0..AttemptBound
           /\ \A s \in Step, a \in Nat : <<s, a>> \in saving => a \in 0..AttemptBound
<1>1. /\ current \in [Job -> Nat] /\ currentAttempt \in [Step -> Nat]
      /\ MaxAttempts \in Nat /\ AttemptBound \in Nat
  BY QueueAssumption, WorkflowAssumption DEF StagedInv, TypeOK, QueueTypeOK
<1>2. \A s \in Step, a \in Nat : <<s, a>> \in saving => a <= AttemptBound
  BY DEF OrdinalsInv
<1> QED BY <1>1, <1>2 DEF OrdinalsInv

LEMMA FinishLegacyCalls ==
    ASSUME ControllerInv, work \in Attempt, NEW outcomes \in SUBSET Outcome,
           FinishLegacy(outcomes)
    PROVE  StoreNext \/ UNCHANGED vars
<1>1. StagedInv /\ OrdinalsInv /\ work[1] \in Job
  BY WorkFacts DEF FinishLegacy, ControllerInv
<1>2. CASE \E o \in outcomes : FinishAttempt(work[1], work[2], o) /\ UNCHANGED stagedVars
  <2>1. PICK o \in outcomes : FinishAttempt(work[1], work[2], o) /\ UNCHANGED stagedVars
    BY <1>2
  <2>2. work[2] \in 1..MaxAttempts
    BY <1>1, <2>1, OrdinalFacts DEF FinishAttempt
  <2>3. LegacyStep(work[1])
    BY <2>1, <2>2 DEF LegacyStep, QueueStep
  <2> QED BY <1>1, <2>3 DEF StoreNext, Next
<1> QED BY <1>2 DEF FinishLegacy

\* An attempt of a step is ended by a caller that names the current one.
LEMMA CompleteStepCalls ==
    ASSUME StagedInv, OrdinalsInv, NEW s \in Step, NEW a, NEW art \in artifacts \cup {NoArtifact},
           NEW st \in StepState \cup StepAttemptStatus, CompleteStep(s, a, art, st)
    PROVE  StoreNext
<1>1. a \in 0..AttemptBound
  BY OrdinalFacts DEF CompleteStep
<1>2. ExecutionStep(s)
  BY <1>1 DEF ExecutionStep
<1> QED BY <1>2 DEF StoreNext, Next

LEMMA FailStageCalls ==
    ASSUME ControllerInv, work \in Attempt, FailStage
    PROVE  StoreNext \/ UNCHANGED vars
<1>1. StagedInv /\ OrdinalsInv /\ work[1] \in Step
  BY WorkFacts DEF FailStage, Staged, ControllerInv
<1>2. "failed" \in StepState \cup StepAttemptStatus /\ NoArtifact \in artifacts \cup {NoArtifact}
  BY DEF StepState
<1> QED BY <1>1, <1>2, CompleteStepCalls DEF FailStage

LEMMA RecoveryCalls ==
    ASSUME Recovery
    PROVE  StoreNext \/ UNCHANGED vars
<1>1. CASE Reconcile
  BY <1>1 DEF Reconcile
<1>2. CASE RecoverSteps
  BY <1>2 DEF RecoverSteps, StoreNext, Next
<1>3. CASE RecoverJobs
  <2>1. UNCHANGED vars \/ \E j \in Job : LegacyStep(j)
    BY <1>3 DEF RecoverJobs, LegacyStep, QueueStep
  <2> QED BY <2>1 DEF StoreNext, Next
<1> QED BY <1>1, <1>2, <1>3 DEF Recovery

LEMMA ExecutingCalls ==
    ASSUME ControllerInv, Executing
    PROVE  StoreNext \/ UNCHANGED vars
<1>1. StagedInv /\ OrdinalsInv /\ PhaseInv
  BY DEF ControllerInv
<1>2. CASE StartLegacy
  <2>1. active \in Job
    BY <1>1, <1>2 DEF StartLegacy, PhaseInv
  <2>2. UNCHANGED vars \/ LegacyStep(active)
    BY <1>2 DEF StartLegacy, LegacyStep, QueueStep
  <2> QED BY <2>1, <2>2 DEF StoreNext, Next
<1>3. CASE FindStep
  <2>1. UNCHANGED vars \/ \E s \in Step : ExecutionStep(s)
    BY <1>3 DEF FindStep, StepsOf, ExecutionStep
  <2> QED BY <2>1 DEF StoreNext, Next
<1>4. CASE Claim
  <2>1. work[1] \in Step
    BY <1>1, <1>4, WorkFacts DEF Claim, PhaseInv
  <2>2. CASE ClaimStep(work[1], work[2])
    <3>1. work[2] \in 0..AttemptBound
      BY <1>1, <2>1, <2>2, OrdinalFacts DEF ClaimStep
    <3>2. ExecutionStep(work[1])
      BY <2>2, <3>1 DEF ExecutionStep
    <3> QED BY <2>1, <3>2 DEF StoreNext, Next
  <2> QED BY <1>4, <2>2 DEF Claim
<1>5. ASSUME NEW outcomes \in SUBSET Outcome, loop \in ChildPhase \cup ChildEnd,
             FinishLegacy(outcomes) \/ FailStage
      PROVE  StoreNext \/ UNCHANGED vars
  BY <1>1, <1>5, FinishLegacyCalls, FailStageCalls DEF PhaseInv
<1>6. /\ {"failed", "waiting_input", "waiting_auth"} \in SUBSET Outcome /\ {"waiting_input"} \in SUBSET Outcome
      /\ Outcomes(loop) \in SUBSET Outcome
  BY ControllerAssumption DEF Outcome, Outcomes
<1>7. CASE GiveUp
  BY <1>5, <1>6, <1>7 DEF GiveUp, ChildPhase
<1>8. CASE Announce \/ Launch \/ ChildEnds
  BY <1>8 DEF Announce, Launch, ChildEnds
<1>9. CASE LaunchFails
  BY <1>5, <1>6, <1>9 DEF LaunchFails, ChildPhase
<1>10. CASE Identify
  BY <1>5, <1>6, <1>10 DEF Identify, ChildPhase
<1>11. CASE EndLegacy
  BY <1>5, <1>6, <1>11 DEF EndLegacy
<1>12. CASE EndStage
  <2>1. work \in Attempt /\ work[1] \in Step
    BY <1>1, <1>12 DEF EndStage, PhaseInv, Staged
  <2>2. CASE BeginSaveArtifact(work[1], work[2])
    <3>1. work[2] \in 0..AttemptBound
      BY <1>1, <2>1, <2>2, OrdinalFacts DEF BeginSaveArtifact, Live
    <3>2. ExecutionStep(work[1])
      BY <2>2, <3>1 DEF ExecutionStep
    <3> QED BY <2>1, <3>2 DEF StoreNext, Next
  <2> QED BY <1>12, <2>1, <2>2, FailStageCalls DEF EndStage
<1>13. ASSUME loop \in {"insert", "complete"}
       PROVE  work \in Attempt /\ work[1] \in Step /\ work[2] \in Nat /\ work = <<work[1], work[2]>>
  BY <1>1, <1>13, WorkFacts DEF PhaseInv, Attempt
<1>14. CASE InsertOutput
  <2>1. work \in Attempt /\ work[1] \in Step /\ work[2] \in Nat
    BY <1>13, <1>14 DEF InsertOutput
  <2>2. CASE EndSaveArtifact(work[1], work[2])
    <3>1. work[2] \in 0..AttemptBound
      BY <1>1, <2>1, <2>2, OrdinalFacts DEF EndSaveArtifact
    <3>2. ExecutionStep(work[1])
      BY <2>2, <3>1 DEF ExecutionStep
    <3> QED BY <2>1, <3>2 DEF StoreNext, Next
  <2> QED BY <1>14, <2>1, <2>2, FailStageCalls DEF InsertOutput
<1>15. CASE FinishStage
  <2>1. CASE CompleteStep(work[1], work[2], work, "completed")
    <3>1. work # NoArtifact
      BY <2>1 DEF CompleteStep
    <3>2. work \in artifacts \cup {NoArtifact} /\ "completed" \in StepState \cup StepAttemptStatus
      BY <2>1, <3>1 DEF CompleteStep, StepState
    <3> QED BY <1>1, <1>13, <1>15, <2>1, <3>2, CompleteStepCalls DEF FinishStage
  <2> QED BY <1>15, <2>1 DEF FinishStage
<1>16. CASE PublishStage
  <2>1. active \in Job
    BY <1>1, <1>16 DEF PublishStage, PhaseInv, StagePhase
  <2>2. UNCHANGED vars \/ WorkflowStep(active)
    BY <1>16 DEF PublishStage, WorkflowStep
  <2> QED BY <2>1, <2>2 DEF StoreNext, Next
<1> QED BY <1>2, <1>3, <1>4, <1>7, <1>8, <1>9, <1>10, <1>11, <1>12, <1>14, <1>15, <1>16 DEF Executing

LEMMA RequestCalls ==
    ASSUME ControllerInv, Request
    PROVE  StoreNext \/ UNCHANGED vars
<1>1. CASE WorkerStart \/ WorkerStop \/ ControllerStop \/ AbortStop \/ ResumeAccess
           \/ \E p \in BOOLEAN : SetQueuePaused(p)
  BY <1>1 DEF WorkerStart, WorkerStop, ControllerStop, AbortStop, ResumeAccess, SetQueuePaused
<1>2. ASSUME NEW j \in Job, WorkflowStep(j) \/ LegacyStep(j) PROVE StoreNext
  BY <1>2 DEF StoreNext, Next
<1>3. CASE RevokeAccess \/ \E j \in Job : CountAttempts(j)
  BY <1>3 DEF RevokeAccess, CountAttempts
<1>4. ASSUME NEW j \in Job, CancelRequest(j) PROVE StoreNext
  BY <1>2, <1>4 DEF CancelRequest, WorkflowStep
<1>5. ASSUME NEW j \in Job, QueueRequest(j) PROVE StoreNext
  BY <1>5 DEF QueueRequest, StoreNext
<1>6. ASSUME NEW j \in Job, StagedRequest(j) PROVE StoreNext
  BY <1>2, <1>6 DEF StagedRequest, WorkflowStep
<1>7. ASSUME NEW s \in Step, StepRequest(s) PROVE StoreNext
  <2>1. StagedInv /\ OrdinalsInv
    BY DEF ControllerInv
  <2>2. currentAttempt[s] \in 0..AttemptBound
    BY <2>1, OrdinalFacts
  <2>3. ExecutionStep(s)
    BY <1>7, <2>2 DEF StepRequest, ExecutionStep
  <2> QED BY <2>3 DEF StoreNext, Next
<1> QED BY <1>1, <1>3, <1>4, <1>5, <1>6, <1>7 DEF Request

LEMMA RequestGoesOnCalls ==
    ASSUME ControllerInv, RequestGoesOn
    PROVE  StoreNext \/ UNCHANGED vars
<1>1. CASE RevokeCancel
  <2>1. CASE Cancel(handling.job)
    <3>1. handling.job \in Job
      BY <1>1 DEF RevokeCancel, ControllerInv, HandlingInv
    <3> QED BY <2>1, <3>1 DEF StoreNext, Next, WorkflowStep
  <2> QED BY <1>1, <2>1 DEF RevokeCancel
<1>2. CASE Tell
  BY <1>2 DEF Tell
<1>3. CASE ResumeJob
  <2>1. handling.job \in Job
    BY <1>3 DEF ResumeJob, ControllerInv, ResumeInv
  <2>2. UNCHANGED vars \/ LegacyStep(handling.job)
    BY <1>3 DEF ResumeJob, LegacyStep, QueueStep
  <2> QED BY <2>1, <2>2 DEF StoreNext, Next
<1> QED BY <1>1, <1>2, <1>3 DEF RequestGoesOn

LEMMA ControllerCalls ==
    ASSUME ControllerInv, [ControllerNext]_allVars
    PROVE  StoreNext \/ UNCHANGED vars
<1>1. CASE Boot \/ RememberIntent \/ SetWorkerEnds \/ Terminate \/ Exit \/ Crash \/ SurvivorEnds
  BY <1>1 DEF Boot, RememberIntent, SetWorkerEnds, EnableFails, EnableCommits, Terminate,
              Exit, Crash, Gone, SurvivorEnds
<1>2. CASE Dispatching
  BY <1>2 DEF Dispatching, Tick, ReadQueue, Schedule, AdmitStage, SkipRun, AdmitRun,
              CheckDispatch, BlockDispatch
<1>3. CASE TimePasses
  <2>1. \E j \in Job : LegacyStep(j)
    BY <1>3 DEF TimePasses, LegacyStep, QueueStep
  <2> QED BY <2>1 DEF StoreNext, Next
<1>4. CASE UNCHANGED allVars
  BY <1>4 DEF allVars
<1> QED BY <1>1, <1>2, <1>3, <1>4, RecoveryCalls, ExecutingCalls, RequestCalls, RequestGoesOnCalls
        DEF ControllerNext

LEMMA OrdinalsInit == Init => OrdinalsInv
<1> SUFFICES ASSUME Init PROVE OrdinalsInv
  OBVIOUS
<1>1. MaxAttempts \in Nat /\ AttemptBound \in Nat
  BY QueueAssumption, WorkflowAssumption
<1>2. \A j \in Job : current[j] = 0 /\ status[j] # "running"
  BY DEF Init, QueueInit
<1>3. (\A s \in Step : currentAttempt[s] = 0) /\ saving = {}
  BY DEF Init
<1> QED BY <1>1, <1>2, <1>3 DEF OrdinalsInv

\* Only the start of an attempt takes an ordinal, and it looks at the bound.
LEMMA OrdinalsQueue ==
    ASSUME StagedInv, OrdinalsInv, NEW j \in Job, QueueStep(j)
    PROVE  \A i \in Job : current'[i] <= MaxAttempts /\ (status'[i] = "running" => current'[i] >= 1)
<1>1. /\ current \in [Job -> Nat] /\ status \in [Job -> JobStatus] /\ limit \in 1..MaxAttempts
      /\ attempts \in [Job -> Seq(AttemptStatus)] /\ MaxAttempts \in Nat
  BY QueueAssumption DEF StagedInv, TypeOK, QueueTypeOK
<1>2. \A i \in Job : Len(attempts[i]) \in Nat
  BY <1>1
<1>3. CASE StartAttempt(j)
  <2>1. /\ current' = [current EXCEPT ![j] = Len(attempts[j]) + 1]
        /\ status' = [status EXCEPT ![j] = "running"]
        /\ Len(attempts[j]) < limit
    BY <1>3 DEF StartAttempt, NextOrdinal
  <2>2. Len(attempts[j]) + 1 <= MaxAttempts /\ Len(attempts[j]) + 1 >= 1
    BY <1>1, <1>2, <2>1
  <2>3. ASSUME NEW i \in Job
        PROVE  \/ current'[i] = Len(attempts[j]) + 1
               \/ current'[i] = current[i] /\ status'[i] = status[i]
    BY <1>1, <2>1
  <2> QED BY <2>2, <2>3 DEF OrdinalsInv
<1>4. CASE ExhaustBudget(j) \/ RetryDelayElapses(j) \/ RecoverInterrupted(j)
           \/ \E answered \in BOOLEAN : Resume(j, answered)
  <2>1. UNCHANGED current /\ \A i \in Job : status'[i] = "running" => status[i] = "running"
    BY <1>1, <1>4 DEF ExhaustBudget, RetryDelayElapses, RecoverInterrupted, RecoveredStatus, Resume
  <2> QED BY <2>1 DEF OrdinalsInv
<1>5. ASSUME NEW a \in 1..MaxAttempts, NEW outcome \in Outcome, FinishAttempt(j, a, outcome)
      PROVE  UNCHANGED current /\ \A i \in Job : status'[i] = "running" => status[i] = "running"
  BY <1>1, <1>5 DEF FinishAttempt
<1>6. ASSUME NEW a \in 1..MaxAttempts, NEW st \in JobStatus, CompletePublication(j, a, st)
      PROVE  UNCHANGED current /\ \A i \in Job : status'[i] = "running" => status[i] = "running"
  BY <1>1, <1>6 DEF CompletePublication
<1> QED BY <1>3, <1>4, <1>5, <1>6 DEF QueueStep, OrdinalsInv

\* What the transactions of the staged tables leave of the queue, for this purpose.
LEMMA OrdinalsFlow ==
    ASSUME StagedInv, OrdinalsInv, UNCHANGED <<current, currentAttempt, saving>>,
           \A j \in Job : status'[j] = "running" => status[j] = "running"
    PROVE  OrdinalsInv'
BY DEF OrdinalsInv

LEMMA OrdinalsWorkflow ==
    ASSUME StagedInv, OrdinalsInv, NEW j \in Job, WorkflowStep(j)
    PROVE  OrdinalsInv'
<1>1. status \in [Job -> JobStatus]
  BY DEF StagedInv, TypeOK, QueueTypeOK
<1>2. UNCHANGED <<current, currentAttempt, saving>>
  BY DEF WorkflowStep, SubmitStaged, AppendSteps, SupersedeJobRevision, SetPaused, Cancel, CancelJob,
         PublishValidatedResult, PublishResultEvent, queueVars, stepVars, artifactVars
<1>3. \A i \in Job : status'[i] = "running" => status[i] = "running"
  BY <1>1 DEF WorkflowStep, SubmitStaged, AppendSteps, SupersedeJobRevision, SetPaused, Cancel, CancelJob,
              PublishValidatedResult, PublishResultEvent, queueVars
<1> QED BY <1>2, <1>3, OrdinalsFlow

LEMMA OrdinalsExecution ==
    ASSUME StagedInv, OrdinalsInv, NEW s \in Step, ExecutionStep(s)
    PROVE  OrdinalsInv'
<1>1. currentAttempt \in [Step -> Nat] /\ stepAttempts \in [Step -> Seq(StepAttempt)] /\ AttemptBound \in Nat
  BY WorkflowAssumption DEF StagedInv, TypeOK
<1>2. UNCHANGED queueVars => UNCHANGED <<current, status>>
  BY DEF queueVars
<1>3. CASE ReadyStep(s) \/ ApproveStep(s)
  BY <1>2, <1>3, OrdinalsFlow DEF ReadyStep, ApproveStep, artifactVars
<1>4. ASSUME NEW a \in 0..AttemptBound, RetryStep(s, a) PROVE OrdinalsInv'
  BY <1>2, <1>4, OrdinalsFlow DEF RetryStep, artifactVars
<1>5. ASSUME NEW a \in 0..AttemptBound, NEW art, NEW st, CompleteStep(s, a, art, st) PROVE OrdinalsInv'
  BY <1>2, <1>5, OrdinalsFlow DEF CompleteStep, artifactVars
<1>6. ASSUME NEW a \in 0..AttemptBound, ClaimStep(s, a) PROVE OrdinalsInv'
  <2>1. UNCHANGED <<current, status, saving>>
    BY <1>2, <1>6 DEF ClaimStep, artifactVars
  <2>2. Len(stepAttempts[s]) \in Nat /\ Len(stepAttempts[s]) < AttemptBound
    BY <1>1, <1>6 DEF ClaimStep
  <2>3. \A t \in Step : currentAttempt'[t] = currentAttempt[t] \/ currentAttempt'[t] = Len(stepAttempts[s]) + 1
    BY <1>1, <1>6 DEF ClaimStep
  <2> QED BY <1>1, <2>1, <2>2, <2>3 DEF OrdinalsInv
<1>7. ASSUME NEW a \in 0..AttemptBound, BeginSaveArtifact(s, a) \/ EndSaveArtifact(s, a) PROVE OrdinalsInv'
  <2>1. UNCHANGED <<current, status, currentAttempt>>
    BY <1>2, <1>7 DEF BeginSaveArtifact, EndSaveArtifact, stepVars
  <2>2. saving' \subseteq saving \cup {<<s, a>>}
    BY <1>7 DEF BeginSaveArtifact, EndSaveArtifact
  <2>3. a <= AttemptBound /\ <<s, a>>[2] = a
    BY <1>1, <1>7
  <2>4. \A art \in saving' : art[2] <= AttemptBound
    BY <2>2, <2>3 DEF OrdinalsInv
  <2> QED BY <2>1, <2>4 DEF OrdinalsInv
<1> QED BY <1>3, <1>4, <1>5, <1>6, <1>7 DEF ExecutionStep

LEMMA OrdinalsStep ==
    ASSUME StagedInv, OrdinalsInv, StoreNext \/ UNCHANGED vars
    PROVE  OrdinalsInv'
<1>1. status \in [Job -> JobStatus]
  BY DEF StagedInv, TypeOK, QueueTypeOK
<1>2. ASSUME NEW j \in Job, WorkflowStep(j) PROVE OrdinalsInv'
  BY <1>2, OrdinalsWorkflow
<1>3. ASSUME NEW j \in Job, LegacyStep(j) PROVE OrdinalsInv'
  BY <1>3, OrdinalsQueue DEF LegacyStep, OrdinalsInv, stagedVars, stepVars, artifactVars
<1>4. ASSUME NEW s \in Step, ExecutionStep(s) PROVE OrdinalsInv'
  BY <1>4, OrdinalsExecution
<1>5. ASSUME NEW e \in results, DeliveryStep(e) PROVE OrdinalsInv'
  <2>1. PICK d : SetDelivery(e, d)
    BY <1>5 DEF DeliveryStep, MarkResultDelivery, ReconcileAbandonedResultSend, ResolveUnconfirmedResult
  <2>2. \A j \in Job : status'[j] = "running" => status[j] = "running"
    BY <1>1, <2>1 DEF SetDelivery, CompleteDeliveredJob
  <2> QED BY <2>1, <2>2, OrdinalsFlow DEF SetDelivery, stepVars, artifactVars
<1>6. CASE RecoverInterruptedSteps
  BY <1>6, OrdinalsFlow DEF RecoverInterruptedSteps, queueVars, artifactVars
<1>7. ASSUME NEW n, Reconfigure(n), UNCHANGED stagedVars PROVE OrdinalsInv'
  BY <1>7, OrdinalsFlow DEF Reconfigure, stagedVars, stepVars, artifactVars
<1>8. ASSUME NEW j \in Job, Submit(j), UNCHANGED stagedVars PROVE OrdinalsInv'
  BY <1>1, <1>8, OrdinalsFlow DEF Submit, stagedVars, stepVars, artifactVars
<1>9. CASE UNCHANGED vars
  BY <1>9, OrdinalsFlow DEF vars, queueVars, stagedVars, stepVars, artifactVars
<1> QED BY <1>2, <1>3, <1>4, <1>5, <1>6, <1>7, <1>8, <1>9 DEF StoreNext, Next

\* Every step of the controller is one transaction of the store, or none.
LEMMA ControllerStore ==
    ASSUME ControllerInv, [ControllerNext]_allVars
    PROVE  StagedInv' /\ OrdinalsInv'
BY ControllerCalls, StoreStep, OrdinalsStep DEF ControllerInv

-----------------------------------------------------------------------------
(***************************************************************************)
(* Where the loop is, and what it executes                                 *)
(***************************************************************************)

\* The variables of the loop, typed, and the phases of an execution.
LoopInv ==
    /\ loop \in LoopState
    /\ agenda \subseteq [at : DOMAIN Queue, staged : BOOLEAN]
    /\ work \in Attempt \cup {NoWork}
    /\ active \in Job \cup {NoJob}
    /\ cancelled \in BOOLEAN /\ leaving \in BOOLEAN
    /\ PhaseInv

LEMMA LoopInvHolds == ControllerInv => LoopInv
BY DEF ControllerInv, ControllerTypeOK, LoopInv

\* An execution ends, whatever comes next.
LEMMA LeaveLoop ==
    ASSUME LoopInv, NEW next \in IdlePhase, Leave(next)
    PROVE  LoopInv'
BY DEF LoopInv, PhaseInv, Leave, IdlePhase, FaultCode, DispatchFault, LoopState, LegacyPhase, StagePhase,
       Recovering, ChildPhase, ChildEnd

\* An execution goes on within the same attempt.
LEMMA GoOnLoop ==
    ASSUME LoopInv, NEW next, GoOn(next),
           \/ next \in IdlePhase \cup Recovering /\ active = NoJob
           \/ next \in Recovering \cup {"start"} /\ active \in Job /\ work = NoWork
           \/ next \in ChildPhase \cup ChildEnd /\ active \in Job /\ work \in Attempt
           \/ next \in {"insert", "complete"} /\ active \in Job /\ work \in Step \X Nat
           \/ next = "publish" /\ active \in Job /\ work \in (Step \X Nat) \cup {NoWork}
    PROVE  LoopInv'
BY DEF LoopInv, PhaseInv, GoOn, executionVars, IdlePhase, FaultCode, DispatchFault, LoopState, LegacyPhase, StagePhase,
       Recovering, ChildPhase, ChildEnd, Attempt

LEMMA RefusedLoop ==
    ASSUME LoopInv, Refused
    PROVE  LoopInv'
<1>1. (IF loop \in {"start"} \cup Recovering THEN "check" ELSE "staged_dispatch_failed") \in IdlePhase
  BY DEF IdlePhase, FaultCode, DispatchFault
<1> QED BY <1>1, LeaveLoop DEF Refused

LEMMA RecoveryFailsLoop ==
    ASSUME LoopInv, RecoveryFails
    PROVE  LoopInv'
<1>1. CASE active = NoJob
  <2>1. GoOn("intent") /\ "intent" \in IdlePhase
    BY <1>1 DEF RecoveryFails, GoOn, IdlePhase
  <2> QED BY <1>1, <2>1, GoOnLoop
<1>2. CASE active # NoJob
  BY <1>2, RefusedLoop DEF RecoveryFails
<1> QED BY <1>1, <1>2

LEMMA RecoveryLoop ==
    ASSUME LoopInv, Recovery
    PROVE  LoopInv'
<1>1. /\ loop \in Recovering => work = NoWork /\ active \in Job \cup {NoJob}
      /\ "intent" \in IdlePhase
  BY DEF LoopInv, PhaseInv, IdlePhase
<1>2. CASE Reconcile
  <2>1. GoOn("recover_steps") \/ RecoveryFails
    BY <1>2 DEF Reconcile
  <2> QED BY <1>1, <1>2, <2>1, GoOnLoop, RecoveryFailsLoop DEF Reconcile, Recovering
<1>3. CASE RecoverSteps
  <2>1. GoOn("recover_jobs") \/ RecoveryFails
    BY <1>3 DEF RecoverSteps
  <2> QED BY <1>1, <1>3, <2>1, GoOnLoop, RecoveryFailsLoop DEF RecoverSteps, Recovering
<1>4. CASE RecoverJobs
  <2>1. \/ UNCHANGED loopVars
        \/ GoOn(IF active = NoJob THEN "intent" ELSE "start")
        \/ RecoveryFails
    BY <1>4 DEF RecoverJobs
  <2>2. CASE UNCHANGED loopVars
    BY <2>2 DEF LoopInv, PhaseInv, loopVars, executionVars
  <2> QED BY <1>1, <1>4, <2>1, <2>2, GoOnLoop, RecoveryFailsLoop DEF RecoverJobs, Recovering
<1> QED BY <1>2, <1>3, <1>4 DEF Recovery

LEMMA AdmittedLoop ==
    ASSUME LoopInv, loop = "scan", NEW w \in agenda, NEW next \in {"ready", "reconcile"}, Admit(w, next)
    PROVE  LoopInv'
<1>1. Queue[w.at] \in Job /\ agenda' \subseteq [at : DOMAIN Queue, staged : BOOLEAN]
  BY ControllerAssumption DEF LoopInv, Admit
<1>2. /\ active' \in Job /\ cancelled' = FALSE /\ loop' = next /\ work' = NoWork /\ leaving' = leaving
  BY <1>1 DEF LoopInv, PhaseInv, Admit, IdlePhase
<1> QED BY <1>1, <1>2, ControllerAssumption
        DEF LoopInv, PhaseInv, LoopState, IdlePhase, FaultCode, DispatchFault, LegacyPhase, StagePhase,
            Recovering, ChildPhase, ChildEnd

LEMMA PassOverLoop ==
    ASSUME LoopInv, NEW w, PassOver(w)
    PROVE  LoopInv'
BY DEF LoopInv, PhaseInv, PassOver, executionVars

LEMMA DispatchingLoop ==
    ASSUME LoopInv, Dispatching
    PROVE  LoopInv'
<1>1. /\ loop \in IdlePhase => active = NoJob
      /\ {"wait", "read", "scan", "check", "unavailable", "dispatch_failed", "staged_dispatch_failed"}
            \subseteq IdlePhase
      /\ FaultCode \subseteq IdlePhase
  BY DEF LoopInv, PhaseInv, IdlePhase, FaultCode, DispatchFault
<1>2. CASE Tick \/ Schedule \/ CheckDispatch \/ BlockDispatch
  <2>1. loop \in IdlePhase /\ \E next \in IdlePhase : GoOn(next)
    BY <1>1, <1>2 DEF Tick, Schedule, CheckDispatch, BlockDispatch, AfterRefusal
  <2> QED BY <1>1, <2>1, GoOnLoop
<1>3. CASE ReadQueue
  <2>1. agenda' \subseteq [at : DOMAIN Queue, staged : BOOLEAN]
    <3>1. CASE agenda' = agenda
      BY <3>1 DEF LoopInv
    <3>2. CASE agenda' = {[at |-> i, staged |-> status[Queue[i]] = "staged"] :
                              i \in {k \in DOMAIN Queue : Eligible(Queue[k])}}
      <4>1. \A i \in DOMAIN Queue : [at |-> i, staged |-> status[Queue[i]] = "staged"]
                                       \in [at : DOMAIN Queue, staged : BOOLEAN]
        OBVIOUS
      <4> QED BY <3>2, <4>1, Zenon
    <3> QED BY <1>3, <3>1, <3>2 DEF ReadQueue
  <2>2. loop = "read" /\ loop' \in {"unavailable", "wait", "scan"} /\ UNCHANGED <<executionVars, leaving>>
    BY <1>3 DEF ReadQueue
  <2> QED BY <1>1, <2>1, <2>2 DEF LoopInv, PhaseInv, executionVars, LoopState, IdlePhase, FaultCode, DispatchFault,
            LegacyPhase, StagePhase, Recovering, ChildPhase, ChildEnd
<1>4. CASE AdmitStage
  BY <1>1, <1>4, AdmittedLoop, LeaveLoop, PassOverLoop DEF AdmitStage
<1>5. CASE SkipRun
  BY <1>5, PassOverLoop DEF SkipRun
<1>6. CASE AdmitRun
  BY <1>1, <1>6, AdmittedLoop, LeaveLoop DEF AdmitRun
<1> QED BY <1>2, <1>3, <1>4, <1>5, <1>6 DEF Dispatching

LEMMA ExecutingLoop ==
    ASSUME LoopInv, StagedInv, Executing
    PROVE  LoopInv'
<1>1. /\ {"wait", "scan", "check", "staged_dispatch_failed"} \subseteq IdlePhase
      /\ loop \in {"start"} \cup StagePhase \cup ChildPhase \cup ChildEnd => active \in Job
      /\ loop \in ChildPhase \cup ChildEnd => work \in Attempt
      /\ loop \in {"claim", "insert", "complete"} => work \in Step \X Nat
  BY DEF LoopInv, PhaseInv, IdlePhase, FaultCode, DispatchFault
<1>2. ASSUME NEW outcomes, FinishLegacy(outcomes) \/ FailStage PROVE LoopInv'
  <2>1. Leave("wait") \/ Leave("check")
    BY <1>2 DEF FinishLegacy, FailStage
  <2> QED BY <1>1, <2>1, LeaveLoop
<1>3. CASE StartLegacy
  <2>1. CASE Leave("wait") \/ Refused
    BY <1>1, <2>1, LeaveLoop, RefusedLoop
  <2>2. CASE work' = <<active, NextOrdinal(active)>> /\ loop' = "prepare" /\ UNCHANGED <<agenda, active, cancelled, leaving>>
    <3>1. active \in Job /\ NextOrdinal(active) \in Nat
      BY <1>1, <1>3, LengthsAreNatural DEF StartLegacy, NextOrdinal, StagedInv
    <3> QED BY <2>2, <3>1, ControllerAssumption
            DEF LoopInv, PhaseInv, Attempt, LoopState, IdlePhase, FaultCode, DispatchFault,
                LegacyPhase, StagePhase, Recovering, ChildPhase, ChildEnd
  <2> QED BY <1>3, <2>1, <2>2 DEF StartLegacy
<1>4. CASE FindStep
  <2>1. CASE Refused
    BY <2>1, RefusedLoop
  <2>2. CASE GoOn("publish")
    BY <1>1, <1>4, <2>2, GoOnLoop DEF FindStep, StagePhase, LoopInv, PhaseInv
  <2>3. ASSUME NEW s \in StepsOf(active),
               IF stepState'[s] = "ready" THEN work' = <<s, currentAttempt[s]>> /\ loop' = "claim"
                                          ELSE loop' = "publish" /\ UNCHANGED work,
               UNCHANGED <<agenda, active, cancelled, leaving>>
        PROVE  LoopInv'
    <3>1. s \in Step /\ currentAttempt[s] \in Nat /\ active \in Job /\ work = NoWork
      BY <1>1, <1>4 DEF FindStep, StepsOf, StagedInv, TypeOK, LoopInv, PhaseInv, StagePhase
    <3>2. \/ work' \in Step \X Nat /\ loop' = "claim"
          \/ work' = NoWork /\ loop' = "publish"
      BY <2>3, <3>1
    <3> QED BY <2>3, <3>1, <3>2, ControllerAssumption
            DEF LoopInv, PhaseInv, Attempt, LoopState, IdlePhase, FaultCode, DispatchFault,
                LegacyPhase, StagePhase, Recovering, ChildPhase, ChildEnd
  <2> QED BY <1>4, <2>1, <2>2, <2>3 DEF FindStep
<1>5. CASE Claim
  <2>1. CASE Refused
    BY <2>1, RefusedLoop
  <2>2. CASE ClaimStep(work[1], work[2]) /\ work' = <<work[1], currentAttempt'[work[1]]>> /\ loop' = "prepare"
             /\ UNCHANGED <<agenda, active, cancelled, leaving>>
    <3>1. work[1] \in Step /\ active \in Job
      BY <1>1, <1>5 DEF Claim, StagePhase
    <3>2. currentAttempt'[work[1]] \in Nat
      BY <2>2, <3>1, StepFacts DEF ClaimStep, StagedInv, TypeOK
    <3> QED BY <2>2, <3>1, <3>2, ControllerAssumption
            DEF LoopInv, PhaseInv, Attempt, LoopState, IdlePhase, FaultCode, DispatchFault,
                LegacyPhase, StagePhase, Recovering, ChildPhase, ChildEnd
  <2> QED BY <1>5, <2>1, <2>2 DEF Claim
<1>6. CASE GiveUp \/ LaunchFails \/ EndLegacy
  BY <1>2, <1>6 DEF GiveUp, LaunchFails, EndLegacy
<1>7. CASE Announce \/ Launch
  <2>1. loop \in ChildPhase /\ \E next \in ChildPhase : GoOn(next)
    BY <1>7 DEF Announce, Launch, ChildPhase
  <2> QED BY <1>1, <2>1, GoOnLoop
<1>8. CASE Identify
  <2>1. CASE GoOn("child")
    BY <1>1, <1>8, <2>1, GoOnLoop DEF Identify, ChildPhase
  <2> QED BY <1>2, <1>8, <2>1 DEF Identify
<1>9. CASE ChildEnds
  <2>1. loop \in ChildPhase /\ \E next \in ChildEnd : GoOn(next)
    BY <1>9 DEF ChildEnds, ChildPhase, ChildEnd
  <2> QED BY <1>1, <2>1, GoOnLoop
<1>10. CASE EndStage
  <2>1. CASE GoOn("insert")
    <3>1. active \in Job /\ work \in Step \X Nat
      BY <1>1, <1>10 DEF EndStage, Staged, Attempt
    <3> QED BY <2>1, <3>1, GoOnLoop
  <2> QED BY <1>1, <1>2, <1>10, <2>1, LeaveLoop DEF EndStage
<1>11. CASE InsertOutput
  <2>1. GoOn("complete") \/ Leave("wait") \/ FailStage
    BY <1>11 DEF InsertOutput
  <2> QED BY <1>1, <1>2, <1>11, <2>1, GoOnLoop, LeaveLoop DEF InsertOutput, StagePhase
<1>12. CASE FinishStage
  <2>1. GoOn("publish") \/ Leave("wait")
    BY <1>12 DEF FinishStage
  <2> QED BY <1>1, <1>12, <2>1, GoOnLoop, LeaveLoop DEF FinishStage, StagePhase
<1>13. CASE PublishStage
  <2>1. Leave("scan") \/ Leave("wait")
    BY <1>13 DEF PublishStage
  <2> QED BY <1>1, <2>1, LeaveLoop
<1> QED BY <1>3, <1>4, <1>5, <1>6, <1>7, <1>8, <1>9, <1>10, <1>11, <1>12, <1>13 DEF Executing

\* The loop and its execution stand still, but for a cancellation.
LEMMA ToldLoop ==
    ASSUME LoopInv, UNCHANGED <<loop, agenda, work, active>>, leaving' \in BOOLEAN,
           cancelled' \in BOOLEAN, cancelled' => cancelled \/ active # NoJob
    PROVE  LoopInv'
BY DEF LoopInv, PhaseInv

\* A request leaves the loop as it is, but for the cancellation of an execution.
LEMMA RequestLoop ==
    ASSUME LoopInv, Request \/ RequestGoesOn
    PROVE  LoopInv'
<1>1. CASE Tell
  BY <1>1, ToldLoop DEF Tell, CancelledByRequest, LoopInv
<1>2. CASE Request \/ RevokeCancel \/ ResumeJob
  <2>1. UNCHANGED loopVars
    BY <1>2 DEF Request, WorkerStart, WorkerStop, ControllerStop, AbortStop, RevokeAccess, ResumeAccess,
                SetQueuePaused, CancelRequest, QueueRequest, CountAttempts, StagedRequest, StepRequest,
                RevokeCancel, ResumeJob, controllerVars
  <2> QED BY <2>1, ToldLoop DEF LoopInv, loopVars, executionVars
<1> QED BY <1>1, <1>2 DEF RequestGoesOn

\* The loop starts and ends with the process.
LEMMA GoneLoop ==
    ASSUME LoopInv, Boot \/ Gone
    PROVE  LoopInv'
<1>1. CASE Boot
  <2>1. loop = "down" /\ loop' = "reconcile" /\ UNCHANGED <<agenda, executionVars, leaving>>
    BY <1>1 DEF Boot
  <2>2. active = NoJob /\ GoOn("reconcile")
    BY <2>1 DEF LoopInv, PhaseInv, IdlePhase, GoOn
  <2> QED BY <2>2, GoOnLoop DEF Recovering
<1>2. CASE Gone
  <2>1. /\ loop' = "down" /\ work' = NoWork /\ active' = NoJob /\ cancelled' = FALSE /\ leaving' = FALSE
        /\ agenda' \subseteq [at : DOMAIN Queue, staged : BOOLEAN]
    BY <1>2 DEF Gone
  <2> QED BY <2>1 DEF LoopInv, PhaseInv, IdlePhase, FaultCode, DispatchFault, LoopState, LegacyPhase,
                      StagePhase, Recovering, ChildPhase, ChildEnd
<1> QED BY <1>1, <1>2

LEMMA LoopStep ==
    ASSUME ControllerInv, [ControllerNext]_allVars
    PROVE  LoopInv'
<1>1. LoopInv /\ StagedInv
  BY LoopInvHolds DEF ControllerInv
<1>2. CASE Boot \/ Exit \/ Crash
  BY <1>1, <1>2, GoneLoop DEF Exit, Crash
<1>3. CASE RememberIntent \/ SetWorkerEnds
  <2>1. UNCHANGED <<agenda, executionVars, leaving>> /\ active' = active
    BY <1>3 DEF RememberIntent, SetWorkerEnds, EnableFails, EnableCommits, executionVars
  <2>2. \/ loop' = loop
        \/ loop \in IdlePhase /\ loop' \in {"enabling", "wait"}
    BY <1>3 DEF RememberIntent, SetWorkerEnds, EnableFails, EnableCommits, AfterBoot, IdlePhase
  <2>3. CASE loop' = loop
    BY <1>1, <2>1, <2>3, ToldLoop DEF LoopInv, executionVars
  <2>4. CASE loop \in IdlePhase /\ loop' \in {"enabling", "wait"}
    <3>1. loop' \in IdlePhase /\ active = NoJob /\ GoOn(loop')
      BY <1>1, <2>1, <2>4 DEF LoopInv, PhaseInv, IdlePhase, GoOn
    <3> QED BY <1>1, <3>1, GoOnLoop
  <2> QED BY <2>2, <2>3, <2>4
<1>4. CASE Terminate
  BY <1>1, <1>4, ToldLoop DEF Terminate, LoopInv
<1>5. CASE UNCHANGED loopVars
  BY <1>1, <1>5, ToldLoop DEF LoopInv, loopVars, executionVars
<1>6. CASE SurvivorEnds \/ TimePasses \/ UNCHANGED allVars
  BY <1>5, <1>6 DEF SurvivorEnds, TimePasses, allVars, controllerVars
<1> QED BY <1>1, <1>2, <1>3, <1>4, <1>6, RecoveryLoop, DispatchingLoop, ExecutingLoop, RequestLoop
        DEF ControllerNext

-----------------------------------------------------------------------------
(***************************************************************************)
(* The gate                                                                *)
(***************************************************************************)

\* The variables of the gate and of the owner, typed, and what the gate promises.
OwnerInv ==
    /\ dispatch \in BOOLEAN /\ requested \in BOOLEAN
    /\ stopping \in BOOLEAN /\ stopDispatch \in BOOLEAN
    /\ recoveryBlocked \in BOOLEAN
    /\ workerErr \in FaultCode \cup {"", "recovery_blocked"}
    /\ inspecting \in BOOLEAN /\ intent \in BOOLEAN
    /\ handling \in Handling
    /\ queuePaused \in BOOLEAN /\ accessBlocked \in BOOLEAN
    /\ GateInv
    /\ QuietWhenClosed
    /\ HandlingInv

LEMMA OwnerInvHolds == ControllerInv => OwnerInv
BY DEF ControllerInv, ControllerTypeOK, ExecutionHeedsOwner, OwnerInv

\* The gate stays as it is, and the loop does not come back to the boot.
LEMMA GateKept ==
    ASSUME OwnerInv, UNCHANGED <<gateVars, inspecting, handling, intent>>,
           queuePaused' \in BOOLEAN, accessBlocked' \in BOOLEAN,
           \/ active' = active /\ (loop' = "intent" \/ loop' \in Recovering \cup {"down"} => loop' = loop)
           \/ active' = NoJob /\ loop' \notin {"intent", "down"} \cup Recovering
    PROVE  OwnerInv'
BY DEF OwnerInv, GateInv, QuietWhenClosed, HandlingInv, Revoking, Booting, gateVars

\* A request begins, goes on or ends.
LEMMA HandlingGate ==
    ASSUME OwnerInv, UNCHANGED <<gateVars, inspecting, intent, loop, active>>,
           queuePaused' \in BOOLEAN, accessBlocked' \in BOOLEAN, handling' \in Handling, HandlingInv'
    PROVE  OwnerInv'
BY DEF OwnerInv, GateInv, QuietWhenClosed, Booting, gateVars

\* What leaves the loop does not lead back to the boot.
LEMMA LeaveGate ==
    ASSUME OwnerInv, UNCHANGED <<gateVars, ownerVars>>, NEW next \in {"scan", "wait", "check", "staged_dispatch_failed"},
           Leave(next)
    PROVE  OwnerInv'
<1>1. active' = NoJob /\ loop' \notin {"intent", "down"} \cup Recovering
  BY DEF Leave, Recovering
<1> QED BY <1>1, GateKept DEF OwnerInv, ownerVars

\* Neither does what goes on with the execution.
LEMMA GoOnGate ==
    ASSUME OwnerInv, UNCHANGED <<gateVars, ownerVars, active>>,
           loop' = loop \/ loop' \notin {"intent", "down"} \cup Recovering
    PROVE  OwnerInv'
BY GateKept DEF OwnerInv, ownerVars

\* Recovery is blocked only while the process boots.
LEMMA RecoveryFailsGate ==
    ASSUME LoopInv, OwnerInv, loop \in Recovering, RecoveryFails, UNCHANGED ownerVars
    PROVE  OwnerInv'
<1>1. CASE active = NoJob
  <2>1. ~dispatch /\ ~inspecting
    BY <1>1 DEF OwnerInv, GateInv, Booting
  <2> QED BY <1>1, <2>1 DEF RecoveryFails, OwnerInv, GateInv, QuietWhenClosed, HandlingInv, Revoking, ownerVars,
                            executionVars
<1>2. CASE active # NoJob
  <2>1. Refused /\ UNCHANGED gateVars
    BY <1>2 DEF RecoveryFails
  <2> QED BY <2>1, LeaveGate DEF Refused
<1> QED BY <1>1, <1>2

\* Recovery goes on: the boot remains a boot, and an execution an execution.
LEMMA RecoveryGoesOnGate ==
    ASSUME OwnerInv, loop \in Recovering, NEW next \in Recovering \cup {"intent", "start"}, GoOn(next),
           next = "intent" => active = NoJob, UNCHANGED <<gateVars, ownerVars>>
    PROVE  OwnerInv'
<1>1. active' = active /\ loop' = next
  BY DEF GoOn, executionVars
<1>2. next # "down" /\ (active = NoJob => ~dispatch /\ ~inspecting)
  BY DEF OwnerInv, GateInv, Booting, Recovering
<1> QED BY <1>1, <1>2 DEF OwnerInv, GateInv, QuietWhenClosed, HandlingInv, Revoking, Booting, gateVars, ownerVars

LEMMA RecoveryGate ==
    ASSUME LoopInv, OwnerInv, Recovery
    PROVE  OwnerInv'
<1>1. loop \in Recovering /\ UNCHANGED ownerVars
  BY DEF Recovery, Reconcile, RecoverSteps, RecoverJobs, Recovering
<1>2. \/ UNCHANGED <<loopVars, gateVars>>
      \/ /\ UNCHANGED gateVars
         /\ \E next \in Recovering \cup {"intent", "start"} : GoOn(next) /\ (next = "intent" => active = NoJob)
      \/ RecoveryFails
  <2>1. "recover_steps" \in Recovering /\ "recover_jobs" \in Recovering
    BY DEF Recovering
  <2>2. CASE RecoverJobs
    BY <2>2 DEF RecoverJobs
  <2> QED BY <2>1, <2>2 DEF Recovery, Reconcile, RecoverSteps
<1>3. CASE UNCHANGED <<loopVars, gateVars>>
  BY <1>1, <1>3, GoOnGate DEF loopVars, executionVars
<1>4. ASSUME UNCHANGED gateVars, NEW next \in Recovering \cup {"intent", "start"}, GoOn(next),
             next = "intent" => active = NoJob
      PROVE  OwnerInv'
  BY <1>1, <1>4, RecoveryGoesOnGate
<1> QED BY <1>1, <1>2, <1>3, <1>4, RecoveryFailsGate

\* An execution is admitted behind an open gate only.
LEMMA AdmitGate ==
    ASSUME OwnerInv, NEW w, NEW next \in {"ready", "reconcile"}, Admit(w, next), AdmissionFree,
           active' # NoJob, UNCHANGED <<gateVars, ownerVars>>
    PROVE  OwnerInv'
<1>1. dispatch /\ ~stopping /\ ~recoveryBlocked
  BY DEF Admit, MayExecute, OwnerInv, GateInv
<1>2. ~inspecting /\ handling.op = "none" /\ HandlingInv'
  BY DEF AdmissionFree, HandlingInv, Revoking, ownerVars
<1> QED BY <1>1, <1>2 DEF OwnerInv, GateInv, QuietWhenClosed, Booting, Admit, gateVars, ownerVars,
                          Recovering

LEMMA DispatchingGate ==
    ASSUME LoopInv, OwnerInv, Dispatching
    PROVE  OwnerInv'
<1>1. UNCHANGED ownerVars /\ loop \notin {"down", "intent"} \cup Recovering
  BY DEF Dispatching, Tick, ReadQueue, Schedule, AdmitStage, SkipRun, AdmitRun, CheckDispatch, BlockDispatch,
         FaultCode, DispatchFault, Recovering
<1>2. ASSUME NEW w \in agenda, NEW next \in {"ready", "reconcile"}, loop = "scan", Admit(w, next), AdmissionFree,
             UNCHANGED gateVars
      PROVE  OwnerInv'
  <2>1. Queue[w.at] \in Job
    BY <1>2, ControllerAssumption DEF LoopInv
  <2> QED BY <1>1, <1>2, <2>1, AdmitGate, ControllerAssumption DEF Admit
<1>3. ASSUME NEW w, PassOver(w), UNCHANGED gateVars
      PROVE  OwnerInv'
  BY <1>1, <1>3, GoOnGate DEF PassOver, executionVars
<1>4. CASE Tick \/ ReadQueue \/ CheckDispatch
  <2>1. UNCHANGED <<gateVars, active>> /\ loop' \notin {"intent", "down"} \cup Recovering
    BY <1>4 DEF Tick, ReadQueue, CheckDispatch, AfterRefusal, GoOn, executionVars, Recovering
  <2> QED BY <1>1, <2>1, GoOnGate
<1>5. CASE Schedule \/ BlockDispatch
  <2>1. /\ dispatch' \in BOOLEAN /\ (dispatch' => dispatch) /\ workerErr' \in FaultCode \cup {"", "recovery_blocked"}
        /\ UNCHANGED <<requested, stopping, stopDispatch, recoveryBlocked, active>>
        /\ loop' = "wait"
    <3>1. CASE Schedule
      <4>1. /\ dispatch \in BOOLEAN /\ workerErr \in FaultCode \cup {"", "recovery_blocked"}
            /\ "unavailable" \in FaultCode
        BY <1>1 DEF OwnerInv, FaultCode
      <4>2. loop' = "wait" /\ active' = active
        BY <3>1 DEF Schedule, GoOn, executionVars
      <4>3. CASE UNCHANGED gateVars
        BY <4>1, <4>2, <4>3 DEF gateVars
      <4>4. CASE /\ dispatch' = FALSE /\ workerErr' = "unavailable"
                 /\ UNCHANGED <<requested, stopping, stopDispatch, recoveryBlocked>>
        BY <4>1, <4>2, <4>4
      <4> QED BY <3>1, <4>3, <4>4 DEF Schedule
    <3>2. CASE BlockDispatch
      <4>1. /\ dispatch' = FALSE /\ workerErr' = loop /\ loop \in FaultCode /\ GoOn("wait")
            /\ UNCHANGED <<requested, stopping, stopDispatch, recoveryBlocked>>
        BY <3>2 DEF BlockDispatch
      <4>2. loop' = "wait" /\ active' = active
        BY <4>1 DEF GoOn, executionVars
      <4> QED BY <4>1, <4>2
    <3> QED BY <1>5, <3>1, <3>2
  <2> QED BY <1>1, <2>1 DEF OwnerInv, GateInv, QuietWhenClosed, HandlingInv, Revoking, Booting, Recovering,
                            ownerVars
<1>6. CASE AdmitStage
  BY <1>1, <1>2, <1>3, <1>6, LeaveGate DEF AdmitStage
<1>7. CASE SkipRun
  BY <1>3, <1>7 DEF SkipRun
<1>8. CASE AdmitRun
  BY <1>1, <1>2, <1>8, LeaveGate DEF AdmitRun
<1> QED BY <1>4, <1>5, <1>6, <1>7, <1>8 DEF Dispatching

LEMMA ExecutingGate ==
    ASSUME LoopInv, OwnerInv, Executing
    PROVE  OwnerInv'
<1>1. UNCHANGED <<gateVars, ownerVars>>
  BY DEF Executing, StartLegacy, FindStep, Claim, GiveUp, Announce, Launch, LaunchFails, Identify, ChildEnds,
         EndLegacy, EndStage, InsertOutput, FinishStage, PublishStage
<1>2. ASSUME NEW outcomes, FinishLegacy(outcomes) PROVE OwnerInv'
  BY <1>1, <1>2, LeaveGate DEF FinishLegacy
<1>3. CASE FailStage
  BY <1>1, <1>3, LeaveGate DEF FailStage
<1>4. CASE Refused
  BY <1>1, <1>4, LeaveGate DEF Refused
<1>5. CASE \E next \in {"wait", "scan"} : Leave(next)
  BY <1>1, <1>5, LeaveGate
<1>6. CASE active' = active /\ loop' \notin {"intent", "down"} \cup Recovering
  BY <1>1, <1>6, GoOnGate
<1>7. CASE StartLegacy \/ FindStep \/ Claim
  <2>1. \/ active' = active /\ loop' \in {"prepare", "claim", "publish"}
        \/ Leave("wait") \/ Refused
    BY <1>7 DEF StartLegacy, FindStep, Claim, GoOn, executionVars
  <2> QED BY <1>4, <1>5, <1>6, <2>1 DEF Recovering
<1>8. CASE GiveUp \/ Announce \/ Launch \/ LaunchFails \/ Identify \/ ChildEnds \/ EndLegacy
  <2>1. \/ active' = active /\ loop' \in ChildPhase \cup ChildEnd
        \/ FailStage
        \/ \E outcomes : FinishLegacy(outcomes)
    BY <1>8 DEF GiveUp, Announce, Launch, LaunchFails, Identify, ChildEnds, EndLegacy, GoOn, executionVars,
                ChildPhase, ChildEnd
  <2> QED BY <1>2, <1>3, <1>6, <2>1 DEF Recovering, ChildPhase, ChildEnd
<1>9. CASE EndStage \/ InsertOutput \/ FinishStage \/ PublishStage
  <2>1. \/ active' = active /\ loop' \in StagePhase
        \/ FailStage
        \/ \E next \in {"wait", "scan"} : Leave(next)
    BY <1>9 DEF EndStage, InsertOutput, FinishStage, PublishStage, GoOn, executionVars, StagePhase
  <2> QED BY <1>3, <1>5, <1>6, <2>1 DEF Recovering, StagePhase
<1> QED BY <1>7, <1>8, <1>9 DEF Executing

\* The owner's requests look at the gate before they change it.
LEMMA RequestGate ==
    ASSUME LoopInv, OwnerInv, StagedInv, Request
    PROVE  OwnerInv'
<1>1. Serving /\ UNCHANGED <<loop, active>>
  BY DEF Request, WorkerStart, WorkerStop, ControllerStop, AbortStop, RevokeAccess, ResumeAccess, SetQueuePaused,
         CancelRequest, QueueRequest, CountAttempts, StagedRequest, StepRequest, controllerVars, loopVars,
         executionVars
<1>2. ~Booting /\ loop # "down"
  BY <1>1 DEF Serving
<1>3. CASE WorkerStart
  BY <1>1, <1>2, <1>3 DEF WorkerStart, MayEnable, OwnerInv, GateInv, QuietWhenClosed, HandlingInv, Revoking,
                          Booting, gateVars
<1>4. CASE WorkerStop
  BY <1>1, <1>2, <1>4 DEF WorkerStop, OwnerInv, GateInv, QuietWhenClosed, HandlingInv, Revoking, Booting
<1>5. CASE ControllerStop
  BY <1>1, <1>2, <1>5 DEF ControllerStop, MayStop, OwnerInv, GateInv, QuietWhenClosed, HandlingInv, Revoking,
                          Booting, ownerVars
<1>6. CASE AbortStop
  BY <1>1, <1>2, <1>6 DEF AbortStop, OwnerInv, GateInv, QuietWhenClosed, HandlingInv, Revoking, Booting, ownerVars
<1>7. ASSUME UNCHANGED <<gateVars, inspecting, handling>>, intent' = intent,
             queuePaused' \in BOOLEAN, accessBlocked' \in BOOLEAN
      PROVE  OwnerInv'
  BY <1>1, <1>7, GateKept DEF OwnerInv
<1>8. CASE RevokeAccess
  <2>1. /\ handling' \in Handling /\ handling'.job = active
        /\ handling'.op = "revoke" => active \in Job
    BY <1>8 DEF RevokeAccess, Handling, Idle, LoopInv
  <2>2. HandlingInv'
    BY <1>1, <2>1 DEF HandlingInv
  <2> QED BY <1>1, <1>8, <2>1, <2>2, HandlingGate DEF RevokeAccess, OwnerInv
<1>9. CASE ResumeAccess
  BY <1>7, <1>9 DEF ResumeAccess, OwnerInv
<1>10. ASSUME NEW p \in BOOLEAN, SetQueuePaused(p) PROVE OwnerInv'
  BY <1>7, <1>10 DEF SetQueuePaused, OwnerInv
<1>11. ASSUME UNCHANGED <<gateVars, ownerVars>> PROVE OwnerInv'
  BY <1>7, <1>11 DEF OwnerInv, ownerVars
<1>12. ASSUME NEW j \in Job, CancelRequest(j) \/ CountAttempts(j) PROVE OwnerInv'
  <2>1. handling' \in Handling /\ handling'.op \in {"cancel", "resume"}
    <3>1. CASE CancelRequest(j)
      BY <3>1 DEF CancelRequest, Handling, Idle
    <3>2. CASE CountAttempts(j)
      <4>1. Len(attempts[j]) \in Nat
        BY LengthsAreNatural DEF StagedInv
      <4>2. handling' = [op |-> "resume", job |-> j, seen |-> Len(attempts[j])]
        BY <3>2 DEF CountAttempts
      <4> QED BY <4>1, <4>2 DEF Handling
    <3> QED BY <1>12, <3>1, <3>2
  <2>2. HandlingInv'
    BY <2>1 DEF HandlingInv, Revoking
  <2>3. UNCHANGED <<gateVars, inspecting, intent, queuePaused, accessBlocked>>
    BY <1>12 DEF CancelRequest, CountAttempts
  <2> QED BY <1>1, <2>1, <2>2, <2>3, HandlingGate DEF OwnerInv
<1>13. ASSUME NEW j \in Job, QueueRequest(j) \/ StagedRequest(j) PROVE OwnerInv'
  BY <1>11, <1>13 DEF QueueRequest, StagedRequest, controllerVars
<1>14. ASSUME NEW s \in Step, StepRequest(s) PROVE OwnerInv'
  BY <1>11, <1>14 DEF StepRequest, controllerVars
<1> QED BY <1>3, <1>4, <1>5, <1>6, <1>8, <1>9, <1>10, <1>12, <1>13, <1>14 DEF Request

\* The rest of a request leaves the gate alone.
LEMMA RequestGoesOnGate ==
    ASSUME OwnerInv, RequestGoesOn
    PROVE  OwnerInv'
<1>1. /\ UNCHANGED <<gateVars, inspecting, intent, loop, active, accessBlocked>>
      /\ queuePaused' \in BOOLEAN
  BY DEF RequestGoesOn, RevokeCancel, Tell, ResumeJob, OwnerInv, loopVars, executionVars
<1>2. CASE RevokeCancel
  <2>1. /\ handling' \in Handling /\ handling'.job = handling.job /\ Revoking
        /\ handling'.op = "revoked"
    BY <1>2 DEF RevokeCancel, OwnerInv, Handling, Revoking
  <2>2. HandlingInv'
    BY <1>1, <2>1 DEF OwnerInv, HandlingInv
  <2> QED BY <1>1, <2>1, <2>2, HandlingGate DEF OwnerInv
<1>3. CASE Tell \/ ResumeJob
  <2>1. handling' \in Handling /\ handling'.op = "none"
    BY <1>3 DEF Tell, ResumeJob, Handling, Idle
  <2>2. HandlingInv'
    BY <2>1 DEF HandlingInv, Revoking
  <2> QED BY <1>1, <2>1, <2>2, HandlingGate DEF OwnerInv
<1> QED BY <1>2, <1>3 DEF RequestGoesOn

LEMMA OwnerStep ==
    ASSUME ControllerInv, [ControllerNext]_allVars
    PROVE  OwnerInv'
<1>1. LoopInv /\ OwnerInv /\ StagedInv
  BY LoopInvHolds, OwnerInvHolds DEF ControllerInv
<1>2. CASE Boot
  BY <1>1, <1>2 DEF Boot, OwnerInv, GateInv, QuietWhenClosed, HandlingInv, Revoking, Booting, gateVars, ownerVars, executionVars
<1>3. CASE RememberIntent
  <2>1. /\ loop = "intent" /\ ~dispatch /\ ~inspecting
    BY <1>1, <1>3 DEF RememberIntent, OwnerInv, GateInv, Booting
  <2>2. /\ inspecting' \in BOOLEAN /\ inspecting' => ~recoveryBlocked
        /\ loop' \in {"enabling", "wait"} /\ active' = active
    BY <1>3, <2>1 DEF RememberIntent, MayEnable, executionVars
  <2> QED BY <1>1, <1>3, <2>1, <2>2
          DEF RememberIntent, OwnerInv, GateInv, QuietWhenClosed, HandlingInv, Revoking, Booting, Recovering
<1>4. CASE EnableFails
  <2>1. ~Booting /\ loop # "down" /\ active' = active
    BY <1>1, <1>4 DEF EnableFails, OwnerInv, GateInv, executionVars
  <2> QED BY <1>1, <1>4, <2>1
          DEF EnableFails, AfterBoot, OwnerInv, GateInv, QuietWhenClosed, HandlingInv, Revoking, Booting, Recovering, FaultCode
<1>5. CASE EnableCommits
  <2>1. ~Booting /\ loop # "down" /\ active' = active /\ ~recoveryBlocked
    BY <1>1, <1>5 DEF EnableCommits, OwnerInv, GateInv, executionVars
  <2> QED BY <1>1, <1>5, <2>1
          DEF EnableCommits, AfterBoot, OwnerInv, GateInv, QuietWhenClosed, HandlingInv, Revoking, Booting, Recovering
<1>6. CASE Exit \/ Crash
  <2>1. Gone
    BY <1>6 DEF Exit, Crash
  <2> QED BY <1>1, <2>1 DEF Gone, OwnerInv, GateInv, QuietWhenClosed, HandlingInv, Revoking, Handling, Idle
<1>7. CASE Terminate \/ SurvivorEnds \/ TimePasses \/ UNCHANGED allVars
  <2>1. UNCHANGED <<gateVars, ownerVars, loop, active>>
    BY <1>7 DEF Terminate, SurvivorEnds, TimePasses, allVars, controllerVars, loopVars, executionVars
  <2> QED BY <1>1, <2>1, GoOnGate
<1> QED BY <1>1, <1>2, <1>3, <1>4, <1>5, <1>6, <1>7, RecoveryGate, DispatchingGate, ExecutingGate, RequestGate,
             RequestGoesOnGate
        DEF ControllerNext, SetWorkerEnds

-----------------------------------------------------------------------------
(***************************************************************************)
(* The processes, and what an execution knows                              *)
(***************************************************************************)

HeedInv ==
    /\ groups \subseteq Attempt /\ starting \subseteq Attempt
    /\ WorkInv
    /\ CancellationIsSeen
    /\ RevocationIsSeen
    /\ ProcessInv

LEMMA HeedInvHolds == ControllerInv => HeedInv
BY DEF ControllerInv, ControllerTypeOK, ExecutionHeedsOwner, HeedInv

\* The places of the loop about which an invariant on processes speaks.
Guarded == {"recover_steps", "recover_jobs", "start", "prepare", "launch", "identify", "child"}

\* Processes only end, and nothing is worked on.
LEMMA IdleHeeds ==
    ASSUME HeedInv, work' = NoWork, current' = current, groups' \subseteq groups, starting' \subseteq starting,
           loop' \notin Guarded
    PROVE  HeedInv'
BY DEF HeedInv, WorkInv, CancellationIsSeen, RevocationIsSeen, ProcessInv, Guarded

LEMMA LeaveHeeds ==
    ASSUME HeedInv, NEW next \in {"scan", "wait", "check", "staged_dispatch_failed"}, Leave(next),
           current' = current, groups' \subseteq groups, starting' \subseteq starting
    PROVE  HeedInv'
<1>1. work' = NoWork /\ loop' \notin Guarded
  BY DEF Leave, Guarded
<1> QED BY <1>1, IdleHeeds

\* Processes only end, and the execution goes on.
LEMMA GoOnHeeds ==
    ASSUME HeedInv, NEW next, GoOn(next), next \notin Guarded \/ (next = "child" /\ loop = "identify"),
           UNCHANGED <<status, current, ownerVars>>,
           groups' \subseteq groups, starting' \subseteq starting
    PROVE  HeedInv'
<1>1. /\ UNCHANGED <<work, active, cancelled, handling, accessBlocked>>
      /\ loop' \notin Guarded \/ (loop' = "child" /\ loop = "identify")
  BY DEF GoOn, executionVars, ownerVars
<1> QED BY <1>1 DEF Telling, Revoking, HeedInv, WorkInv, CancellationIsSeen, RevocationIsSeen, ProcessInv, Guarded

\* The loop stands still while others act, and the execution is told what it must know.
LEMMA ToldHeeds ==
    ASSUME HeedInv, UNCHANGED <<loop, work, active, current>>, CancellationIsSeen', RevocationIsSeen',
           groups' \subseteq groups, starting' \subseteq starting
    PROVE  HeedInv'
BY DEF HeedInv, WorkInv, ProcessInv

\* The same, with nothing new for it to know.
LEMMA StillHeeds ==
    ASSUME HeedInv, UNCHANGED <<loop, work, active, current, handling>>, cancelled => cancelled',
           accessBlocked' => accessBlocked,
           status'[active] = "cancelled" => status[active] = "cancelled" \/ cancelled' \/ work = NoWork,
           groups' \subseteq groups, starting' \subseteq starting
    PROVE  HeedInv'
<1>1. CancellationIsSeen' /\ RevocationIsSeen'
  BY DEF HeedInv, CancellationIsSeen, RevocationIsSeen, Telling, Revoking
<1> QED BY <1>1, ToldHeeds

\* The records name all that may be alive, so recovery leaves nothing of it.
LEMMA RecoveryHeeds ==
    ASSUME LoopInv, HeedInv, Recovery
    PROVE  HeedInv'
<1>1. work = NoWork /\ "intent" \notin Guarded
  BY DEF LoopInv, PhaseInv, Recovery, Reconcile, RecoverSteps, RecoverJobs, Recovering, Guarded
<1>2. ASSUME RecoveryFails, current' = current, groups' \subseteq groups, starting' = starting
      PROVE  HeedInv'
  <2>1. CASE active = NoJob
    <3>1. work' = NoWork /\ loop' = "intent"
      BY <1>1, <1>2, <2>1 DEF RecoveryFails, executionVars
    <3> QED BY <1>1, <1>2, <3>1, IdleHeeds
  <2>2. CASE active # NoJob
    BY <1>2, <2>2, LeaveHeeds DEF RecoveryFails, Refused
  <2> QED BY <2>1, <2>2
<1>3. CASE Reconcile
  <2>1. PICK left \in SUBSET (Recorded \cap groups) :
            /\ groups' = (groups \ Recorded) \cup left
            /\ \/ left = {} /\ starting \cap Recorded = {} /\ GoOn("recover_steps")
               \/ RecoveryFails
    BY <1>3 DEF Reconcile
  <2>2. current' = current /\ starting' = starting /\ groups' \subseteq groups
    BY <1>3, <2>1 DEF Reconcile, vars, queueVars
  <2>3. CASE left = {} /\ starting \cap Recorded = {} /\ GoOn("recover_steps")
    <3>1. Recorded = groups \cup starting
      BY DEF Recorded, HeedInv, ProcessInv
    <3>2. groups' = {} /\ starting' = {}
      BY <2>1, <2>2, <2>3, <3>1
    <3>3. work' = NoWork /\ loop' = "recover_steps"
      BY <1>1, <2>3 DEF GoOn, executionVars
    <3> QED BY <3>2, <3>3 DEF HeedInv, WorkInv, CancellationIsSeen, RevocationIsSeen, ProcessInv
  <2> QED BY <1>2, <2>1, <2>2, <2>3
<1>4. CASE RecoverSteps \/ RecoverJobs
  <2>1. UNCHANGED <<current, groups, starting>>
    <3>1. CASE RecoverSteps
      BY <3>1 DEF RecoverSteps, RecoverInterruptedSteps, vars, queueVars, processVars
    <3>2. CASE RecoverJobs
      BY <3>2 DEF RecoverJobs, RecoverInterrupted, vars, queueVars, processVars
    <3> QED BY <1>4, <3>1, <3>2
  <2>2. loop \in {"recover_steps", "recover_jobs"} /\ groups = {} /\ starting = {}
    BY <1>4 DEF RecoverSteps, RecoverJobs, HeedInv, ProcessInv
  <2>3. CASE UNCHANGED loopVars \/ \E next \in {"recover_jobs", "intent", "start"} : GoOn(next)
    <3>1. work' = NoWork /\ loop' \in {"recover_steps", "recover_jobs", "intent", "start"}
      BY <1>1, <2>2, <2>3 DEF loopVars, GoOn, executionVars
    <3> QED BY <2>1, <2>2, <3>1 DEF HeedInv, WorkInv, CancellationIsSeen, RevocationIsSeen, ProcessInv
  <2> QED BY <1>2, <1>4, <2>1, <2>3 DEF RecoverSteps, RecoverJobs
<1> QED BY <1>3, <1>4 DEF Recovery

LEMMA DispatchingHeeds ==
    ASSUME LoopInv, HeedInv, Dispatching
    PROVE  HeedInv'
<1>1. UNCHANGED vars /\ UNCHANGED processVars
  BY DEF Dispatching, Tick, ReadQueue, Schedule, AdmitStage, SkipRun, AdmitRun, CheckDispatch, BlockDispatch
<1>2. UNCHANGED <<current, groups, starting>>
  BY <1>1 DEF vars, queueVars, processVars
<1>3. work = NoWork
  BY DEF LoopInv, PhaseInv, IdlePhase, Dispatching, Tick, ReadQueue, Schedule, AdmitStage, SkipRun, AdmitRun,
         CheckDispatch, BlockDispatch, FaultCode
<1>4. work' = NoWork /\ loop' \notin Guarded
  <2>1. CASE Tick \/ ReadQueue \/ Schedule
    BY <1>3, <2>1 DEF Tick, ReadQueue, Schedule, GoOn, executionVars, Guarded
  <2>2. CASE CheckDispatch \/ BlockDispatch
    BY <1>3, <2>2 DEF CheckDispatch, BlockDispatch, AfterRefusal, GoOn, executionVars, Guarded
  <2>3. CASE AdmitStage \/ SkipRun \/ AdmitRun
    BY <1>3, <2>3 DEF AdmitStage, SkipRun, AdmitRun, Admit, PassOver, Leave, executionVars, Guarded
  <2> QED BY <2>1, <2>2, <2>3 DEF Dispatching
<1> QED BY <1>2, <1>4, IdleHeeds

\* An execution works on the attempt it has recorded or claimed, and starts no process but
\* that attempt's.
LEMMA ExecutingHeeds ==
    ASSUME LoopInv, HeedInv, StagedInv, Executing
    PROVE  HeedInv'
<1>1. /\ loop \in {"start"} \cup StagePhase \cup ChildPhase \cup ChildEnd => active \in Job
      /\ loop \in {"start", "ready"} => work = NoWork
      /\ loop \in ChildPhase \cup ChildEnd => work \in Attempt
      /\ loop \in {"claim", "insert", "complete"} => work \in Step \X Nat
      /\ UNCHANGED <<ownerVars, handling, accessBlocked>>
  BY DEF LoopInv, PhaseInv, Executing, StartLegacy, FindStep, Claim, GiveUp, Announce, Launch, LaunchFails, Identify,
         ChildEnds, EndLegacy, EndStage, InsertOutput, FinishStage, PublishStage, ownerVars
<1>2. ASSUME NEW outcomes, FinishLegacy(outcomes), groups' \subseteq groups, starting' \subseteq starting
      PROVE  HeedInv'
  <2>1. current' = current
    BY <1>2 DEF FinishLegacy, FinishAttempt, vars, queueVars
  <2> QED BY <1>2, <2>1, LeaveHeeds DEF FinishLegacy
<1>3. ASSUME FailStage, groups' \subseteq groups, starting' \subseteq starting
      PROVE  HeedInv'
  <2>1. current' = current
    BY <1>3 DEF FailStage, CompleteStep, vars, queueVars
  <2> QED BY <1>3, <2>1, LeaveHeeds DEF FailStage
<1>4. ASSUME Refused, UNCHANGED <<current, groups, starting>> PROVE HeedInv'
  BY <1>4, LeaveHeeds DEF Refused
<1>5. CASE StartLegacy
  <2>1. active \in Job /\ groups = {} /\ starting = {} /\ UNCHANGED <<groups, starting>>
    BY <1>1, <1>5 DEF StartLegacy, HeedInv, ProcessInv, processVars
  <2>2. CASE StartAttempt(active) /\ work' = <<active, NextOrdinal(active)>> /\ loop' = "prepare" /\ active' = active
    <3>1. current'[active] = NextOrdinal(active) /\ status'[active] = "running"
      BY <2>1, <2>2 DEF StartAttempt, StagedInv, TypeOK, QueueTypeOK
    <3>2. work'[1] = active /\ work'[2] = NextOrdinal(active)
      BY <2>2
    <3> QED BY <2>1, <2>2, <3>1, <3>2 DEF HeedInv, WorkInv, CancellationIsSeen, RevocationIsSeen, ProcessInv
  <2>3. CASE ExhaustBudget(active) /\ Leave("wait")
    <3>1. current' = current
      BY <2>3 DEF ExhaustBudget
    <3> QED BY <2>1, <2>3, <3>1, LeaveHeeds
  <2>4. CASE Refused /\ UNCHANGED vars
    BY <1>4, <2>1, <2>4 DEF vars, queueVars
  <2> QED BY <1>5, <2>2, <2>3, <2>4 DEF StartLegacy
<1>6. CASE FindStep
  <2>1. UNCHANGED <<status, current, groups, starting>>
    BY <1>6 DEF FindStep, ReadyStep, vars, queueVars, processVars
  <2>2. CASE Refused
    BY <1>4, <2>1, <2>2
  <2>3. CASE GoOn("publish")
    BY <1>1, <2>1, <2>3, GoOnHeeds DEF Guarded
  <2>4. ASSUME NEW s \in StepsOf(active), Open(active),
               IF stepState'[s] = "ready" THEN work' = <<s, currentAttempt[s]>> /\ loop' = "claim"
                                          ELSE loop' = "publish" /\ UNCHANGED work,
               UNCHANGED <<active, cancelled>>
        PROVE  HeedInv'
    <3>1. work = NoWork /\ s \in Step /\ s \notin Job /\ status[active] = "staged" /\ loop' \in {"claim", "publish"}
      BY <1>1, <1>6, <2>4, ControllerAssumption DEF FindStep, StepsOf, Open
    <3>2. work' = NoWork \/ work'[1] \notin Job
      BY <2>4, <3>1
    <3> QED BY <2>1, <2>4, <3>1, <3>2 DEF HeedInv, WorkInv, CancellationIsSeen, RevocationIsSeen, ProcessInv
  <2>5. \A s \in StepsOf(active) : FirstReady(s) \/ ReadyStep(s) => Open(active)
    BY DEF FirstReady, ReadyStep, StepsOf
  <2> QED BY <1>6, <2>2, <2>3, <2>4, <2>5 DEF FindStep
<1>7. CASE Claim
  <2>1. UNCHANGED <<status, current, groups, starting>>
    BY <1>7 DEF Claim, ClaimStep, vars, queueVars, processVars
  <2>2. CASE Refused
    BY <1>4, <2>1, <2>2
  <2>3. CASE work' = <<work[1], currentAttempt'[work[1]]>> /\ loop' = "prepare" /\ UNCHANGED <<active, cancelled>>
    <3>1. work # NoWork /\ work[1] \in Step /\ work[1] \notin Job
      BY <1>1, <1>7, ControllerAssumption DEF Claim
    <3>2. work'[1] \notin Job
      BY <2>3, <3>1
    <3> QED BY <1>1, <2>1, <2>3, <3>1, <3>2 DEF Telling, HeedInv, WorkInv, CancellationIsSeen, RevocationIsSeen, ProcessInv
  <2> QED BY <1>7, <2>2, <2>3 DEF Claim
<1>8. CASE GiveUp
  BY <1>2, <1>3, <1>8 DEF GiveUp, processVars
<1>9. CASE Announce
  <2>1. /\ work \in Attempt /\ ~accessBlocked /\ ~accessBlocked' /\ starting' = starting \cup {work} /\ groups' = groups
        /\ loop = "prepare" /\ loop' = "launch" /\ UNCHANGED <<status, current, work, active, cancelled>>
    BY <1>1, <1>9 DEF Announce, GoOn, executionVars, ownerVars, vars, queueVars, ChildPhase
  <2>2. work # NoWork
    BY <2>1, ControllerAssumption DEF Attempt
  <2>3. \A g \in groups' \cup starting' : g[1] \in Job => g[2] = current'[g[1]]
    BY <2>1, <2>2 DEF HeedInv, WorkInv, ProcessInv
  <2>4. groups' \subseteq Attempt /\ starting' \subseteq Attempt
    BY <2>1 DEF HeedInv
  <2> QED BY <1>1, <2>1, <2>3, <2>4 DEF Telling, Revoking, HeedInv, WorkInv, CancellationIsSeen, RevocationIsSeen, ProcessInv
<1>10. CASE Launch
  <2>1. /\ work \in Attempt /\ groups' = groups \cup {work} /\ starting' = starting
        /\ loop = "launch" /\ loop' = "identify" /\ UNCHANGED <<status, current, work, active, cancelled>>
    BY <1>1, <1>10 DEF Launch, GoOn, executionVars, vars, queueVars, ChildPhase
  <2>2. work # NoWork
    BY <2>1, ControllerAssumption DEF Attempt
  <2>3. \A g \in groups' \cup starting' : g[1] \in Job => g[2] = current'[g[1]]
    BY <2>1, <2>2 DEF HeedInv, WorkInv, ProcessInv
  <2>4. groups' \subseteq Attempt /\ starting' \subseteq Attempt
    BY <2>1 DEF HeedInv
  <2> QED BY <1>1, <2>1, <2>3, <2>4 DEF Telling, Revoking, HeedInv, WorkInv, CancellationIsSeen, RevocationIsSeen, ProcessInv
<1>11. CASE LaunchFails
  BY <1>2, <1>3, <1>11 DEF LaunchFails
<1>12. CASE Identify
  <2>1. groups' \subseteq groups /\ starting' \subseteq starting
    BY <1>12 DEF Identify
  <2>2. CASE GoOn("child") /\ UNCHANGED vars
    BY <1>1, <1>12, <2>1, <2>2, GoOnHeeds DEF Identify, vars, queueVars
  <2> QED BY <1>2, <1>3, <1>12, <2>1, <2>2 DEF Identify
<1>13. CASE ChildEnds
  <2>1. /\ groups' \subseteq groups /\ starting' = starting /\ UNCHANGED <<status, current>>
        /\ \E next \in ChildEnd : GoOn(next)
    BY <1>13 DEF ChildEnds, ChildEnd, vars, queueVars
  <2> QED BY <1>1, <2>1, GoOnHeeds DEF Guarded, ChildEnd
<1>14. CASE EndLegacy
  BY <1>2, <1>14 DEF EndLegacy, processVars
<1>15. CASE EndStage \/ InsertOutput \/ FinishStage \/ PublishStage
  <2>1. UNCHANGED <<status, current, groups, starting>>
    <3>1. CASE EndStage \/ InsertOutput
      BY <3>1 DEF EndStage, InsertOutput, BeginSaveArtifact, EndSaveArtifact, FailStage, CompleteStep,
                  vars, queueVars, processVars
    <3>2. CASE FinishStage \/ PublishStage
      BY <3>2 DEF FinishStage, PublishStage, PublishValidatedResult, PublishResultEvent, CompleteStep,
                  vars, queueVars, processVars
    <3> QED BY <1>15, <3>1, <3>2
  <2>2. \/ FailStage
        \/ \E next \in {"insert", "complete", "publish"} : GoOn(next)
        \/ \E next \in {"scan", "wait"} : Leave(next)
    BY <1>15 DEF EndStage, InsertOutput, FinishStage, PublishStage
  <2> QED BY <1>1, <1>3, <2>1, <2>2, GoOnHeeds, LeaveHeeds DEF Guarded
<1> QED BY <1>5, <1>6, <1>7, <1>8, <1>9, <1>10, <1>11, <1>12, <1>13, <1>14, <1>15 DEF Executing

\* A request that ends what executes remembers it until the execution has been told.
LEMMA RequestHeeds ==
    ASSUME LoopInv, HeedInv, StagedInv, Request
    PROVE  HeedInv'
<1>1. UNCHANGED <<loop, work, active, current, groups, starting>>
  <2>1. CASE WorkerStart \/ WorkerStop \/ ControllerStop \/ AbortStop \/ RevokeAccess \/ ResumeAccess
             \/ \E p \in BOOLEAN : SetQueuePaused(p)
    BY <2>1 DEF WorkerStart, WorkerStop, ControllerStop, AbortStop, RevokeAccess, ResumeAccess, SetQueuePaused,
                vars, queueVars, loopVars, executionVars, processVars
  <2>2. CASE \E j \in Job : CancelRequest(j) \/ QueueRequest(j) \/ CountAttempts(j) \/ StagedRequest(j)
    BY <2>2 DEF CancelRequest, QueueRequest, CountAttempts, StagedRequest, Cancel, CancelJob, Submit, SubmitStaged,
                SetPaused, vars, queueVars, controllerVars, loopVars, executionVars, processVars
  <2>3. CASE \E s \in Step : StepRequest(s)
    BY <2>3 DEF StepRequest, ApproveStep, RetryStep, queueVars, controllerVars, loopVars, executionVars, processVars
  <2> QED BY <2>1, <2>2, <2>3 DEF Request
<1>2. /\ active \in Job \/ work = NoWork
      /\ status \in [Job -> JobStatus]
      /\ ~Telling /\ ~Revoking
  <2>1. Serving
    BY DEF Request, WorkerStart, WorkerStop, ControllerStop, AbortStop, RevokeAccess, ResumeAccess, SetQueuePaused,
           CancelRequest, QueueRequest, CountAttempts, StagedRequest, StepRequest
  <2> QED BY <2>1 DEF Serving, AdmissionFree, Telling, Revoking, LoopInv, PhaseInv, StagedInv, TypeOK, QueueTypeOK
<1>3. CASE UNCHANGED <<status, cancelled, handling>> /\ (accessBlocked' => accessBlocked)
  BY <1>1, <1>3, StillHeeds
<1>4. ASSUME NEW j \in Job, CancelRequest(j) PROVE HeedInv'
  <2>1. /\ UNCHANGED <<cancelled, accessBlocked>>
        /\ handling'.op = "cancel" /\ handling'.job = j
        /\ status' = [status EXCEPT ![j] = "cancelled"]
    BY <1>4 DEF CancelRequest, Cancel, CancelJob, Idle, loopVars, executionVars
  <2>2. CancellationIsSeen'
    BY <1>1, <1>2, <2>1 DEF HeedInv, CancellationIsSeen, Telling
  <2>3. RevocationIsSeen'
    BY <1>1, <1>2, <2>1 DEF HeedInv, RevocationIsSeen
  <2> QED BY <1>1, <2>2, <2>3, ToldHeeds
<1>5. CASE RevokeAccess
  <2>1. UNCHANGED <<status, cancelled>> /\ Revoking'
    BY <1>5 DEF RevokeAccess, Idle, Revoking, vars, queueVars, loopVars, executionVars
  <2>2. CancellationIsSeen'
    BY <1>1, <1>2, <2>1 DEF HeedInv, CancellationIsSeen
  <2>3. RevocationIsSeen'
    BY <2>1 DEF RevocationIsSeen
  <2> QED BY <1>1, <2>2, <2>3, ToldHeeds
<1>6. ASSUME NEW j \in Job, NEW st \in {"queued", "staged"}, status' = [status EXCEPT ![j] = st],
             UNCHANGED <<cancelled, handling, accessBlocked>>
      PROVE  HeedInv'
  <2>1. active \in Job => status'[active] = IF active = j THEN st ELSE status[active]
    BY <1>2, <1>6
  <2> QED BY <1>1, <1>2, <1>6, <2>1, StillHeeds
<1>7. ASSUME NEW j \in Job, QueueRequest(j) \/ StagedRequest(j) PROVE HeedInv'
  <2>1. UNCHANGED <<cancelled, handling, accessBlocked>>
    BY <1>7 DEF QueueRequest, StagedRequest, controllerVars, loopVars, executionVars, ownerVars
  <2>2. UNCHANGED status \/ \E st \in {"queued", "staged"} : status' = [status EXCEPT ![j] = st]
    BY <1>7 DEF QueueRequest, StagedRequest, Submit, SubmitStaged, SetPaused, queueVars
  <2> QED BY <1>3, <1>6, <2>1, <2>2
<1>8. ASSUME NEW j \in Job, CountAttempts(j) PROVE HeedInv'
  <2>1. UNCHANGED <<status, cancelled, accessBlocked>>
    BY <1>8 DEF CountAttempts, vars, queueVars, loopVars, executionVars
  <2>2. CancellationIsSeen' /\ RevocationIsSeen'
    BY <1>1, <1>2, <2>1 DEF HeedInv, CancellationIsSeen, RevocationIsSeen
  <2> QED BY <1>1, <2>2, ToldHeeds
<1>9. CASE \/ WorkerStart \/ WorkerStop \/ ControllerStop \/ AbortStop \/ ResumeAccess
           \/ \E p \in BOOLEAN : SetQueuePaused(p)
           \/ \E s \in Step : StepRequest(s)
  <2>1. CASE WorkerStart \/ WorkerStop \/ ControllerStop \/ AbortStop
    <3>1. UNCHANGED <<status, cancelled, handling, accessBlocked>>
      BY <2>1 DEF WorkerStart, WorkerStop, ControllerStop, AbortStop, vars, queueVars, loopVars, executionVars, ownerVars
    <3> QED BY <1>3, <3>1
  <2>2. CASE ResumeAccess
    <3>1. UNCHANGED <<status, cancelled, handling>> /\ ~accessBlocked'
      BY <2>2 DEF ResumeAccess, vars, queueVars, loopVars, executionVars
    <3> QED BY <1>3, <3>1
  <2>3. ASSUME NEW p \in BOOLEAN, SetQueuePaused(p) PROVE HeedInv'
    <3>1. UNCHANGED <<status, cancelled, handling, accessBlocked>>
      BY <2>3 DEF SetQueuePaused, vars, queueVars, loopVars, executionVars
    <3> QED BY <1>3, <3>1
  <2>4. ASSUME NEW s \in Step, StepRequest(s) PROVE HeedInv'
    <3>1. UNCHANGED <<status, cancelled, handling, accessBlocked>>
      BY <2>4 DEF StepRequest, ApproveStep, RetryStep, queueVars, controllerVars, loopVars, executionVars, ownerVars
    <3> QED BY <1>3, <3>1
  <2> QED BY <1>9, <2>1, <2>2, <2>3, <2>4
<1> QED BY <1>4, <1>5, <1>7, <1>8, <1>9 DEF Request

\* The job that a request has ended is the active one or none, and its execution is told.
LEMMA RequestGoesOnHeeds ==
    ASSUME LoopInv, HeedInv, StagedInv, handling \in Handling, HandlingInv, ResumeInv, RequestGoesOn
    PROVE  HeedInv'
<1>1. UNCHANGED <<loop, work, active, current, groups, starting, accessBlocked>>
  BY DEF RequestGoesOn, RevokeCancel, Tell, ResumeJob, Cancel, CancelJob, Resume, vars, queueVars, loopVars,
         executionVars, processVars
<1>2. /\ work # NoWork => active \in Job
      /\ loop \in {"launch", "identify", "child"} => active \in Job
      /\ status \in [Job -> JobStatus] /\ NoJob \notin Job
  BY ControllerAssumption DEF LoopInv, PhaseInv, ChildPhase, StagedInv, TypeOK, QueueTypeOK
<1>3. CASE RevokeCancel
  <2>1. /\ cancelled' = cancelled /\ handling.op = "revoke" /\ handling'.op = "revoked"
        /\ handling'.job = handling.job /\ handling.job \in Job
        /\ status' = status \/ status' = [status EXCEPT ![handling.job] = "cancelled"]
    BY <1>3 DEF RevokeCancel, HandlingInv, Handling, Cancel, CancelJob, vars, queueVars, loopVars, executionVars
  <2>2. CancellationIsSeen'
    BY <1>1, <1>2, <2>1 DEF HeedInv, CancellationIsSeen, Telling
  <2>3. RevocationIsSeen'
    BY <2>1 DEF RevocationIsSeen, Revoking
  <2> QED BY <1>1, <2>2, <2>3, ToldHeeds
<1>4. CASE Tell
  <2>1. /\ cancelled' = (cancelled \/ (active # NoJob /\ active = handling.job))
        /\ Telling /\ status' = status
    BY <1>4 DEF Tell, CancelledByRequest, vars, queueVars
  <2>2. CancellationIsSeen'
    BY <1>1, <1>2, <2>1 DEF HeedInv, CancellationIsSeen
  <2>3. RevocationIsSeen'
    BY <1>1, <1>2, <2>1 DEF HeedInv, RevocationIsSeen, HandlingInv
  <2> QED BY <1>1, <2>2, <2>3, ToldHeeds
<1>5. CASE ResumeJob
  <2>1. /\ cancelled' = cancelled /\ ~Telling /\ ~Revoking /\ handling.job \in Job
        /\ status' = status \/ status' = [status EXCEPT ![handling.job] = "queued"]
    BY <1>5 DEF ResumeJob, ResumeInv, Resume, Telling, Revoking, vars, queueVars, loopVars, executionVars
  <2>2. CancellationIsSeen'
    BY <1>1, <1>2, <2>1 DEF HeedInv, CancellationIsSeen
  <2>3. RevocationIsSeen'
    BY <1>1, <2>1 DEF HeedInv, RevocationIsSeen
  <2> QED BY <1>1, <2>2, <2>3, ToldHeeds
<1> QED BY <1>3, <1>4, <1>5 DEF RequestGoesOn

LEMMA HeedStep ==
    ASSUME ControllerInv, [ControllerNext]_allVars
    PROVE  HeedInv'
<1>1. LoopInv /\ HeedInv /\ StagedInv /\ handling \in Handling /\ HandlingInv /\ ResumeInv
  BY LoopInvHolds, HeedInvHolds DEF ControllerInv, ControllerTypeOK
<1>2. CASE Boot \/ RememberIntent \/ Exit \/ Crash
  <2>1. /\ loop = "down" \/ loop = "intent" => work = NoWork
    BY <1>1 DEF LoopInv, PhaseInv, IdlePhase
  <2>2. work' = NoWork /\ loop' \notin Guarded /\ UNCHANGED <<current, groups, starting>>
    BY <1>2, <2>1 DEF Boot, RememberIntent, Exit, Crash, Gone, executionVars, processVars, Guarded, vars, queueVars
  <2> QED BY <1>1, <2>2, IdleHeeds
<1>3. CASE SetWorkerEnds
  <2>1. /\ UNCHANGED <<status, current, groups, starting, work, active, cancelled, handling, accessBlocked>>
        /\ loop' = loop \/ (loop = "enabling" /\ loop' = "wait")
    BY <1>3 DEF SetWorkerEnds, EnableFails, EnableCommits, AfterBoot, executionVars, processVars, vars, queueVars
  <2>2. CASE loop' = loop
    BY <1>1, <2>1, <2>2, StillHeeds
  <2>3. CASE loop = "enabling" /\ loop' = "wait"
    BY <1>1, <2>1, <2>3, IdleHeeds DEF LoopInv, PhaseInv, IdlePhase, Guarded
  <2> QED BY <2>1, <2>2, <2>3
<1>4. CASE Terminate
  <2>1. UNCHANGED <<status, current, groups, starting, work, active, loop, handling, accessBlocked>> /\ cancelled'
    BY <1>4 DEF Terminate, ownerVars, processVars, vars, queueVars
  <2> QED BY <1>1, <2>1, StillHeeds
<1>5. CASE SurvivorEnds \/ UNCHANGED allVars
  <2>1. /\ UNCHANGED <<status, current, starting, work, active, cancelled, loop, handling, accessBlocked>>
        /\ groups' \subseteq groups
    BY <1>5 DEF SurvivorEnds, allVars, controllerVars, loopVars, executionVars, ownerVars, processVars, vars, queueVars
  <2> QED BY <1>1, <2>1, StillHeeds
<1>6. CASE TimePasses
  <2>1. UNCHANGED <<status, current, groups, starting, work, active, cancelled, loop, handling, accessBlocked>>
    BY <1>6 DEF TimePasses, RetryDelayElapses, controllerVars, loopVars, executionVars, ownerVars, processVars
  <2> QED BY <1>1, <2>1, StillHeeds
<1> QED BY <1>1, <1>2, <1>3, <1>4, <1>5, <1>6, RecoveryHeeds, DispatchingHeeds, ExecutingHeeds, RequestHeeds,
             RequestGoesOnHeeds
        DEF ControllerNext

-----------------------------------------------------------------------------
(***************************************************************************)
(* The budget that an explicit resume has counted                          *)
(***************************************************************************)

\* Only Store.StartAttempt moves the current attempt of a job; the limit is that of the process.
LEMMA OnlyStartLegacyAttempts ==
    ASSUME ControllerInv, [ControllerNext]_allVars
    PROVE  limit' = limit /\ (current' = current \/ StartLegacy)
<1>1. CASE Recovery
  BY <1>1 DEF Recovery, Reconcile, RecoverSteps, RecoverJobs, RecoverInterruptedSteps, RecoverInterrupted, vars, queueVars
<1>2. CASE Dispatching
  BY <1>2 DEF Dispatching, Tick, ReadQueue, Schedule, AdmitStage, SkipRun, AdmitRun, CheckDispatch, BlockDispatch,
              vars, queueVars
<1>3. CASE FindStep \/ Claim \/ GiveUp \/ Announce \/ Launch \/ LaunchFails
  BY <1>3 DEF FindStep, ReadyStep, Claim, ClaimStep, GiveUp, Announce, Launch, LaunchFails, FinishLegacy, FinishAttempt,
              FailStage, CompleteStep, vars, queueVars
<1>4. CASE Identify \/ ChildEnds \/ EndLegacy \/ EndStage \/ InsertOutput \/ FinishStage \/ PublishStage
  BY <1>4 DEF Identify, ChildEnds, EndLegacy, FinishLegacy, FinishAttempt, FailStage, CompleteStep,
              EndStage, BeginSaveArtifact, InsertOutput, EndSaveArtifact, FinishStage, PublishStage,
              PublishValidatedResult, PublishResultEvent, vars, queueVars
<1>5. CASE Request
  BY <1>5 DEF Request, WorkerStart, WorkerStop, ControllerStop, AbortStop, RevokeAccess, ResumeAccess,
              SetQueuePaused, CancelRequest, Cancel, CancelJob, QueueRequest, Submit, CountAttempts, StagedRequest,
              SubmitStaged, SetPaused, StepRequest, ApproveStep, RetryStep, vars, queueVars
<1>6. CASE RequestGoesOn
  BY <1>6 DEF RequestGoesOn, RevokeCancel, Tell, ResumeJob, Cancel, CancelJob, Resume, vars, queueVars
<1>7. CASE StartLegacy
  BY <1>7 DEF StartLegacy, StartAttempt, ExhaustBudget, vars, queueVars
<1>8. CASE Boot \/ RememberIntent \/ SetWorkerEnds \/ Terminate \/ Exit \/ Crash \/ SurvivorEnds \/ TimePasses
           \/ UNCHANGED allVars
  BY <1>8 DEF Boot, RememberIntent, SetWorkerEnds, EnableFails, EnableCommits, Terminate, Exit, Crash, Gone,
              SurvivorEnds, TimePasses, RetryDelayElapses, allVars, vars, queueVars
<1> QED BY <1>1, <1>2, <1>3, <1>4, <1>5, <1>6, <1>7, <1>8 DEF ControllerNext, Executing

\* The places of an execution from its admission to the record of its attempt.
Unrecorded == Recovering \cup {"start"}

\* While a request is being handled no execution is admitted, so none enters those places.
LEMMA NoneAdmitted ==
    ASSUME ControllerInv, [ControllerNext]_allVars, handling.op # "none", active' # NoJob, loop' \in Unrecorded
    PROVE  loop \in Unrecorded /\ active' = active /\ ~(loop = "start" /\ current' # current)
<1>1. LoopInv /\ ~AdmissionFree /\ ~Serving
  BY LoopInvHolds DEF AdmissionFree, Serving
<1>2. CASE Recovery
  <2>1. loop \in Recovering
    BY <1>2 DEF Recovery, Reconcile, RecoverSteps, RecoverJobs, Recovering
  <2>2. \/ active' = active
        \/ Refused
    BY <1>2 DEF Recovery, Reconcile, RecoverSteps, RecoverJobs, RecoveryFails, GoOn, loopVars, executionVars
  <2> QED BY <2>1, <2>2 DEF Refused, Leave, Unrecorded, Recovering
<1>3. CASE Dispatching
  BY <1>1, <1>3 DEF Dispatching, Tick, ReadQueue, Schedule, AdmitStage, SkipRun, AdmitRun, PassOver, CheckDispatch,
                    BlockDispatch, AfterRefusal, GoOn, executionVars, Unrecorded, Recovering, FaultCode, DispatchFault
<1>4. CASE StartLegacy \/ FindStep \/ Claim \/ GiveUp \/ Announce \/ Launch \/ LaunchFails
  <2>1. \/ loop' \in {"prepare", "publish", "claim", "launch", "identify"}
        \/ active' = NoJob
    BY <1>4 DEF StartLegacy, FindStep, Claim, GiveUp, Announce, Launch, LaunchFails, FinishLegacy, FailStage,
                Refused, Leave, GoOn
  <2> QED BY <2>1 DEF Unrecorded, Recovering
<1>5. CASE Identify \/ ChildEnds \/ EndLegacy \/ EndStage \/ InsertOutput \/ FinishStage \/ PublishStage
  <2>1. \/ loop' \in {"child", "exited", "interrupted", "orphaned", "insert", "complete", "publish"}
        \/ active' = NoJob
    BY <1>5 DEF Identify, ChildEnds, EndLegacy, EndStage, InsertOutput, FinishStage, PublishStage, FinishLegacy,
                FailStage, Leave, GoOn
  <2> QED BY <2>1 DEF Unrecorded, Recovering
<1>6. CASE Request
  BY <1>1, <1>6 DEF Request, WorkerStart, WorkerStop, ControllerStop, AbortStop, RevokeAccess, ResumeAccess,
                    SetQueuePaused, CancelRequest, QueueRequest, CountAttempts, StagedRequest, StepRequest
<1>7. CASE Boot \/ Exit \/ Crash
  <2>1. loop = "down" => active = NoJob
    BY <1>1 DEF LoopInv, PhaseInv, IdlePhase
  <2> QED BY <1>7, <2>1 DEF Boot, Exit, Crash, Gone, executionVars
<1>8. CASE RememberIntent \/ SetWorkerEnds
  <2>1. active' = active /\ (loop' = loop \/ loop' \in {"enabling", "wait"}) /\ current' = current
    BY <1>8 DEF RememberIntent, SetWorkerEnds, EnableFails, EnableCommits, AfterBoot, executionVars, vars, queueVars
  <2> QED BY <2>1 DEF Unrecorded, Recovering
<1>9. CASE RequestGoesOn \/ Terminate \/ SurvivorEnds \/ TimePasses \/ UNCHANGED allVars
  <2>1. active' = active /\ loop' = loop /\ current' = current
    <3>1. CASE RequestGoesOn
      BY <3>1 DEF RequestGoesOn, RevokeCancel, Tell, ResumeJob, Cancel, CancelJob, Resume, vars, queueVars, loopVars,
                  executionVars
    <3>2. CASE Terminate \/ SurvivorEnds \/ TimePasses \/ UNCHANGED allVars
      BY <3>2 DEF Terminate, SurvivorEnds, TimePasses, RetryDelayElapses, allVars, vars, queueVars, controllerVars,
                  loopVars, executionVars
    <3> QED BY <1>9, <3>1, <3>2
  <2> QED BY <2>1
<1> QED BY <1>2, <1>3, <1>4, <1>5, <1>6, <1>7, <1>8, <1>9 DEF ControllerNext, Executing

\* A request that has counted keeps what it has counted until it ends.
LEMMA CountKept ==
    ASSUME ControllerInv, [ControllerNext]_allVars, handling'.op = "resume"
    PROVE  handling' = handling \/ \E j \in Job : CountAttempts(j)
<1>1. CASE Request
  BY <1>1 DEF Request, WorkerStart, WorkerStop, ControllerStop, AbortStop, RevokeAccess, ResumeAccess,
              SetQueuePaused, CancelRequest, QueueRequest, StagedRequest, StepRequest, Idle, ownerVars, controllerVars
<1>2. CASE RequestGoesOn
  <2>1. handling \in Handling
    BY DEF ControllerInv, ControllerTypeOK
  <2>2. handling'.op \in {"revoked", "none"}
    BY <1>2, <2>1 DEF RequestGoesOn, RevokeCancel, Tell, ResumeJob, Idle, Handling
  <2> QED BY <2>2
<1>3. CASE Recovery \/ Dispatching
  BY <1>3 DEF Recovery, Reconcile, RecoverSteps, RecoverJobs, Dispatching, Tick, ReadQueue, Schedule, AdmitStage,
              SkipRun, AdmitRun, CheckDispatch, BlockDispatch, ownerVars
<1>4. CASE Executing
  BY <1>4 DEF Executing, StartLegacy, FindStep, Claim, GiveUp, Announce, Launch, LaunchFails, Identify, ChildEnds,
              EndLegacy, EndStage, InsertOutput, FinishStage, PublishStage, ownerVars
<1>5. CASE Exit \/ Crash
  <2>1. handling' = Idle
    BY <1>5 DEF Exit, Crash, Gone
  <2> QED BY <2>1 DEF Idle
<1>6. CASE Boot \/ RememberIntent \/ SetWorkerEnds
  BY <1>6 DEF Boot, RememberIntent, SetWorkerEnds, EnableFails, EnableCommits, ownerVars
<1>7. CASE Terminate \/ SurvivorEnds \/ TimePasses \/ UNCHANGED allVars
  BY <1>7 DEF Terminate, SurvivorEnds, TimePasses, allVars, controllerVars, ownerVars
<1> QED BY <1>1, <1>2, <1>3, <1>4, <1>5, <1>6, <1>7 DEF ControllerNext

LEMMA ResumeInvStep ==
    ASSUME ControllerInv, [ControllerNext]_allVars
    PROVE  ResumeInv'
<1> SUFFICES ASSUME handling'.op = "resume" PROVE ResumeInv'
  BY DEF ResumeInv
<1>1. /\ limit' = limit /\ (current' = current \/ StartLegacy)
      /\ StagedInv /\ QueueInv /\ current \in [Job -> Nat]
  BY OnlyStartLegacyAttempts DEF ControllerInv, StagedInv, QueueInv, QueueTypeOK
<1>2. ASSUME NEW j \in Job, CountAttempts(j) PROVE ResumeInv'
  <2>1. /\ handling'.job = j /\ handling'.seen = Len(attempts[j]) /\ Len(attempts[j]) < limit
        /\ current' = current
    BY <1>2 DEF CountAttempts, vars, queueVars
  <2>2. current[j] = Len(attempts[j])
    BY <1>1 DEF QueueInv, CurrentIsLatest
  <2> QED BY <1>1, <2>1, <2>2 DEF ResumeInv
<1>3. CASE handling' = handling
  <2> DEFINE j == handling.job
  <2>1. /\ handling.op = "resume" /\ j \in Job /\ handling.seen < limit /\ handling.seen \in Nat
        /\ current[j] \in Nat /\ j # NoJob
    BY <1>1, <1>3, ControllerAssumption DEF ControllerInv, ControllerTypeOK, Handling, ResumeInv
  <2>2. active' = j /\ loop' \in Unrecorded => active = j /\ loop \in Unrecorded /\ ~StartLegacy
    <3>1. StartLegacy => loop' = "prepare" \/ active' = NoJob
      BY DEF StartLegacy, Refused, Leave
    <3> QED BY <2>1, <3>1, NoneAdmitted DEF Unrecorded, Recovering
  <2>3. CASE current'[j] = current[j]
    <3>1. \/ current[j] = handling.seen
          \/ current[j] = handling.seen + 1 /\ ~(active = j /\ loop \in Unrecorded)
      BY <2>1 DEF ControllerInv, ResumeInv, Unrecorded
    <3>2. current'[j] = handling.seen \/ (current'[j] = handling.seen + 1 /\ ~(active' = j /\ loop' \in Unrecorded))
      BY <2>2, <2>3, <3>1
    <3> QED BY <1>1, <1>3, <2>1, <3>2 DEF ResumeInv, Unrecorded
  <2>4. CASE current'[j] # current[j]
    <3>1. StartLegacy /\ active = j /\ current'[j] = NextOrdinal(j) /\ loop = "start" /\ loop' = "prepare"
      BY <1>1, <2>1, <2>4 DEF StartLegacy, StartAttempt, ExhaustBudget, vars, queueVars
    <3>2. current[j] = Len(attempts[j])
      BY <1>1, <2>1 DEF QueueInv, CurrentIsLatest
    <3>3. current[j] = handling.seen
      BY <1>1, <2>1, <3>1 DEF ControllerInv, ResumeInv
    <3> QED BY <1>1, <1>3, <2>1, <3>1, <3>2, <3>3 DEF ResumeInv, NextOrdinal, Recovering
  <2> QED BY <2>3, <2>4
<1> QED BY <1>2, <1>3, CountKept

-----------------------------------------------------------------------------
(***************************************************************************)
(* The invariant, and what it shows of a start                             *)
(***************************************************************************)

LEMMA ControllerInitInv == ControllerInit => ControllerInv
<1> SUFFICES ASSUME ControllerInit PROVE ControllerInv
  OBVIOUS
<1>1. StagedInv /\ OrdinalsInv
  BY InitStagedInv, OrdinalsInit DEF ControllerInit
<1>2. ControllerTypeOK
  BY <1>1 DEF ControllerInit, ControllerTypeOK, LoopState, StagedInv, Handling, Idle
<1>3. PhaseInv /\ GateInv /\ WorkInv /\ ProcessInv
  BY DEF ControllerInit, PhaseInv, GateInv, WorkInv, ProcessInv, IdlePhase, StagePhase, ChildPhase, ChildEnd, Recovering
<1>4. ExecutionHeedsOwner /\ HandlingInv /\ ResumeInv
  BY DEF ControllerInit, ExecutionHeedsOwner, QuietWhenClosed, CancellationIsSeen, RevocationIsSeen, HandlingInv,
         ResumeInv, Revoking, Idle
<1> QED BY <1>1, <1>2, <1>3, <1>4 DEF ControllerInv

LEMMA ControllerStep == ControllerInv /\ [ControllerNext]_allVars => ControllerInv'
<1> SUFFICES ASSUME ControllerInv, [ControllerNext]_allVars PROVE ControllerInv'
  OBVIOUS
<1>1. StagedInv' /\ OrdinalsInv' /\ LoopInv' /\ OwnerInv' /\ HeedInv' /\ ResumeInv'
  BY ControllerStore, LoopStep, OwnerStep, HeedStep, ResumeInvStep
<1> QED BY <1>1 DEF ControllerInv, ControllerTypeOK, StagedInv, LoopInv, OwnerInv, HeedInv, ExecutionHeedsOwner

LEMMA ControllerInvariant == ControllerSpec => []ControllerInv
BY ControllerInitInv, ControllerStep, PTL DEF ControllerSpec

\* Types: the loop, the gate, the owner's files and the processes, over the typed store.
THEOREM ControllerTypeCorrect == ControllerSpec => []ControllerTypeOK
BY ControllerInvariant, PTL DEF ControllerInv

\* Runner.active and the gate: nothing executes behind a closed gate, and an execution whose
\* job is cancelled, or that has slipped past the access block, is told before the request
\* that did it is answered, wherever the two interleave.
THEOREM ExecutionHeeds == ControllerSpec => []ExecutionHeedsOwner
BY ControllerInvariant, PTL DEF ControllerInv

\* Only cmd.Start makes a process group.
LEMMA OnlyLaunchStarts ==
    ASSUME [ControllerNext]_allVars, ~(groups' \subseteq groups)
    PROVE  Launch
<1>1. CASE Recovery
  BY <1>1 DEF Recovery, Reconcile, RecoverSteps, RecoverJobs, Recorded, processVars
<1>2. CASE Dispatching
  BY <1>2 DEF Dispatching, Tick, ReadQueue, Schedule, AdmitStage, SkipRun, AdmitRun, CheckDispatch, BlockDispatch,
              processVars
<1>3. CASE Executing
  BY <1>3 DEF Executing, StartLegacy, FindStep, Claim, GiveUp, Announce, LaunchFails, Identify, ChildEnds,
              EndLegacy, EndStage, InsertOutput, FinishStage, PublishStage, processVars
<1>4. CASE Request \/ RequestGoesOn
  BY <1>4 DEF Request, WorkerStart, WorkerStop, ControllerStop, AbortStop, RevokeAccess, ResumeAccess,
              SetQueuePaused, CancelRequest, QueueRequest, CountAttempts, StagedRequest, StepRequest,
              RequestGoesOn, RevokeCancel, Tell, ResumeJob, controllerVars, processVars
<1>5. CASE Boot \/ RememberIntent \/ SetWorkerEnds \/ Terminate \/ Exit \/ Crash \/ SurvivorEnds \/ TimePasses
           \/ UNCHANGED allVars
  BY <1>5 DEF Boot, RememberIntent, SetWorkerEnds, EnableFails, EnableCommits, Terminate, Exit, Crash, Gone,
              SurvivorEnds, TimePasses, allVars, controllerVars, processVars
<1> QED BY <1>1, <1>2, <1>3, <1>4, <1>5 DEF ControllerNext

\* Run, runCommandTracked and the check of the access block: a process is started neither
\* behind the block, once the owner has been answered, nor, for a legacy job, beside any other group.
LEMMA StartIsGuarded ==
    ASSUME ControllerInv, [ControllerNext]_allVars
    PROVE  /\ groups' \subseteq groups \/ ~accessBlocked \/ Revoking
           /\ \A g \in groups' \ groups : g[1] \in Job => groups = {}
<1>1. CASE Launch
  <2>1. loop = "launch" /\ ~cancelled /\ groups' = groups \cup {work}
    BY <1>1 DEF Launch
  <2>2. ~accessBlocked \/ Revoking
    BY <2>1 DEF ControllerInv, ExecutionHeedsOwner, RevocationIsSeen
  <2>3. work[1] \in Job => groups = {}
    BY <2>1 DEF ControllerInv, ProcessInv
  <2> QED BY <2>1, <2>2, <2>3
<1> QED BY <1>1, OnlyLaunchStarts

\* A process starts only when it may: not behind the owner's block once revoke_access has been
\* answered, although the block and the cancellation are separate writes that a start may fall
\* between; and a legacy execution not beside anything an earlier life of the controller has left (Runner.execute,
\* recoverOrphans).
THEOREM StartsGuarded == ControllerSpec => StartsAreGuarded
<1>1. ControllerInv /\ [ControllerNext]_allVars => [groups' \subseteq groups \/ ~accessBlocked \/ Revoking]_allVars
  BY StartIsGuarded
<1>2. ControllerInv /\ [ControllerNext]_allVars
          => [\A g \in groups' \ groups : g[1] \in Job => groups = {}]_allVars
  BY StartIsGuarded
<1>3. ControllerSpec => NoStartWhileBlocked
  BY <1>1, ControllerInvariant, PTL DEF ControllerSpec, NoStartWhileBlocked
<1>4. ControllerSpec => LegacyStartsAlone
  BY <1>2, ControllerInvariant, PTL DEF ControllerSpec, LegacyStartsAlone
<1> QED BY <1>3, <1>4 DEF StartsAreGuarded

\* "Unknown execution is never auto-replayed" (Run and ReconcileProcesses): when an attempt
\* is recorded, no group and no recorded intent of any attempt is left.
LEMMA NothingIsReplayed ==
    ASSUME ControllerInv, [ControllerNext]_allVars
    PROVE  \A j \in Job : current'[j] # current[j] => \A g \in groups \cup starting : g[1] # j
<1>1. CASE StartLegacy
  <2>1. groups = {} /\ starting = {}
    BY <1>1 DEF StartLegacy, ControllerInv, ProcessInv
  <2> QED BY <2>1
<1> QED BY <1>1, OnlyStartLegacyAttempts

\* A new attempt of a job is recorded only when no process of an earlier one can be alive,
\* however that one ended and whoever resumed the job ("Unknown execution is never
\* auto-replayed").
THEOREM UncertainNotReplayed == ControllerSpec => UncertainIsNotReplayed
<1>1. ControllerInv /\ [ControllerNext]_allVars
          => [\A j \in Job : current'[j] # current[j] => \A g \in groups \cup starting : g[1] # j]_allVars
  BY NothingIsReplayed
<1> QED BY <1>1, ControllerInvariant, PTL DEF ControllerSpec, UncertainIsNotReplayed

-----------------------------------------------------------------------------
(***************************************************************************)
(* What the store promises its callers, under this caller                  *)
(***************************************************************************)

\* Runner calls the store, stage by stage: whatever the controller does to the tables is a
\* transaction that the models of the store allow, made in a state they can reach and for an
\* attempt they range over, so what is shown of the store under any caller holds under this one.
THEOREM ControllerCallsStore == ControllerSpec => Init /\ [][StoreNext]_vars
<1>1. ControllerInit => Init
  BY DEF ControllerInit
<1>2. ControllerInv /\ [ControllerNext]_allVars => [StoreNext]_vars
  BY ControllerCalls
<1> QED BY <1>1, <1>2, ControllerInvariant, PTL DEF ControllerSpec

\* The promises rest on the hand-off of results and on the review of reruns.
PromiseInv == HandedOffInv /\ ReviewInv

\* A staged job is admitted, and completed by the delivery of its last result, without an
\* attempt of its own.
LEMMA StagedJobStep ==
    ASSUME QueueInv, NEW j \in Job, Reviewed(j),
           attempts'[j] = attempts[j], resumed'[j] = resumed[j],
           \/ status'[j] = status[j]
           \/ status[j] \notin {"completed", "partial"} /\ status'[j] \in {"staged", "completed"}
    PROVE  JobStep(j)
BY LengthsAreNatural DEF JobStep, HistoryStep, BudgetStep, Reviewed

\* What a transaction of the store does to the history of every job.
LEMMA StoreJobStep ==
    ASSUME StagedInv, ReviewInv, StoreNext \/ UNCHANGED vars
    PROVE  \A j \in Job : JobStep(j)
<1>1. QueueInv /\ status \in [Job -> JobStatus] /\ \A j \in Job : Reviewed(j)
  BY ReviewedJobs DEF QueueInv, QueueTypeOK
<1>2. ASSUME QueueNext \/ UNCHANGED queueVars PROVE \A j \in Job : JobStep(j)
  BY <1>2, EveryJobStep
<1>3. ASSUME UNCHANGED <<attempts, resumed>>,
             \A j \in Job : \/ status'[j] = status[j]
                            \/ /\ status[j] \notin {"completed", "partial"}
                               /\ status'[j] \in {"staged", "completed"}
      PROVE  \A j \in Job : JobStep(j)
  BY <1>1, <1>3, StagedJobStep
<1>4. ASSUME NEW i \in Job, WorkflowStep(i) PROVE \A j \in Job : JobStep(j)
  <2>1. CASE SubmitStaged(i)
    BY <1>1, <1>3, <2>1 DEF SubmitStaged
  <2>2. CASE Cancel(i)
    BY <1>2, <2>2 DEF Cancel, QueueNext
  <2>3. CASE ~SubmitStaged(i) /\ ~Cancel(i)
    BY <1>2, <1>4, <2>3 DEF WorkflowStep, AppendSteps, SupersedeJobRevision, SetPaused,
                            PublishValidatedResult, PublishResultEvent
  <2> QED BY <2>1, <2>2, <2>3
<1>5. ASSUME NEW i \in Job, LegacyStep(i) \/ Submit(i) PROVE \A j \in Job : JobStep(j)
  BY <1>2, <1>5 DEF LegacyStep, QueueNext
<1>6. ASSUME NEW s \in Step, ExecutionStep(s) PROVE \A j \in Job : JobStep(j)
  BY <1>2, <1>6 DEF ExecutionStep, ReadyStep, ApproveStep, ClaimStep, RetryStep, BeginSaveArtifact,
                    EndSaveArtifact, CompleteStep
<1>7. ASSUME NEW e \in results, DeliveryStep(e) PROVE \A j \in Job : JobStep(j)
  <2>1. PICK d \in DeliveryStatus : SetDelivery(e, d)
    BY <1>7, DeliveryStepFacts
  <2>2. UNCHANGED <<attempts, resumed>>
    BY <2>1 DEF SetDelivery
  <2>3. \/ status' = status
        \/ status[JobOf[e.step]] = "staged" /\ status' = [status EXCEPT ![JobOf[e.step]] = "completed"]
    BY <2>1 DEF SetDelivery, CompleteDeliveredJob
  <2> QED BY <1>1, <1>3, <2>2, <2>3
<1>8. CASE RecoverInterruptedSteps \/ UNCHANGED vars
  BY <1>2, <1>8 DEF RecoverInterruptedSteps, vars
<1>9. ASSUME NEW n \in 1..MaxAttempts, Reconfigure(n) PROVE \A j \in Job : JobStep(j)
  BY <1>2, <1>9 DEF QueueNext
<1> QED BY <1>4, <1>5, <1>6, <1>7, <1>8, <1>9 DEF StoreNext, Next

\* The submission of a job without steps completes none and touches no result.
LEMMA SubmittedLegacyHandsOff ==
    ASSUME HandedOffInv, NEW j \in Job, Submit(j), \A s \in Step : JobOf[s] # j, UNCHANGED stagedVars
    PROVE  HandedOffInv'
<1>1. StagedInv /\ StagedInv' /\ status \in [Job -> JobStatus]
  BY SubmittedLegacyInv DEF HandedOffInv, StagedInv, TypeOK, QueueTypeOK
<1>2. UNCHANGED <<results, revision, stepState>>
  BY DEF stagedVars, flowVars, stepVars
<1>3. ASSUME NEW i \in Job, CompletedByItsSteps(i)' PROVE Settled(i)'
  <2>1. CompletedByItsSteps(i)
    BY <1>1, <1>3 DEF Submit, CompletedByItsSteps
  <2> QED BY <1>2, <2>1, SettledKept DEF HandedOffInv, JobRowsKept, ResultsOf
<1> QED BY <1>1, <1>2, <1>3 DEF HandedOffInv, ResultsAreValidated

LEMMA PromisesKept ==
    ASSUME PromiseInv, StoreNext \/ UNCHANGED vars
    PROVE  PromiseInv'
<1>1. HandedOffInv'
  BY HandedOffStep, SubmittedLegacyHandsOff DEF PromiseInv, StoreNext
<1>2. QueueInv' /\ \A j \in Job : Reviewed(j)'
  BY <1>1, StoreJobStep DEF PromiseInv, HandedOffInv, StagedInv, JobStep
<1>3. ReviewInv'
  BY <1>2 DEF ReviewInv, Reviewed, UnsubmittedHasNone, NoUnreviewedRerun, ResumesCoverLatest
<1> QED BY <1>1, <1>3 DEF PromiseInv

LEMMA PromiseInvariant == ControllerSpec => []PromiseInv
<1>1. Init => PromiseInv
  BY HandedOffInit, ReviewInit DEF PromiseInv, Init
<1>2. PromiseInv /\ [StoreNext]_vars => PromiseInv'
  BY PromisesKept
<1> QED BY <1>1, <1>2, ControllerCallsStore, PTL

\* Under the controller as well, with its crashes and the owner's requests: reported results
\* and ended attempts stay as they are, and what did not simply fail is run again only after
\* an explicit resume.
THEOREM ControllerKeepsHistory ==
    ControllerSpec => HistoryIsFinal /\ []NoUnreviewedRerun
<1>1. PromiseInv /\ [StoreNext]_vars => \A j \in Job : JobStep(j)
  BY StoreJobStep DEF PromiseInv, HandedOffInv
<1>2. PromiseInv /\ [StoreNext]_vars =>
          [\A j \in Job :
              /\ Len(attempts[j]) <= Len(attempts'[j])
              /\ \A a \in 1..Len(attempts[j]) :
                    attempts[j][a] # "running" => attempts'[j][a] = attempts[j][a]]_queueVars
  BY <1>1 DEF JobStep, HistoryStep
<1>3. PromiseInv /\ [StoreNext]_vars =>
          [\A j \in Job : status[j] \in {"completed", "partial"} => status'[j] = status[j]]_queueVars
  BY <1>1 DEF JobStep, HistoryStep
<1>4. PromiseInv => NoUnreviewedRerun
  BY DEF PromiseInv, ReviewInv
<1> QED BY <1>2, <1>3, <1>4, PromiseInvariant, ControllerCallsStore, PTL
        DEF HistoryIsFinal, AttemptsAreImmutable, ReportedJobIsFinal

\* Only the store call of retry and resolve resumes a job.
LEMMA OnlyResumeJobResumes ==
    ASSUME ControllerInv, [ControllerNext]_allVars
    PROVE  resumed' = resumed \/ (handling.op = "resume" /\ \E answered : Resume(handling.job, answered))
<1>1. CASE Recovery \/ Dispatching
  BY <1>1 DEF Recovery, Reconcile, RecoverSteps, RecoverJobs, RecoverInterruptedSteps, RecoverInterrupted,
              Dispatching, Tick, ReadQueue, Schedule, AdmitStage, SkipRun, AdmitRun, CheckDispatch, BlockDispatch,
              vars, queueVars
<1>2. CASE StartLegacy \/ FindStep \/ Claim \/ GiveUp \/ Announce \/ Launch \/ LaunchFails
  BY <1>2 DEF StartLegacy, StartAttempt, ExhaustBudget, FindStep, ReadyStep, Claim, ClaimStep, GiveUp, Announce,
              Launch, LaunchFails, FinishLegacy, FinishAttempt, FailStage, CompleteStep, vars, queueVars
<1>3. CASE Identify \/ ChildEnds \/ EndLegacy \/ EndStage \/ InsertOutput \/ FinishStage \/ PublishStage
  BY <1>3 DEF Identify, ChildEnds, EndLegacy, FinishLegacy, FinishAttempt, FailStage, CompleteStep,
              EndStage, BeginSaveArtifact, InsertOutput, EndSaveArtifact, FinishStage, PublishStage,
              PublishValidatedResult, PublishResultEvent, vars, queueVars
<1>4. CASE Request
  BY <1>4 DEF Request, WorkerStart, WorkerStop, ControllerStop, AbortStop, RevokeAccess, ResumeAccess,
              SetQueuePaused, CancelRequest, Cancel, CancelJob, QueueRequest, Submit, CountAttempts, StagedRequest,
              SubmitStaged, SetPaused, StepRequest, ApproveStep, RetryStep, vars, queueVars
<1>5. CASE RequestGoesOn
  BY <1>5 DEF RequestGoesOn, RevokeCancel, Tell, ResumeJob, Cancel, CancelJob, vars, queueVars
<1>6. CASE Boot \/ RememberIntent \/ SetWorkerEnds \/ Terminate \/ Exit \/ Crash \/ SurvivorEnds \/ TimePasses
           \/ UNCHANGED allVars
  BY <1>6 DEF Boot, RememberIntent, SetWorkerEnds, EnableFails, EnableCommits, Terminate, Exit, Crash, Gone,
              SurvivorEnds, TimePasses, RetryDelayElapses, allVars, vars, queueVars
<1> QED BY <1>1, <1>2, <1>3, <1>4, <1>5, <1>6 DEF ControllerNext, Executing

LEMMA BudgetKept ==
    ASSUME ControllerInv, PromiseInv, [ControllerNext]_allVars, NEW j \in Job,
           status'[j] # status[j], status'[j] \in {"queued", "retry_wait"}
    PROVE  Len(attempts'[j]) < limit \/ OvertakenByAttempt(j)
<1>1. QueueInv /\ resumed \in [Job -> Nat] /\ current[j] = Len(attempts[j])
  BY DEF ControllerInv, StagedInv, QueueInv, QueueTypeOK, CurrentIsLatest
<1>2. Len(attempts'[j]) < limit \/ resumed'[j] # resumed[j]
  BY ControllerCalls, StoreJobStep DEF PromiseInv, HandedOffInv, JobStep, BudgetStep
<1>3. CASE resumed'[j] # resumed[j]
  <2>1. /\ handling.op = "resume" /\ handling.job = j /\ attempts' = attempts
    BY <1>1, <1>3, OnlyResumeJobResumes DEF Resume
  <2>2. /\ handling.seen < limit
        /\ current[j] = handling.seen \/ current[j] = handling.seen + 1
    BY <2>1 DEF ControllerInv, ResumeInv
  <2> QED BY <1>1, <2>1, <2>2 DEF OvertakenByAttempt
<1> QED BY <1>2, <1>3

\* retry and resolve (Runner.Handle) count the attempts in one transaction and queue the job in
\* another, while the loop goes on: work is queued with a used-up budget only if the execution
\* that was already under way has recorded the last attempt in between, and at most that one.
THEOREM BudgetHolds == ControllerSpec => QueuedWithinBudget
<1>1. ControllerInv /\ PromiseInv /\ [ControllerNext]_allVars =>
          [\A j \in Job :
              status'[j] # status[j] /\ status'[j] \in {"queued", "retry_wait"} =>
                  Len(attempts'[j]) < limit \/ OvertakenByAttempt(j)]_allVars
  BY BudgetKept
<1> QED BY <1>1, ControllerInvariant, PromiseInvariant, PTL DEF ControllerSpec, QueuedWithinBudget

\* A child of the controller that comes back late registers no artifact, no result of a
\* superseded request sets out, and a job that completes through its steps has handed over
\* all of its results.
THEOREM ControllerKeepsResults ==
    ControllerSpec => LateCallersChangeNothing /\ []CompletedMeansHandedOff
<1>1. PromiseInv /\ [StoreNext]_vars => [\A x \in artifacts' \ artifacts : Live(x[1], x[2])]_vars
  BY ArtifactStep DEF StoreNext, stagedVars, artifactVars
<1>2. PromiseInv /\ [StoreNext]_vars =>
          [\A e \in results :
              e.revision < revision[JobOf[e.step]] /\ e.delivery # "failed" => e \in results']_vars
  BY StaleResultStep DEF PromiseInv, HandedOffInv, StoreNext, stagedVars
<1>3. PromiseInv => CompletedMeansHandedOff
  BY HandedOffJobs DEF PromiseInv
<1> QED BY <1>1, <1>2, <1>3, PromiseInvariant, ControllerCallsStore, PTL
        DEF LateCallersChangeNothing, ArtifactsOfLiveAttempts, StaleResultIsFrozen
=============================================================================
