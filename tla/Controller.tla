----------------------------- MODULE Controller -----------------------------
(***************************************************************************)
(* The controller process: ServeController and its dispatch loop, Run and  *)
(* RunStage, and the owner's requests that Runner.Handle serves meanwhile, *)
(* over the store of module StagedWorkflow.                                *)
(*                                                                         *)
(* One goroutine runs the loop, others serve requests.  Requests and the   *)
(* admission of an execution exclude each other through Runner.admission;  *)
(* the gate fields have a mutex of their own, which the loop takes alone   *)
(* when it records a fault.  Store transactions, the steps of a child's    *)
(* start and the two looks of setWorker at the gate are separate actions.  *)
(* A store call may also fail, and the controller may crash at any time:   *)
(* the child's process group then goes on without it.                      *)
(***************************************************************************)
EXTENDS StagedWorkflow

CONSTANTS
    Queue,      \* the jobs, oldest first
    NoJob,      \* Runner.active when nothing executes
    NoWork,     \* no attempt in progress
    ModelPolicyVersion, \* of the configuration; with 1 a legacy job waits for its route
    ReportOutcome   \* bound on the outcomes explored of a child that exited

ASSUME ControllerAssumption ==
    /\ Queue \in Seq(Job)
    /\ \A i, k \in DOMAIN Queue : Queue[i] = Queue[k] => i = k
    /\ Job = {Queue[i] : i \in DOMAIN Queue}
    /\ Job \cap Step = {}
    /\ NoJob \notin Job
    /\ NoWork \notin (Job \cup Step) \X Nat
    /\ ModelPolicyVersion \in {0, 1}
    /\ ReportOutcome \subseteq Outcome \ {"cancelled"}

VARIABLES
    loop,            \* where the loop is; a fault code when it is about to record that fault
    agenda,          \* places in Queue of the eligible jobs step() has read and not visited
    work,            \* the attempt in progress: <<job or step, ordinal>>
    active,          \* Runner.active
    cancelled,       \* the context of the execution in progress is cancelled
    leaving,         \* the context of ServeController is done
    dispatch,        \* Runner.dispatch
    requested,       \* Runner.workerRequested
    stopping,        \* Runner.stopping
    stopDispatch,    \* Runner.stopDispatch
    recoveryBlocked, \* Runner.recoveryBlocked
    workerErr,       \* Runner.workerErr
    inspecting,      \* a setWorker call inspects the executor, admission held
    handling,        \* the request that Runner.Handle is in the middle of, admission held
    intent,          \* the saved worker intent
    queuePaused,     \* the persisted admission pause
    accessBlocked,   \* state/execution-blocked.json exists
    groups,          \* executor process groups alive, named by their attempt
    starting         \* attempts whose process record says "starting"

gateVars == <<dispatch, requested, stopping, stopDispatch, recoveryBlocked, workerErr>>
executionVars == <<work, active, cancelled>>
loopVars == <<loop, agenda, executionVars, leaving>>
ownerVars == <<inspecting, handling, intent, queuePaused, accessBlocked>>
processVars == <<groups, starting>>
controllerVars == <<loopVars, gateVars, ownerVars, processVars>>
allVars == <<vars, controllerVars>>

DispatchFault == {"dispatch_failed", "staged_dispatch_failed"}
FaultCode == DispatchFault \cup {"unavailable"}     \* a store, schedule or executor that fails
Recovering == {"reconcile", "recover_steps", "recover_jobs"}
LegacyPhase == Recovering \cup {"start"}
StagePhase == {"ready", "claim", "insert", "complete", "publish"}
ChildPhase == {"prepare", "launch", "identify", "child"}
ChildEnd == {"exited", "orphaned", "interrupted"}
LoopState == {"down", "intent", "enabling", "wait", "read", "scan", "check"}
    \cup LegacyPhase \cup StagePhase \cup ChildPhase \cup ChildEnd \cup FaultCode

Attempt == (Job \cup Step) \X Nat

\* What a request has done so far, the job it names and the attempts it has counted.
Handling == [op : {"none", "resume", "cancel", "revoke", "revoked"},
             job : Job \cup {NoJob}, seen : Nat]
Idle == [op |-> "none", job |-> NoJob, seen |-> 0]
Revoking == handling.op \in {"revoke", "revoked"}
Telling == handling.op \in {"cancel", "revoked"}

ControllerTypeOK ==
    /\ TypeOK
    /\ loop \in LoopState
    /\ agenda \subseteq [at : DOMAIN Queue, staged : BOOLEAN]
    /\ work \in Attempt \cup {NoWork}
    /\ active \in Job \cup {NoJob}
    /\ cancelled \in BOOLEAN /\ leaving \in BOOLEAN
    /\ dispatch \in BOOLEAN /\ requested \in BOOLEAN
    /\ stopping \in BOOLEAN /\ stopDispatch \in BOOLEAN
    /\ recoveryBlocked \in BOOLEAN
    /\ workerErr \in FaultCode \cup {"", "recovery_blocked"}
    /\ inspecting \in BOOLEAN /\ intent \in BOOLEAN
    /\ handling \in Handling
    /\ queuePaused \in BOOLEAN /\ accessBlocked \in BOOLEAN
    /\ groups \subseteq Attempt /\ starting \subseteq Attempt

ControllerInit ==
    /\ Init
    /\ loop = "down" /\ agenda = {} /\ work = NoWork /\ active = NoJob
    /\ cancelled = FALSE /\ leaving = FALSE
    /\ dispatch = FALSE /\ requested = FALSE /\ stopping = FALSE /\ stopDispatch = FALSE
    /\ recoveryBlocked = FALSE /\ workerErr = ""
    /\ inspecting = FALSE /\ handling = Idle /\ intent = FALSE
    /\ queuePaused = FALSE /\ accessBlocked = FALSE
    /\ groups = {} /\ starting = {}

\* The recovery phases serve the boot as well as the start of a legacy execution.
Booting == loop = "intent" \/ (loop \in Recovering /\ active = NoJob)

\* Variant: retry and resolve keep the mutex for no more than the store call itself.
AdmissionFreeOfResume == ~inspecting /\ handling.op \in {"none", "resume"}

\* Runner.admission: a request keeps it to its end, an admission of work for its look.
AdmissionFree == ~inspecting /\ handling.op = "none"

\* Runner.mu: revoke_access and cancel keep it to their end.  The clean-up of an execution
\* waits for it too; as the loop takes both mutexes before it admits anything else, it makes
\* no difference to the rest that Leave does not.
GateFree == ~Revoking /\ ~Telling

\* The management endpoint answers and no request holds the admission mutex.
Serving == loop \notin {"down", "enabling"} /\ ~Booting /\ AdmissionFree

-----------------------------------------------------------------------------
(***************************************************************************)
(* Leaving an execution                                                    *)
(***************************************************************************)

GoOn(next) ==
    /\ loop' = next
    /\ UNCHANGED <<agenda, executionVars, leaving>>

\* The deferred clean-up of Run and RunStage, and what step() does with the outcome.
Leave(next) ==
    /\ active' = NoJob
    /\ cancelled' = FALSE
    /\ work' = NoWork
    /\ loop' = next
    /\ agenda' = IF next = "scan" THEN agenda ELSE {}
    /\ UNCHANGED leaving

\* An execution that returns an error and no status is a dispatch fault.
Refused == Leave(IF loop \in {"start"} \cup Recovering THEN "check" ELSE "staged_dispatch_failed")

-----------------------------------------------------------------------------
(***************************************************************************)
(* Start of the process, and recovery                                      *)
(***************************************************************************)

\* Variants: the records of steps are not read, or those without an identity.
RecordedJobs == {g \in groups \cup starting : g[1] \in Job /\ g[2] = current[g[1]]}
RecordedIdentified == {g \in groups : g[1] \in Job => g[2] = current[g[1]]}

\* The process records that recovery reads: of a job, that of its current attempt only.
Recorded == {g \in groups \cup starting : g[1] \in Job => g[2] = current[g[1]]}

Boot ==
    /\ loop = "down"
    /\ loop' = "reconcile"
    /\ UNCHANGED <<vars, agenda, executionVars, leaving, gateVars, ownerVars, processVars>>

\* Recovery fails: the boot goes on without dispatch, an execution is refused.
RecoveryFails ==
    IF active = NoJob
    THEN /\ loop' = "intent"
         /\ recoveryBlocked' = TRUE
         /\ workerErr' = "recovery_blocked"
         /\ UNCHANGED <<agenda, executionVars, leaving>>
         /\ UNCHANGED <<dispatch, requested, stopping, stopDispatch>>
    ELSE Refused /\ UNCHANGED gateVars

\* Every recorded group is terminated and confirmed; one that was never identified, or
\* that will not die, ends the recovery.
Reconcile ==
    /\ loop = "reconcile"
    /\ \E left \in SUBSET (Recorded \cap groups) :
          /\ groups' = (groups \ Recorded) \cup left
          /\ IF left = {} /\ starting \cap Recorded = {}
             THEN GoOn("recover_steps") /\ UNCHANGED gateVars
             ELSE RecoveryFails
    /\ UNCHANGED <<vars, ownerVars, starting>>

RecoverSteps ==
    /\ loop = "recover_steps"
    /\ \/ /\ RecoverInterruptedSteps
          /\ GoOn("recover_jobs")
          /\ UNCHANGED gateVars
       \/ /\ \A s \in Step : stepState[s] # "running"
          /\ GoOn("recover_jobs")
          /\ UNCHANGED <<vars, gateVars>>
       \/ RecoveryFails /\ UNCHANGED vars
    /\ UNCHANGED <<ownerVars, processVars>>

\* RecoverInterrupted has a transaction for each running job.
RecoverJobs ==
    /\ loop = "recover_jobs"
    /\ \/ /\ \E j \in Job : RecoverInterrupted(j) /\ UNCHANGED stagedVars
          /\ UNCHANGED <<loopVars, gateVars>>
       \/ /\ \A j \in Job : status[j] # "running"
          /\ GoOn(IF active = NoJob THEN "intent" ELSE "start")
          /\ UNCHANGED <<vars, gateVars>>
       \/ RecoveryFails /\ UNCHANGED vars
    /\ UNCHANGED <<ownerVars, processVars>>

\* The first look of setWorker at the gate.
MayEnable == ~stopping /\ active = NoJob /\ ~recoveryBlocked

\* The remembered intent is read, and the endpoint opens with admission held.
RememberIntent ==
    /\ loop = "intent"
    /\ requested' = intent
    /\ IF intent /\ MayEnable
       THEN loop' = "enabling" /\ inspecting' = TRUE
       ELSE loop' = "wait" /\ UNCHANGED inspecting
    /\ UNCHANGED <<vars, agenda, executionVars, leaving, dispatch, stopping, stopDispatch,
                   recoveryBlocked, workerErr, handling, intent, queuePaused, accessBlocked,
                   processVars>>

AfterBoot == loop' = IF loop = "enabling" THEN "wait" ELSE loop

\* setWorker found the configuration or the executor wanting.
EnableFails ==
    /\ inspecting
    /\ inspecting' = FALSE
    /\ dispatch' = FALSE
    /\ workerErr' = "unavailable"
    /\ AfterBoot
    /\ UNCHANGED <<vars, agenda, executionVars, leaving, requested, stopping, stopDispatch,
                   recoveryBlocked, handling, intent, queuePaused, accessBlocked, processVars>>

\* setWorker saves the intent and looks at the gate again.
EnableCommits ==
    /\ inspecting
    /\ inspecting' = FALSE
    /\ intent' = TRUE
    /\ IF ~stopping /\ active = NoJob
       THEN requested' = TRUE /\ dispatch' = TRUE /\ workerErr' = ""
       ELSE UNCHANGED <<requested, dispatch, workerErr>>
    /\ AfterBoot
    /\ UNCHANGED <<vars, agenda, executionVars, leaving, stopping, stopDispatch, recoveryBlocked,
                   handling, queuePaused, accessBlocked, processVars>>

\* The context of the process, and with it that of the execution, is cancelled.  Without
\* an execution this is no more than an exit after the tick.
Terminate ==
    /\ active # NoJob
    /\ leaving' = TRUE
    /\ cancelled' = TRUE
    /\ UNCHANGED <<vars, loop, agenda, work, active, gateVars, ownerVars, processVars>>

\* Everything but the files, the database and the children is gone.
Gone ==
    /\ loop' = "down" /\ agenda' = {}
    /\ work' = NoWork /\ active' = NoJob /\ cancelled' = FALSE /\ leaving' = FALSE
    /\ dispatch' = FALSE /\ requested' = FALSE /\ stopping' = FALSE /\ stopDispatch' = FALSE
    /\ recoveryBlocked' = FALSE /\ workerErr' = "" /\ inspecting' = FALSE
    /\ handling' = Idle
    /\ UNCHANGED <<vars, intent, queuePaused, accessBlocked, processVars>>

Crash == loop # "down" /\ Gone

\* The loop sees its context done after a tick, and beginStop takes the admission mutex.
Exit == loop = "wait" /\ AdmissionFree /\ Gone

-----------------------------------------------------------------------------
(***************************************************************************)
(* One tick of the loop, up to the admission of an execution               *)
(***************************************************************************)

Tick ==
    /\ loop = "wait" /\ GateFree
    /\ ~leaving
    /\ dispatch /\ ~stopping
    /\ GoOn("read")
    /\ UNCHANGED <<vars, gateVars, ownerVars, processVars>>

\* A job that step() would hand to RunStage, or to Run.
Eligible(j) == status[j] = "staged" \/ (status[j] \in {"queued", "retry_wait"} /\ ~delayed[j])

\* Store.Paused and Store.Jobs.
ReadQueue ==
    /\ loop = "read"
    /\ \/ loop' = "unavailable" /\ UNCHANGED agenda
       \/ queuePaused /\ loop' = "wait" /\ UNCHANGED agenda
       \/ /\ ~queuePaused
          /\ loop' = "scan"
          /\ agenda' = {[at |-> i, staged |-> status[Queue[i]] = "staged"] :
                            i \in {k \in DOMAIN Queue : Eligible(Queue[k])}}
    /\ UNCHANGED <<vars, executionVars, leaving, gateVars, ownerVars, processVars>>

\* No job is executed: schedule.Manager.Step runs under the admission mutex.
Schedule ==
    /\ loop = "scan" /\ agenda = {} /\ AdmissionFree
    /\ \/ UNCHANGED gateVars
       \/ /\ dispatch /\ ~stopping
          /\ dispatch' = FALSE /\ workerErr' = "unavailable"
          /\ UNCHANGED <<requested, stopping, stopDispatch, recoveryBlocked>>
    /\ GoOn("wait")
    /\ UNCHANGED <<vars, ownerVars, processVars>>

\* Otherwise the admission ends in an error, as it does without the context.
MayExecute == dispatch /\ ~stopping /\ ~leaving

\* The oldest job on the agenda.
Eldest(w) == \A v \in agenda : w.at <= v.at

\* Its execution is admitted; its context is derived from that of the process.
Admit(w, next) ==
    /\ MayExecute
    /\ ~queuePaused
    /\ active' = Queue[w.at]
    /\ cancelled' = FALSE
    /\ agenda' = agenda \ {w}
    /\ loop' = next
    /\ UNCHANGED <<work, leaving>>

PassOver(w) ==
    /\ agenda' = agenda \ {w}
    /\ UNCHANGED <<loop, executionVars, leaving>>

AdmitStage ==
    /\ loop = "scan" /\ AdmissionFree
    /\ \E w \in agenda :
          /\ Eldest(w) /\ w.staged
          /\ \/ Admit(w, "ready")
             \/ Leave("staged_dispatch_failed")   \* not available, or a store error
             \/ MayExecute /\ queuePaused /\ PassOver(w)     \* the outcome is "staged"
    /\ UNCHANGED <<vars, gateVars, ownerVars, processVars>>

\* The executor of a legacy job is not ready: step() passes on to the next job.
SkipRun ==
    /\ loop = "scan"
    /\ ModelPolicyVersion = 1
    /\ \E w \in agenda : Eldest(w) /\ ~w.staged /\ PassOver(w)
    /\ UNCHANGED <<vars, gateVars, ownerVars, processVars>>

AdmitRun ==
    /\ loop = "scan" /\ AdmissionFree
    /\ \E w \in agenda :
          /\ Eldest(w) /\ ~w.staged
          /\ \/ Admit(w, "reconcile")
             \/ Leave("check")                    \* dispatch is disabled, or a store error
             \/ MayExecute /\ queuePaused /\ Leave("wait")
    /\ UNCHANGED <<vars, gateVars, ownerVars, processVars>>

\* Variant: an execution that could not begin is tried again at the next tick.
AfterRefusalAgain == "wait"

AfterRefusal == IF dispatch THEN "dispatch_failed" ELSE "wait"

\* After Run, step() first looks whether dispatch is still enabled.
CheckDispatch ==
    /\ loop = "check" /\ GateFree
    /\ GoOn(AfterRefusal)
    /\ UNCHANGED <<vars, gateVars, ownerVars, processVars>>

BlockDispatch ==
    /\ loop \in FaultCode /\ GateFree
    /\ dispatch' = FALSE
    /\ workerErr' = loop
    /\ GoOn("wait")
    /\ UNCHANGED <<vars, requested, stopping, stopDispatch, recoveryBlocked>>
    /\ UNCHANGED <<ownerVars, processVars>>

-----------------------------------------------------------------------------
(***************************************************************************)
(* Run and RunStage, up to the start of a child                            *)
(***************************************************************************)

StartLegacy ==
    /\ loop = "start"
    /\ \/ /\ ~leaving
          /\ StartAttempt(active) /\ UNCHANGED stagedVars
          /\ work' = <<active, NextOrdinal(active)>>
          /\ loop' = "prepare"
          /\ UNCHANGED <<agenda, active, cancelled, leaving>>
       \/ ExhaustBudget(active) /\ UNCHANGED stagedVars /\ Leave("wait")
       \/ Refused /\ UNCHANGED vars             \* not eligible any more, or a store error
    /\ UNCHANGED <<gateVars, ownerVars, processVars>>

\* The first step in order that is ready: what ReadyStep returns unless it promotes one.
FirstReady(s) ==
    /\ s \in StepsOf(active) /\ Open(active) /\ stepState[s] = "ready"
    /\ \A t \in StepsOf(active) :
          Ordinal[t] < Ordinal[s] => stepState[t] # "ready" /\ ~Promotable(t)

NothingReady ==
    \/ ~Open(active)
    \/ \A s \in StepsOf(active) : stepState[s] # "ready" /\ ~Promotable(s)

FindStep ==
    /\ loop = "ready"
    /\ \/ \E s \in StepsOf(active) :
             /\ (FirstReady(s) /\ UNCHANGED vars) \/ ReadyStep(s)
             /\ ~cancelled
             /\ IF stepState'[s] = "ready"
                THEN work' = <<s, currentAttempt[s]>> /\ loop' = "claim"
                ELSE loop' = "publish" /\ UNCHANGED work
             /\ UNCHANGED <<agenda, active, cancelled, leaving>>
       \/ NothingReady /\ ~cancelled /\ GoOn("publish") /\ UNCHANGED vars
       \/ Refused /\ UNCHANGED vars             \* cancelled, or a store error
    /\ UNCHANGED <<gateVars, ownerVars, processVars>>

Claim ==
    /\ loop = "claim"
    /\ \/ /\ ~cancelled
          /\ ClaimStep(work[1], work[2])
          /\ work' = <<work[1], currentAttempt'[work[1]]>>
          /\ loop' = "prepare"
          /\ UNCHANGED <<agenda, active, cancelled, leaving>>
       \/ Refused /\ UNCHANGED vars             \* blocked, stale, cancelled, or a store error
    /\ UNCHANGED <<gateVars, ownerVars, processVars>>

Staged == work[1] \in Step

\* The finish closure of Run: an attempt that is not current and running any more, or
\* whose job is cancelled, is left as it is; so is one that the store fails to write.
FinishLegacy(outcomes) ==
    /\ ~Staged
    /\ \/ /\ \E o \in outcomes : FinishAttempt(work[1], work[2], o) /\ UNCHANGED stagedVars
          /\ Leave("wait")
       \/ UNCHANGED vars /\ (Leave("wait") \/ Leave("check"))

\* failStage: only a cause that is neither a cancellation nor stale ends the step.
FailStage ==
    /\ Staged
    /\ \/ CompleteStep(work[1], work[2], NoArtifact, "failed")
       \/ UNCHANGED vars
    /\ Leave("wait")

\* The execution ends without a child: preparation failed or access is blocked.
GiveUp ==
    /\ loop = "prepare"
    /\ FinishLegacy({"failed", "waiting_input", "waiting_auth"}) \/ FailStage
    /\ UNCHANGED <<gateVars, ownerVars, processVars>>

-----------------------------------------------------------------------------
(***************************************************************************)
(* The child                                                               *)
(***************************************************************************)

\* The access block is checked and the intent to start a process recorded.
Announce ==
    /\ loop = "prepare"
    /\ ~accessBlocked
    /\ starting' = starting \cup {work}
    /\ GoOn("launch")
    /\ UNCHANGED <<vars, gateVars, ownerVars, groups>>

\* A command whose context is cancelled does not start.
Launch ==
    /\ loop = "launch"
    /\ ~cancelled
    /\ groups' = groups \cup {work}
    /\ GoOn("identify")
    /\ UNCHANGED <<vars, gateVars, ownerVars, starting>>

\* Only the driver of legacy executions takes the recorded intent back.
LaunchFails ==
    /\ loop = "launch"
    /\ starting' = IF Staged THEN starting ELSE starting \ {work}
    /\ FinishLegacy({"waiting_input"}) \/ FailStage
    /\ UNCHANGED <<gateVars, ownerVars, groups>>

\* The identity of the child is recorded, or the child is killed.
Identify ==
    /\ loop = "identify"
    /\ \/ /\ starting' = starting \ {work}
          /\ GoOn("child")
          /\ UNCHANGED <<vars, groups>>
       \/ /\ groups' = groups \ {work}
          /\ FinishLegacy({"waiting_input"}) \/ FailStage
          /\ UNCHANGED starting
    /\ UNCHANGED <<gateVars, ownerVars>>

\* Cancellation, and the watch on the access block, kill the group; descendants that
\* outlive the grace period make it an orphan.
ChildEnds ==
    /\ loop = "child"
    /\ \/ ~cancelled /\ GoOn("exited") /\ groups' = groups \ {work}
       \/ (cancelled \/ accessBlocked) /\ GoOn("interrupted") /\ groups' = groups \ {work}
       \/ GoOn("orphaned") /\ UNCHANGED groups
    /\ UNCHANGED <<vars, gateVars, ownerVars, starting>>

\* A group that no driver waits for ends by itself.
SurvivorEnds ==
    /\ \E g \in groups :
          /\ ~(loop \in {"identify", "child"} /\ g = work)
          /\ groups' = groups \ {g}
    /\ UNCHANGED <<vars, loopVars, gateVars, ownerVars, starting>>

\* How Run finishes the attempt, by what became of its child.
Outcomes(end) ==
    CASE end = "orphaned" -> {"waiting_input"}
      [] end = "interrupted" -> {"cancelled", "waiting_input", "failed"}
      [] OTHER -> ReportOutcome

\* Run: the executor's evidence is saved first; when that fails nothing is finished.
EndLegacy ==
    /\ loop \in ChildEnd /\ ~Staged
    /\ FinishLegacy(Outcomes(loop))
    /\ UNCHANGED <<gateVars, ownerVars, processVars>>

\* RunStage: a validated result is saved, anything else fails the step; a cancelled
\* execution leaves the step as it is.
EndStage ==
    /\ loop \in ChildEnd /\ Staged
    /\ \/ loop = "exited" /\ BeginSaveArtifact(work[1], work[2]) /\ GoOn("insert")
       \/ loop # "interrupted" /\ FailStage
       \/ loop = "interrupted" /\ UNCHANGED vars /\ Leave("wait")
    /\ UNCHANGED <<gateVars, ownerVars, processVars>>

InsertOutput ==
    /\ loop = "insert"
    /\ \/ /\ EndSaveArtifact(work[1], work[2])
          /\ IF Live(work[1], work[2]) THEN GoOn("complete") ELSE Leave("wait")
       \/ FailStage
    /\ UNCHANGED <<gateVars, ownerVars, processVars>>

FinishStage ==
    /\ loop = "complete"
    /\ \/ /\ CompleteStep(work[1], work[2], work, "completed")
          /\ IF work[1] \in Deliver THEN GoOn("publish") ELSE Leave("wait")
       \/ UNCHANGED vars /\ Leave("wait")       \* stale, or a store error
    /\ UNCHANGED <<gateVars, ownerVars, processVars>>

ResultMissing(j) ==
    /\ AllStepsCompleted(j)
    /\ StepsOf(j) \cap Deliver # {}
    /\ \E s \in StepsOf(j) \cap Validate : ~Published(s)

\* A job without a ready step lets step() go on to the next job; every other outcome,
\* an error included, ends the tick.
PublishStage ==
    /\ loop = "publish"
    /\ \/ /\ PublishValidatedResult(active) \/ (~ResultMissing(active) /\ UNCHANGED vars)
          /\ Leave(IF work = NoWork THEN "scan" ELSE "wait")
       \/ UNCHANGED vars /\ Leave("wait")
    /\ UNCHANGED <<gateVars, ownerVars, processVars>>

-----------------------------------------------------------------------------
(***************************************************************************)
(* Requests that Runner.Handle serves                                      *)
(***************************************************************************)

WorkerStart ==
    /\ Serving
    /\ MayEnable
    /\ inspecting' = TRUE
    /\ UNCHANGED <<vars, loopVars, gateVars, handling, intent, queuePaused, accessBlocked,
                   processVars>>

WorkerStop ==
    /\ Serving
    /\ intent' = FALSE
    /\ requested' = FALSE /\ dispatch' = FALSE /\ workerErr' = ""
    /\ UNCHANGED <<vars, loopVars, stopping, stopDispatch, recoveryBlocked,
                   inspecting, handling, queuePaused, accessBlocked, processVars>>

\* Variant: an active execution does not hold the stop back.
MayStopBusy == TRUE

MayStop == active = NoJob

ControllerStop ==
    /\ Serving
    /\ MayStop
    /\ stopping' = TRUE /\ stopDispatch' = dispatch /\ dispatch' = FALSE
    /\ UNCHANGED <<vars, loopVars, requested, recoveryBlocked, workerErr, ownerVars, processVars>>

AbortStop ==
    /\ Serving
    /\ stopping' = FALSE /\ stopDispatch' = FALSE
    /\ dispatch' = (dispatch \/ (requested /\ stopDispatch /\ ~recoveryBlocked))
    /\ UNCHANGED <<vars, loopVars, requested, recoveryBlocked, workerErr, ownerVars, processVars>>

\* The store ends the job; the mutex is kept until the execution in progress has been told.
CancelRequest(j) ==
    /\ Serving
    /\ Cancel(j)
    /\ handling' = [Idle EXCEPT !.op = "cancel", !.job = j]
    /\ UNCHANGED <<loopVars, gateVars, inspecting, intent, queuePaused, accessBlocked, processVars>>

\* The block is written first.  Each part is tried whatever becomes of the others.
RevokeAccess ==
    /\ Serving
    /\ accessBlocked' \in {accessBlocked, TRUE}
    /\ handling' = [Idle EXCEPT !.op = IF active = NoJob THEN "revoked" ELSE "revoke",
                                !.job = active]
    /\ UNCHANGED <<vars, loopVars, gateVars, inspecting, intent, queuePaused, processVars>>

\* Then the store ends the job that was active.
RevokeCancel ==
    /\ handling.op = "revoke"
    /\ Cancel(handling.job) \/ UNCHANGED vars
    /\ handling' = [handling EXCEPT !.op = "revoked"]
    /\ UNCHANGED <<loopVars, gateVars, inspecting, intent, queuePaused, accessBlocked, processVars>>

\* Variant: the running execution is not told.
CancelledUntold == cancelled

\* The context of the execution in progress, after a request that has ended its job.
CancelledByRequest == cancelled \/ (active # NoJob /\ active = handling.job)

\* r.cancel(), and for revoke_access the pause of the queue, by which nothing is admitted
\* before the request ends.
Tell ==
    /\ Telling
    /\ cancelled' = CancelledByRequest
    /\ handling' = Idle
    /\ queuePaused' \in {queuePaused, queuePaused \/ Revoking}
    /\ UNCHANGED <<vars, loop, agenda, work, active, leaving, gateVars, inspecting, intent,
                   accessBlocked, processVars>>

ResumeAccess ==
    /\ Serving
    /\ accessBlocked /\ accessBlocked' = FALSE
    /\ UNCHANGED <<vars, loopVars, gateVars, inspecting, handling, intent, queuePaused, processVars>>

SetQueuePaused(p) ==
    /\ Serving
    /\ queuePaused' = p
    /\ UNCHANGED <<vars, loopVars, gateVars, inspecting, handling, intent, accessBlocked, processVars>>

\* New legacy work is not admitted by a stopping controller.
QueueRequest(j) ==
    /\ Serving /\ ~stopping
    /\ Submit(j) /\ \A s \in Step : JobOf[s] # j
    /\ UNCHANGED <<stagedVars, controllerVars>>

\* Neither are retry and resolve.  They read the attempts of the job, and go on if the
\* budget has one left; the requests explored are those that ResumeBound allows.
CountAttempts(j) ==
    /\ Serving /\ ~stopping
    /\ Len(attempts[j]) < limit
    /\ resumed[j] < ResumeBound
    /\ handling' = [op |-> "resume", job |-> j, seen |-> Len(attempts[j])]
    /\ UNCHANGED <<vars, loopVars, gateVars, inspecting, intent, queuePaused, accessBlocked, processVars>>

\* An execution admitted before may have recorded an attempt in between.
ResumeJob ==
    /\ handling.op = "resume"
    /\ \/ \E answered \in BOOLEAN : Resume(handling.job, answered) /\ UNCHANGED stagedVars
       \/ UNCHANGED vars
    /\ handling' = Idle
    /\ UNCHANGED <<loopVars, gateVars, inspecting, intent, queuePaused, accessBlocked, processVars>>

StagedRequest(j) ==
    /\ Serving
    /\ SubmitStaged(j) \/ \E p \in BOOLEAN : SetPaused(j, p)
    /\ UNCHANGED controllerVars

StepRequest(s) ==
    /\ Serving
    /\ ApproveStep(s) \/ RetryStep(s, currentAttempt[s])
    /\ UNCHANGED controllerVars

TimePasses == \E j \in Job : RetryDelayElapses(j) /\ UNCHANGED <<stagedVars, controllerVars>>

-----------------------------------------------------------------------------
Recovery == Reconcile \/ RecoverSteps \/ RecoverJobs

Dispatching ==
    \/ Tick \/ ReadQueue \/ Schedule \/ AdmitStage \/ SkipRun \/ AdmitRun
    \/ CheckDispatch \/ BlockDispatch

Executing ==
    \/ StartLegacy \/ FindStep \/ Claim \/ GiveUp
    \/ Announce \/ Launch \/ LaunchFails \/ Identify \/ ChildEnds
    \/ EndLegacy \/ EndStage \/ InsertOutput \/ FinishStage \/ PublishStage

SetWorkerEnds == EnableFails \/ EnableCommits

\* The rest of a request that has begun.
RequestGoesOn == RevokeCancel \/ Tell \/ ResumeJob

Request ==
    \/ WorkerStart \/ WorkerStop \/ ControllerStop \/ AbortStop
    \/ RevokeAccess \/ ResumeAccess
    \/ \E p \in BOOLEAN : SetQueuePaused(p)
    \/ \E j \in Job : CancelRequest(j) \/ QueueRequest(j) \/ CountAttempts(j) \/ StagedRequest(j)
    \/ \E s \in Step : StepRequest(s)

ControllerNext ==
    \/ Boot \/ Recovery \/ RememberIntent \/ Dispatching \/ Executing \/ SetWorkerEnds
    \/ Request \/ RequestGoesOn \/ Terminate \/ Exit \/ Crash \/ SurvivorEnds \/ TimePasses

\* The loop's goroutine and a request in progress go on; a child is bounded by the configured
\* timeout; sync.Mutex does not starve the loop, however often the owner takes admission or
\* the gate.  New requests, crashes, restarts and surviving groups promise nothing.
Fairness ==
    /\ WF_allVars(Recovery \/ RememberIntent \/ Dispatching \/ Executing)
    /\ WF_allVars(SetWorkerEnds \/ RequestGoesOn)
    /\ SF_allVars(\/ Tick \/ AdmitStage \/ AdmitRun \/ Schedule
                  \/ CheckDispatch \/ BlockDispatch \/ (leaving /\ Exit))

ControllerSpec == ControllerInit /\ [][ControllerNext]_allVars /\ Fairness

-----------------------------------------------------------------------------
(***************************************************************************)
(* Properties                                                              *)
(***************************************************************************)

\* Nothing executes in a controller that has agreed to stop, and nothing in one whose
\* recovery is blocked: the admission of an execution, controller_stop, abort and
\* worker_start each look at the gate under their own locks.
QuietWhenClosed == (stopping \/ recoveryBlocked) => active = NoJob

\* The execution of a job that is cancelled while it works on an attempt knows, as soon as
\* the request that cancels it has come to its end.
CancellationIsSeen ==
    work # NoWork /\ status[active] = "cancelled" =>
        cancelled \/ (Telling /\ handling.job = active)

\* Nor does revoke_access, once it is answered, leave a process alone that it met on its way
\* from the check of the access block to its start.
RevocationIsSeen ==
    accessBlocked /\ loop \in {"launch", "identify", "child"} => cancelled \/ Revoking

\* What executes heeds the owner, however requests and the loop interleave: nothing
\* executes behind a closed gate, what is cancelled knows it, and so does what has slipped
\* past the access block.
ExecutionHeedsOwner == QuietWhenClosed /\ CancellationIsSeen /\ RevocationIsSeen

\* Once revoke_access is answered no process is started as long as its block stands, whatever
\* was admitted, checked or announced before.  Until then one may be: the block is written
\* before the execution is told.
NoStartWhileBlocked == [][groups' \subseteq groups \/ ~accessBlocked \/ Revoking]_allVars

\* A legacy execution starts alone: recovery has terminated every other group that the
\* records name, orphans of stages and of earlier lives of the controller included.
LegacyStartsAlone ==
    [][\A g \in groups' \ groups : g[1] \in Job => groups = {}]_allVars

\* "Unknown execution is never auto-replayed": an attempt of a job is only recorded once no
\* earlier one of that job can still be alive, however it ended and whoever resumed the job.
UncertainIsNotReplayed ==
    [][\A j \in Job : current'[j] # current[j] =>
          \A g \in groups \cup starting : g[1] # j]_allVars

\* Retry and resolve have counted the attempts of job j while one was left, and the execution
\* that was under way has recorded the last one since.
OvertakenByAttempt(j) ==
    /\ handling.op = "resume" /\ handling.job = j
    /\ handling.seen < limit
    /\ Len(attempts[j]) = handling.seen + 1

\* Work is queued while the budget has an attempt left for it: submission, the finish of an
\* attempt (by ordinal) and an explicit resume (by an earlier count) each see to it on their
\* own.  One attempt, and no second, may overtake a resume that has counted.
QueuedWithinBudget ==
    [][\A j \in Job :
          status'[j] # status[j] /\ status'[j] \in {"queued", "retry_wait"} =>
              Len(attempts'[j]) < limit \/ OvertakenByAttempt(j)]_allVars

\* Eligible legacy work is taken up, unless dispatch is off, the queue is paused or the
\* controller has gone.
QueuedWorkIsTaken ==
    \A j \in Job :
        (status[j] = "queued") ~>
            (status[j] # "queued" \/ ~dispatch \/ queuePaused \/ loop = "down")

\* "worker_stop ... must not be relabeled as a fault": an execution that is refused after
\* the owner stopped the worker is not about to be recorded as a fault of the dispatch.
StopIsNoFault ==
    [][~requested /\ loop \in {"scan", "check"} => loop' \notin DispatchFault]_allVars

\* A process starts only when it may: not behind a block that the owner was told of, and a
\* legacy execution not beside anything an earlier life of the controller has left.
StartsAreGuarded == NoStartWhileBlocked /\ LegacyStartsAlone
=============================================================================
