------------------------------ MODULE JobQueue ------------------------------
(***************************************************************************)
(* The rows "jobs" and "attempts" of the SQLite store and the transactions *)
(* of internal/store that move them.  An attempt is named by its ordinal   *)
(* (UNIQUE(job_id,ordinal), always count+1), and 0 stands for the empty    *)
(* current_attempt.  Callers may hold an attempt that is no longer the     *)
(* current one, so every operation that takes an attempt takes ANY         *)
(* ordinal.  A staged job keeps its row here with status "staged"; its     *)
(* steps are the subject of module StagedWorkflow.                         *)
(***************************************************************************)
EXTENDS Naturals, Sequences, FiniteSets

CONSTANTS
    Job,            \* identities of jobs, host-generated
    MaxAttempts,    \* bound on the configured limits.max_attempts
    ResumeBound     \* bound on the number of explicit resumes explored per job

ASSUME QueueAssumption ==
    /\ MaxAttempts \in Nat \ {0}        \* config.Validate rejects max_attempts <= 0
    /\ ResumeBound \in Nat

VARIABLES
    status,         \* jobs.status
    attempts,       \* attempts.status of each attempt of the job, by ordinal
    current,        \* jobs.current_attempt
    delayed,        \* jobs.not_before lies in the future
    diagnostic,     \* jobs.diagnostic, as far as an operation reads it back
    resumed,        \* number of "job.resumed" rows in the event log
    limit           \* limits.max_attempts of the configuration in force

queueVars == <<status, attempts, current, delayed, diagnostic, resumed, limit>>

JobStatus == {"none", "staged", "queued", "running", "retry_wait", "waiting_input",
              "waiting_auth", "completed", "partial", "failed", "cancelled"}
AttemptStatus == {"running", "completed", "failed", "cancelled", "interrupted"}
Diagnostic == {"", "recovery", "publication", "other"}

\* How Runner.Run leaves an attempt: a store status, "retryable" for a failure that
\* asks for a retry, "unpublished" for a report whose presentation was not saved.
Outcome == {"completed", "partial", "failed", "cancelled", "waiting_input",
            "waiting_auth", "retryable", "unpublished"}

QueueTypeOK ==
    /\ status \in [Job -> JobStatus]
    /\ attempts \in [Job -> Seq(AttemptStatus)]
    /\ current \in [Job -> Nat]
    /\ delayed \in [Job -> BOOLEAN]
    /\ diagnostic \in [Job -> Diagnostic]
    /\ resumed \in [Job -> Nat]
    /\ limit \in 1..MaxAttempts

QueueInit ==
    /\ status = [j \in Job |-> "none"]
    /\ attempts = [j \in Job |-> <<>>]
    /\ current = [j \in Job |-> 0]
    /\ delayed = [j \in Job |-> FALSE]
    /\ diagnostic = [j \in Job |-> ""]
    /\ resumed = [j \in Job |-> 0]
    /\ limit \in 1..MaxAttempts

-----------------------------------------------------------------------------
(***************************************************************************)
(* Operations.  A definition marked "Variant" is a plausible slip in the   *)
(* definition that follows it; no action uses it.                          *)
(***************************************************************************)

\* Variants: the attempt table is forgotten, or overwritten as a whole.
EndRunningForgotten(as, st) == as
EndRunningAll(as, st) == [a \in 1..Len(as) |-> st]

\* Every running attempt in the sequence as ends with status st.
EndRunning(as, st) == [a \in 1..Len(as) |-> IF as[a] = "running" THEN st ELSE as[a]]

Submit(j) ==
    /\ status[j] = "none"
    /\ status' = [status EXCEPT ![j] = "queued"]
    /\ UNCHANGED <<attempts, current, delayed, diagnostic, resumed, limit>>

NextOrdinal(j) == Len(attempts[j]) + 1

StartAttempt(j) ==
    /\ status[j] \in {"queued", "retry_wait"}
    /\ ~delayed[j]
    /\ Len(attempts[j]) < limit
    /\ attempts' = [attempts EXCEPT ![j] = Append(@, "running")]
    /\ current' = [current EXCEPT ![j] = NextOrdinal(j)]
    /\ status' = [status EXCEPT ![j] = "running"]
    /\ diagnostic' = [diagnostic EXCEPT ![j] = ""]
    /\ UNCHANGED <<delayed, resumed, limit>>

\* StartAttempt with the budget used up parks the job instead of starting it.
ExhaustBudget(j) ==
    /\ status[j] \in {"queued", "retry_wait"}
    /\ ~delayed[j]
    /\ Len(attempts[j]) >= limit
    /\ status' = [status EXCEPT ![j] = "waiting_input"]
    /\ diagnostic' = [diagnostic EXCEPT ![j] = "other"]
    /\ UNCHANGED <<attempts, current, delayed, resumed, limit>>

\* The job status that the finish closure of Runner.Run passes to the store.
FinalStatus(a, outcome) ==
    CASE outcome = "retryable" -> IF a < limit THEN "retry_wait" ELSE "failed"
      [] outcome = "unpublished" -> "waiting_input"
      [] OTHER -> outcome

\* Variant: the attempt takes the status of the job as it is.
EndedAsJob(st) == st

EndedAs(st) ==
    CASE st \in {"completed", "partial"} -> "completed"
      [] st = "cancelled" -> "cancelled"
      [] OTHER -> "failed"

FinishDiagnostic(outcome) ==
    CASE outcome = "unpublished" -> "publication"
      [] outcome \in {"completed", "partial"} -> ""
      [] OTHER -> "other"

FinishAttempt(j, a, outcome) ==
    LET st == FinalStatus(a, outcome) IN
    /\ status[j] = "running"
    /\ current[j] = a
    /\ status' = [status EXCEPT ![j] = st]
    /\ delayed' = [delayed EXCEPT ![j] = (st = "retry_wait")]
    /\ diagnostic' = [diagnostic EXCEPT ![j] = FinishDiagnostic(outcome)]
    /\ attempts' = [attempts EXCEPT ![j][a] = IF @ = "running" THEN EndedAs(st) ELSE @]
    /\ UNCHANGED <<current, resumed, limit>>

\* not_before is reached.
RetryDelayElapses(j) ==
    /\ delayed[j]
    /\ delayed' = [delayed EXCEPT ![j] = FALSE]
    /\ UNCHANGED <<status, attempts, current, diagnostic, resumed, limit>>

\* The states that Store.Cancel refuses.
FinalStatuses == {"completed", "partial", "cancelled"}

\* The part of Store.Cancel that concerns the job row and its attempts.
CancelJob(j) ==
    /\ status[j] \notin {"none"} \cup FinalStatuses
    /\ status' = [status EXCEPT ![j] = "cancelled"]
    /\ diagnostic' = [diagnostic EXCEPT ![j] = "other"]
    /\ attempts' = [attempts EXCEPT ![j] = EndRunning(@, "cancelled")]
    /\ UNCHANGED <<current, delayed, resumed, limit>>

\* The store takes up any job the owner names: the budget is the business of the caller.
Resume(j, answered) ==
    /\ resumed[j] < ResumeBound
    /\ \/ status[j] = "waiting_input" /\ answered
       \/ status[j] \in {"failed", "retry_wait", "waiting_auth", "cancelled"}
    /\ status' = [status EXCEPT ![j] = "queued"]
    /\ delayed' = [delayed EXCEPT ![j] = FALSE]
    /\ diagnostic' = [diagnostic EXCEPT ![j] = ""]
    /\ resumed' = [resumed EXCEPT ![j] = @ + 1]
    /\ UNCHANGED <<attempts, current, limit>>

\* Variant: recovery queues the interrupted job again.
RecoveredStatusQueued == "queued"

RecoveredStatus == "waiting_input"

\* One job of the recovery loop: each job is a transaction of its own.
RecoverInterrupted(j) ==
    /\ status[j] = "running"
    /\ status' = [status EXCEPT ![j] = RecoveredStatus]
    /\ diagnostic' = [diagnostic EXCEPT ![j] = "recovery"]
    /\ attempts' = [attempts EXCEPT ![j] =
           [a \in 1..Len(@) |-> IF a = current[j] /\ @[a] = "running"
                                THEN "interrupted" ELSE @[a]]]
    /\ UNCHANGED <<current, delayed, resumed, limit>>

\* Presentation of an already generated report is retried without an execution.
CompletePublication(j, a, st) ==
    /\ status[j] = "waiting_input"
    /\ current[j] = a
    /\ diagnostic[j] \in {"publication", "recovery"}
    /\ st \in {"completed", "partial", "waiting_input"}
    /\ status' = [status EXCEPT ![j] = st]
    /\ diagnostic' = [diagnostic EXCEPT ![j] = ""]
    /\ UNCHANGED <<attempts, current, delayed, resumed, limit>>

\* The owner edits limits.max_attempts; a worker only takes it over while idle.
Reconfigure(n) ==
    /\ \A j \in Job : status[j] # "running"
    /\ limit' = n
    /\ UNCHANGED <<status, attempts, current, delayed, diagnostic, resumed>>

\* Every operation on the jobs table but Cancel, which also ends the steps of a job.
QueueStep(j) ==
    \/ StartAttempt(j)
    \/ ExhaustBudget(j)
    \/ \E a \in 1..MaxAttempts, outcome \in Outcome : FinishAttempt(j, a, outcome)
    \/ RetryDelayElapses(j)
    \/ \E answered \in BOOLEAN : Resume(j, answered)
    \/ RecoverInterrupted(j)
    \/ \E a \in 1..MaxAttempts, st \in JobStatus : CompletePublication(j, a, st)

QueueNext ==
    \/ \E j \in Job : Submit(j) \/ CancelJob(j) \/ QueueStep(j)
    \/ \E n \in 1..MaxAttempts : Reconfigure(n)

QueueSpec == QueueInit /\ [][QueueNext]_queueVars

-----------------------------------------------------------------------------
(***************************************************************************)
(* Properties                                                              *)
(***************************************************************************)

\* The attempt table and the job row agree: an attempt is running exactly when it is
\* the current attempt of a running job.  Start, finish, cancel and recovery each
\* write both tables, and each could forget one of them.
RunningAttemptIsCurrent ==
    \A j \in Job : \A a \in 1..Len(attempts[j]) :
        attempts[j][a] = "running" <=> status[j] = "running" /\ a = current[j]

\* current_attempt always names the latest attempt, so publication recovery and
\* process reconciliation, which look only at it, never miss a younger attempt.
CurrentIsLatest == \A j \in Job : current[j] = Len(attempts[j])

\* The first n of the attempts as that did not fail: interrupted, cancelled or finished ones.
Unfailed(as, n) == {a \in 1..n : as[a] # "failed"}

\* The host never reruns interrupted, cancelled or finished work by itself: each such
\* attempt that was followed by another one was followed by an explicit resume.
NoUnreviewedRerun ==
    \A j \in Job : Cardinality(Unfailed(attempts[j], Len(attempts[j]) - 1)) <= resumed[j]

\* Attempts are evidence: none disappears, and one that has ended never changes.
AttemptsAreImmutable ==
    [][\A j \in Job :
          /\ Len(attempts[j]) <= Len(attempts'[j])
          /\ \A a \in 1..Len(attempts[j]) :
                attempts[j][a] # "running" => attempts'[j][a] = attempts[j][a]]_queueVars

\* A job that reported a result is never cancelled, resumed, retried or recovered.
ReportedJobIsFinal ==
    [][\A j \in Job : status[j] \in {"completed", "partial"} => status'[j] = status[j]]_queueVars

\* What has been reported stays: late finishes, cancellations and recoveries rewrite neither
\* an ended attempt nor a job that has given its result.
HistoryIsFinal == AttemptsAreImmutable /\ ReportedJobIsFinal
=============================================================================
