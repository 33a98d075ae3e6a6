------------------------ MODULE StagedWorkflowProofs ------------------------
(***************************************************************************)
(* The store, whatever the number of jobs and outputs, the attempt budget  *)
(* and the order of operations: the rows of the queue's jobs and attempts  *)
(* agree, and so do those of the stages, their outputs and the results.    *)
(***************************************************************************)
EXTENDS StagedWorkflow, SequenceTheorems, FiniteSetTheorems, TLAPS

-----------------------------------------------------------------------------
(* The queue.                                                              *)

\* The agreement of the two tables needs that current_attempt names the latest attempt
\* (a new attempt then never shadows a running one) and that a running job has it running.
QueueInv == QueueTypeOK /\ CurrentIsLatest /\ RunningAttemptIsCurrent

\* A job that was not submitted has no attempts, so a submission is within every budget.
UnsubmittedHasNone == \A j \in Job : status[j] = "none" => attempts[j] = <<>>

\* The resumes cover the latest attempt as well once the job may start another one: it did
\* not fail only if somebody resumed the job after it.
ResumesCoverLatest ==
    \A j \in Job : status[j] \in {"none", "queued", "retry_wait"} =>
        Cardinality(Unfailed(attempts[j], Len(attempts[j]))) <= resumed[j]

ReviewInv == QueueInv /\ UnsubmittedHasNone /\ NoUnreviewedRerun /\ ResumesCoverLatest

-----------------------------------------------------------------------------
\* A function on an initial segment of the naturals is a sequence of that length.
LEMMA SeqOfFunction ==
    ASSUME NEW S, NEW n \in Nat, NEW f \in [1..n -> S]
    PROVE  f \in Seq(S) /\ Len(f) = n
<1>1. f \in Seq(S)
  BY SeqDef
<1>2. Len(f) \in Nat /\ 1..Len(f) = 1..n
  BY <1>1, LenProperties
<1>3. \A m \in Nat : 1..m = 1..n => m = n
  <2> SUFFICES ASSUME NEW m \in Nat, 1..m = 1..n PROVE m = n
    OBVIOUS
  <2>1. n >= 1 => n \in 1..m
    OBVIOUS
  <2>2. m >= 1 => m \in 1..n
    OBVIOUS
  <2> QED BY <2>1, <2>2
<1> QED BY <1>1, <1>2, <1>3

\* Updating the attempts of a job keeps their number and their type.
LEMMA EndRunningProperties ==
    ASSUME NEW as \in Seq(AttemptStatus), NEW st \in AttemptStatus \ {"running"}
    PROVE  /\ EndRunning(as, st) \in Seq(AttemptStatus)
           /\ Len(EndRunning(as, st)) = Len(as)
           /\ \A a \in 1..Len(as) : /\ EndRunning(as, st)[a] # "running"
                                    /\ as[a] # "running" => EndRunning(as, st)[a] = as[a]
<1>1. Len(as) \in Nat /\ \A a \in 1..Len(as) : as[a] \in AttemptStatus
  BY ElementOfSeq, LenProperties
<1>2. EndRunning(as, st) \in [1..Len(as) -> AttemptStatus]
  BY <1>1 DEF EndRunning
<1>3. EndRunning(as, st) \in Seq(AttemptStatus) /\ Len(EndRunning(as, st)) = Len(as)
  BY <1>1, <1>2, SeqOfFunction
<1>4. \A a \in 1..Len(as) : EndRunning(as, st)[a] = IF as[a] = "running" THEN st ELSE as[a]
  BY DEF EndRunning
<1> QED BY <1>3, <1>4

-----------------------------------------------------------------------------
LEMMA QueueInitInv == QueueInit => QueueInv
<1> SUFFICES ASSUME QueueInit PROVE QueueInv
  OBVIOUS
<1>1. <<>> \in Seq(AttemptStatus) /\ Len(<<>>) = 0
  BY EmptySeq
<1>2. QueueTypeOK
  BY <1>1 DEF QueueInit, QueueTypeOK, JobStatus, Diagnostic
<1>3. \A j \in Job : attempts[j] = <<>> /\ current[j] = 0
  BY DEF QueueInit
<1>4. CurrentIsLatest
  BY <1>1, <1>3 DEF CurrentIsLatest
<1>5. RunningAttemptIsCurrent
  <2> SUFFICES ASSUME NEW j \in Job, NEW a \in 1..Len(attempts[j]) PROVE FALSE
    BY DEF RunningAttemptIsCurrent
  <2>1. Len(attempts[j]) = 0
    BY <1>1, <1>3
  <2> QED BY <2>1
<1> QED BY <1>2, <1>4, <1>5 DEF QueueInv

LEMMA SubmitInv ==
    ASSUME QueueInv, NEW j \in Job, Submit(j)
    PROVE  QueueInv'
BY DEF Submit, QueueInv, QueueTypeOK, CurrentIsLatest, RunningAttemptIsCurrent, JobStatus

LEMMA StartAttemptInv ==
    ASSUME QueueInv, NEW j \in Job, StartAttempt(j)
    PROVE  QueueInv'
<1> DEFINE n == Len(attempts[j])
<1>1. /\ attempts[j] \in Seq(AttemptStatus) /\ n \in Nat
      /\ attempts'[j] = Append(attempts[j], "running")
  BY LenProperties DEF StartAttempt, QueueInv, QueueTypeOK
<1>2. /\ attempts'[j] \in Seq(AttemptStatus)
      /\ Len(attempts'[j]) = n + 1
      /\ attempts'[j][n + 1] = "running"
      /\ \A a \in 1..n : attempts'[j][a] = attempts[j][a]
  BY <1>1 DEF AttemptStatus
<1>3. \A a \in 1..n : attempts[j][a] # "running"
  BY DEF StartAttempt, QueueInv, RunningAttemptIsCurrent
<1>4. /\ status' = [status EXCEPT ![j] = "running"]
      /\ current' = [current EXCEPT ![j] = n + 1]
      /\ diagnostic' = [diagnostic EXCEPT ![j] = ""]
      /\ \A i \in Job \ {j} : attempts'[i] = attempts[i]
      /\ attempts' \in [Job -> Seq(AttemptStatus)]
      /\ UNCHANGED <<delayed, resumed, limit>>
  BY <1>1, <1>2 DEF StartAttempt, NextOrdinal, QueueInv, QueueTypeOK
<1>5. QueueTypeOK'
  <2>1. n + 1 \in Nat /\ "running" \in JobStatus /\ "" \in Diagnostic
    BY <1>1 DEF JobStatus, Diagnostic
  <2>2. status' \in [Job -> JobStatus] /\ current' \in [Job -> Nat] /\ diagnostic' \in [Job -> Diagnostic]
    BY <1>4, <2>1 DEF QueueInv, QueueTypeOK
  <2> QED BY <1>4, <2>2 DEF QueueInv, QueueTypeOK
<1>6. CurrentIsLatest'
  BY <1>2, <1>4 DEF QueueInv, QueueTypeOK, CurrentIsLatest
<1>7. /\ status'[j] = "running" /\ current'[j] = n + 1
      /\ \A i \in Job \ {j} : status'[i] = status[i] /\ current'[i] = current[i]
  BY <1>4 DEF QueueInv, QueueTypeOK
<1>8. RunningAttemptIsCurrent'
  <2> SUFFICES ASSUME NEW i \in Job, NEW a \in 1..Len(attempts'[i])
               PROVE  attempts'[i][a] = "running" <=> status'[i] = "running" /\ a = current'[i]
    BY DEF RunningAttemptIsCurrent
  <2>1. CASE i = j
    <3>1. CASE a = n + 1
      BY <2>1, <3>1, <1>2, <1>7
    <3>2. CASE a \in 1..n
      BY <2>1, <3>2, <1>1, <1>2, <1>3, <1>7
    <3> QED BY <2>1, <3>1, <3>2, <1>1, <1>2
  <2>2. CASE i # j
    <3>1. attempts'[i] = attempts[i] /\ status'[i] = status[i] /\ current'[i] = current[i]
      BY <2>2, <1>4, <1>7
    <3> QED BY <3>1 DEF QueueInv, RunningAttemptIsCurrent
  <2> QED BY <2>1, <2>2
<1> QED BY <1>5, <1>6, <1>8 DEF QueueInv

\* The attempt that is finished is the running one of its job, and the latest.
LEMMA RunningAttempt ==
    ASSUME QueueInv, NEW j \in Job, NEW a \in Nat \ {0}, NEW outcome \in Outcome,
           FinishAttempt(j, a, outcome)
    PROVE  /\ attempts[j] \in Seq(AttemptStatus) /\ a \in 1..Len(attempts[j]) /\ a = Len(attempts[j])
           /\ attempts[j][a] = "running"
           /\ \A b \in 1..Len(attempts[j]) : b # a => attempts[j][b] # "running"
<1>1. attempts[j] \in Seq(AttemptStatus) /\ current[j] = Len(attempts[j])
  BY DEF QueueInv, QueueTypeOK, CurrentIsLatest
<1>2. status[j] = "running" /\ current[j] = a /\ a \in 1..Len(attempts[j])
  BY <1>1 DEF FinishAttempt
<1>3. \A b \in 1..Len(attempts[j]) :
         attempts[j][b] = "running" <=> status[j] = "running" /\ b = current[j]
  BY DEF QueueInv, RunningAttemptIsCurrent
<1> QED BY <1>1, <1>2, <1>3

LEMMA FinishAttemptInv ==
    ASSUME QueueInv, NEW j \in Job, NEW a \in Nat \ {0}, NEW outcome \in Outcome,
           FinishAttempt(j, a, outcome)
    PROVE  QueueInv'
<1> DEFINE st == FinalStatus(a, outcome)
<1>1. st \in JobStatus \ {"running"}
  BY DEF FinalStatus, Outcome, JobStatus
<1>2. EndedAs(st) \in AttemptStatus \ {"running"} /\ FinishDiagnostic(outcome) \in Diagnostic
  BY <1>1 DEF EndedAs, FinishDiagnostic, AttemptStatus, Diagnostic
<1>3. /\ attempts[j] \in Seq(AttemptStatus) /\ a \in 1..Len(attempts[j])
      /\ attempts[j][a] = "running"
      /\ \A b \in 1..Len(attempts[j]) : b # a => attempts[j][b] # "running"
  BY RunningAttempt
<1>4. attempts' = [attempts EXCEPT ![j] = [attempts[j] EXCEPT ![a] = EndedAs(st)]]
  BY <1>3 DEF FinishAttempt
<1>5. /\ attempts'[j] \in Seq(AttemptStatus)
      /\ Len(attempts'[j]) = Len(attempts[j])
      /\ \A b \in 1..Len(attempts[j]) : attempts'[j][b] # "running"
  BY <1>2, <1>3, <1>4, ExceptSeq DEF QueueInv, QueueTypeOK
<1>6. /\ status' = [status EXCEPT ![j] = st]
      /\ delayed' = [delayed EXCEPT ![j] = (st = "retry_wait")]
      /\ diagnostic' = [diagnostic EXCEPT ![j] = FinishDiagnostic(outcome)]
      /\ \A i \in Job \ {j} : attempts'[i] = attempts[i]
      /\ attempts' \in [Job -> Seq(AttemptStatus)]
      /\ UNCHANGED <<current, resumed, limit>>
  BY <1>4, <1>5 DEF FinishAttempt, QueueInv, QueueTypeOK
<1> HIDE DEF st
<1>7. QueueTypeOK'
  BY <1>1, <1>2, <1>6 DEF QueueInv, QueueTypeOK
<1>8. CurrentIsLatest'
  BY <1>5, <1>6 DEF QueueInv, QueueTypeOK, CurrentIsLatest
<1>9. RunningAttemptIsCurrent'
  BY <1>1, <1>5, <1>6 DEF QueueInv, QueueTypeOK, RunningAttemptIsCurrent
<1> QED BY <1>7, <1>8, <1>9 DEF QueueInv

\* Cancellation and recovery end the running attempt of a job together with the job.
LEMMA EndedJobInv ==
    ASSUME QueueInv, NEW j \in Job, NEW st \in JobStatus \ {"running"}, NEW diag \in Diagnostic,
           status' = [status EXCEPT ![j] = st],
           diagnostic' = [diagnostic EXCEPT ![j] = diag],
           attempts' = [attempts EXCEPT ![j] = attempts'[j]],
           attempts'[j] \in Seq(AttemptStatus),
           Len(attempts'[j]) = Len(attempts[j]),
           \A a \in 1..Len(attempts[j]) : attempts'[j][a] # "running",
           UNCHANGED <<current, delayed, resumed, limit>>
    PROVE  QueueInv'
<1>1. /\ attempts' \in [Job -> Seq(AttemptStatus)]
      /\ \A i \in Job \ {j} : attempts'[i] = attempts[i]
  BY DEF QueueInv, QueueTypeOK
<1>2. QueueTypeOK'
  BY <1>1 DEF QueueInv, QueueTypeOK
<1>3. CurrentIsLatest'
  BY <1>1 DEF QueueInv, QueueTypeOK, CurrentIsLatest
<1>4. RunningAttemptIsCurrent'
  BY <1>1 DEF QueueInv, QueueTypeOK, RunningAttemptIsCurrent
<1> QED BY <1>2, <1>3, <1>4 DEF QueueInv

LEMMA CancelJobInv ==
    ASSUME QueueInv, NEW j \in Job, CancelJob(j)
    PROVE  QueueInv'
<1>1. attempts[j] \in Seq(AttemptStatus) /\ "cancelled" \in AttemptStatus \ {"running"}
  BY DEF QueueInv, QueueTypeOK, AttemptStatus
<1>2. attempts'[j] = EndRunning(attempts[j], "cancelled")
  BY DEF CancelJob, QueueInv, QueueTypeOK
<1>3. /\ attempts'[j] \in Seq(AttemptStatus)
      /\ Len(attempts'[j]) = Len(attempts[j])
      /\ \A a \in 1..Len(attempts[j]) : attempts'[j][a] # "running"
  BY <1>1, <1>2, EndRunningProperties
<1>4. "cancelled" \in JobStatus \ {"running"} /\ "other" \in Diagnostic
  BY DEF JobStatus, Diagnostic
<1> QED BY <1>2, <1>3, <1>4, EndedJobInv DEF CancelJob

LEMMA RecoverInterruptedInv ==
    ASSUME QueueInv, NEW j \in Job, RecoverInterrupted(j)
    PROVE  QueueInv'
<1>1. attempts[j] \in Seq(AttemptStatus) /\ "interrupted" \in AttemptStatus \ {"running"}
  BY DEF QueueInv, QueueTypeOK, AttemptStatus
<1>2. \A a \in 1..Len(attempts[j]) : attempts[j][a] = "running" => a = current[j]
  BY DEF QueueInv, RunningAttemptIsCurrent
<1>3. attempts'[j] = EndRunning(attempts[j], "interrupted")
  BY <1>2 DEF RecoverInterrupted, EndRunning, QueueInv, QueueTypeOK
<1>4. /\ attempts'[j] \in Seq(AttemptStatus)
      /\ Len(attempts'[j]) = Len(attempts[j])
      /\ \A a \in 1..Len(attempts[j]) : attempts'[j][a] # "running"
  BY <1>1, <1>3, EndRunningProperties
<1>5. attempts' = [attempts EXCEPT ![j] = attempts'[j]]
  BY DEF RecoverInterrupted, QueueInv, QueueTypeOK
<1>6. RecoveredStatus \in JobStatus \ {"running"} /\ "recovery" \in Diagnostic
  BY DEF RecoveredStatus, JobStatus, Diagnostic
<1> QED BY <1>4, <1>5, <1>6, EndedJobInv DEF RecoverInterrupted

\* An operation that moves a job between states that are not "running".
LEMMA ParkedJobInv ==
    ASSUME QueueInv, NEW j \in Job, status[j] # "running", NEW st \in JobStatus \ {"running"},
           NEW diag \in Diagnostic, NEW delay \in BOOLEAN, NEW r \in Nat,
           status' = [status EXCEPT ![j] = st],
           diagnostic' = [diagnostic EXCEPT ![j] = diag],
           delayed' = [delayed EXCEPT ![j] = delay],
           resumed' = [resumed EXCEPT ![j] = r],
           UNCHANGED <<attempts, current, limit>>
    PROVE  QueueInv'
BY DEF QueueInv, QueueTypeOK, CurrentIsLatest, RunningAttemptIsCurrent

LEMMA QueueStepInv ==
    ASSUME QueueInv, NEW j \in Job, QueueStep(j)
    PROVE  QueueInv'
<1>1. /\ status[j] \in JobStatus /\ diagnostic[j] \in Diagnostic /\ delayed[j] \in BOOLEAN
      /\ resumed[j] \in Nat /\ resumed[j] + 1 \in Nat
      /\ status = [status EXCEPT ![j] = status[j]]
      /\ diagnostic = [diagnostic EXCEPT ![j] = diagnostic[j]]
      /\ delayed = [delayed EXCEPT ![j] = delayed[j]]
      /\ resumed = [resumed EXCEPT ![j] = resumed[j]]
  BY DEF QueueInv, QueueTypeOK
<1>2. CASE StartAttempt(j)
  BY <1>2, StartAttemptInv
<1>3. CASE ExhaustBudget(j)
  BY <1>1, <1>3, ParkedJobInv DEF ExhaustBudget, JobStatus, Diagnostic
<1>4. CASE \E a \in 1..MaxAttempts, outcome \in Outcome : FinishAttempt(j, a, outcome)
  BY <1>4, FinishAttemptInv
<1>5. CASE RetryDelayElapses(j)
  BY <1>5 DEF RetryDelayElapses, QueueInv, QueueTypeOK, CurrentIsLatest, RunningAttemptIsCurrent
<1>6. CASE \E answered \in BOOLEAN : Resume(j, answered)
  <2>1. PICK answered \in BOOLEAN : Resume(j, answered)
    BY <1>6
  <2>2. /\ status[j] # "running"
        /\ status' = [status EXCEPT ![j] = "queued"]
        /\ diagnostic' = [diagnostic EXCEPT ![j] = ""]
        /\ delayed' = [delayed EXCEPT ![j] = FALSE]
        /\ resumed' = [resumed EXCEPT ![j] = resumed[j] + 1]
        /\ UNCHANGED <<attempts, current, limit>>
    BY <2>1 DEF Resume
  <2> QED BY <1>1, <2>2, ParkedJobInv DEF JobStatus, Diagnostic
<1>7. CASE RecoverInterrupted(j)
  BY <1>7, RecoverInterruptedInv
<1>8. CASE \E a \in 1..MaxAttempts, st \in JobStatus : CompletePublication(j, a, st)
  <2>1. PICK a \in 1..MaxAttempts, st \in JobStatus : CompletePublication(j, a, st)
    BY <1>8
  <2>2. /\ status[j] # "running" /\ st \in JobStatus \ {"running"}
        /\ status' = [status EXCEPT ![j] = st]
        /\ diagnostic' = [diagnostic EXCEPT ![j] = ""]
        /\ UNCHANGED <<attempts, current, delayed, resumed, limit>>
    BY <2>1 DEF CompletePublication
  <2> QED BY <1>1, <2>2, ParkedJobInv DEF Diagnostic
<1> QED BY <1>2, <1>3, <1>4, <1>5, <1>6, <1>7, <1>8 DEF QueueStep

LEMMA ReconfigureInv ==
    ASSUME QueueInv, NEW n \in 1..MaxAttempts, Reconfigure(n)
    PROVE  QueueInv'
BY DEF Reconfigure, QueueInv, QueueTypeOK, CurrentIsLatest, RunningAttemptIsCurrent

LEMMA QueueStutterInv ==
    ASSUME QueueInv, UNCHANGED queueVars
    PROVE  QueueInv'
BY DEF queueVars, QueueInv, QueueTypeOK, CurrentIsLatest, RunningAttemptIsCurrent

-----------------------------------------------------------------------------
\* The attempt table and the job rows agree in every reachable state: an attempt is
\* running exactly when it is the current, latest attempt of a running job.
THEOREM QueueTablesAgree == QueueSpec => []QueueInv
<1>1. QueueInv /\ [QueueNext]_queueVars => QueueInv'
  <2> SUFFICES ASSUME QueueInv, [QueueNext]_queueVars PROVE QueueInv'
    OBVIOUS
  <2>1. ASSUME NEW j \in Job, Submit(j) PROVE QueueInv'
    BY <2>1, SubmitInv
  <2>2. ASSUME NEW j \in Job, CancelJob(j) PROVE QueueInv'
    BY <2>2, CancelJobInv
  <2>3. ASSUME NEW j \in Job, QueueStep(j) PROVE QueueInv'
    BY <2>3, QueueStepInv
  <2>4. ASSUME NEW n \in 1..MaxAttempts, Reconfigure(n) PROVE QueueInv'
    BY <2>4, ReconfigureInv
  <2> QED BY <2>1, <2>2, <2>3, <2>4, QueueStutterInv DEF QueueNext
<1> QED BY <1>1, QueueInitInv, PTL DEF QueueSpec

\* Type correctness of the queue.
THEOREM QueueTypeCorrect == QueueSpec => []QueueTypeOK
BY QueueTablesAgree, PTL DEF QueueInv

\* Start, finish, cancellation and recovery each keep the job and its attempt together.
THEOREM RunningAttemptsAreCurrent == QueueSpec => []RunningAttemptIsCurrent
BY QueueTablesAgree, PTL DEF QueueInv

-----------------------------------------------------------------------------
(***************************************************************************)
(* What a step may do to the history of a job, and how many attempts of it *)
(* were superseded without having failed.                                  *)
(***************************************************************************)

LEMMA OneMoreElement ==
    ASSUME NEW S, IsFiniteSet(S), NEW x, NEW T, T \subseteq S \cup {x}
    PROVE  Cardinality(T) <= Cardinality(S) + 1
<1>1. IsFiniteSet(S \cup {x}) /\ Cardinality(S) \in Nat
  BY FS_AddElement, FS_CardinalityType
<1>2. Cardinality(S \cup {x}) <= Cardinality(S) + 1
  BY <1>1, FS_AddElement
<1>3. T \in SUBSET (S \cup {x})
  OBVIOUS
<1>4. Cardinality(T) <= Cardinality(S \cup {x}) /\ Cardinality(T) \in Nat
  BY <1>1, <1>3, FS_Subset, FS_CardinalityType
<1>5. Cardinality(S \cup {x}) \in Nat
  BY <1>1, FS_CardinalityType
<1> QED BY <1>1, <1>2, <1>4, <1>5

LEMMA UnfailedProperties ==
    ASSUME NEW as, NEW n \in Nat
    PROVE  /\ IsFiniteSet(Unfailed(as, n))
           /\ Cardinality(Unfailed(as, n)) \in Nat
           /\ Cardinality(Unfailed(as, n + 1)) <= Cardinality(Unfailed(as, n)) + 1
<1>1. ASSUME NEW m \in Nat PROVE IsFiniteSet(Unfailed(as, m)) /\ Cardinality(Unfailed(as, m)) \in Nat
  <2>1. IsFiniteSet(1..m)
    BY FS_Interval
  <2> QED BY <2>1, FS_Subset, FS_CardinalityType DEF Unfailed
<1>2. ASSUME NEW m \in Nat, m = n + 1, NEW a \in Unfailed(as, m), a # m PROVE a \in Unfailed(as, n)
  <2>1. a \in 1..m /\ as[a] # "failed"
    BY <1>2 DEF Unfailed
  <2>2. a \in 1..n
    BY <1>2, <2>1
  <2> QED BY <2>1, <2>2 DEF Unfailed
<1>3. PICK m \in Nat : m = n + 1
  OBVIOUS
<1>4. Cardinality(Unfailed(as, m)) <= Cardinality(Unfailed(as, n)) + 1
  <2>1. Unfailed(as, m) \subseteq Unfailed(as, n) \cup {m}
    BY <1>2, <1>3
  <2> QED BY <1>1, <2>1, OneMoreElement
<1> QED BY <1>1, <1>3, <1>4

\* Attempts that end, in whatever way, leave no more attempts unfailed than before.
LEMMA UnfailedMonotone ==
    ASSUME NEW as, NEW bs, NEW n \in Nat,
           \A a \in 1..n : as[a] = "failed" => bs[a] = "failed"
    PROVE  Cardinality(Unfailed(bs, n)) <= Cardinality(Unfailed(as, n))
<1>1. Unfailed(bs, n) \in SUBSET Unfailed(as, n)
  BY DEF Unfailed
<1> QED BY <1>1, UnfailedProperties, FS_Subset

LEMMA UnfailedOfNone ==
    ASSUME NEW as, NEW n \in Int, n <= 0
    PROVE  Cardinality(Unfailed(as, n)) = 0
<1>1. \A a \in Unfailed(as, n) : FALSE
  BY DEF Unfailed
<1> QED BY <1>1, FS_EmptySet

\* What a step may do to the history of a job: an attempt is appended, or one that runs
\* ends, and a reported job stays as it is.
HistoryStep(j) ==
    /\ Len(attempts[j]) <= Len(attempts'[j])
    /\ \A a \in 1..Len(attempts[j]) :
          attempts[j][a] # "running" => attempts'[j][a] = attempts[j][a]
    /\ status[j] \in {"completed", "partial"} => status'[j] = status[j]

\* But for an explicit resume, a job becomes ready for an attempt only while its budget has
\* one left.
BudgetStep(j) ==
    status'[j] # status[j] /\ status'[j] \in {"queued", "retry_wait"} =>
        Len(attempts'[j]) < limit \/ resumed'[j] # resumed[j]

\* The part of ReviewInv about one job.
Reviewed(j) ==
    /\ status[j] = "none" => attempts[j] = <<>>
    /\ Cardinality(Unfailed(attempts[j], Len(attempts[j]) - 1)) <= resumed[j]
    /\ status[j] \in {"none", "queued", "retry_wait"} =>
           Cardinality(Unfailed(attempts[j], Len(attempts[j]))) <= resumed[j]

JobStep(j) == HistoryStep(j) /\ BudgetStep(j) /\ Reviewed(j)'

LEMMA ReviewedJobs == ReviewInv <=> QueueInv /\ \A j \in Job : Reviewed(j)
BY DEF ReviewInv, Reviewed, UnsubmittedHasNone, NoUnreviewedRerun, ResumesCoverLatest

LEMMA LengthsAreNatural ==
    ASSUME QueueInv, NEW j \in Job
    PROVE  /\ attempts[j] \in Seq(AttemptStatus)
           /\ Len(attempts[j]) \in Nat
           /\ resumed[j] \in Nat
BY LenProperties DEF QueueInv, QueueTypeOK

LEMMA QuietJobStep ==
    ASSUME QueueInv, NEW j \in Job, Reviewed(j),
           status'[j] = status[j], attempts'[j] = attempts[j], resumed'[j] = resumed[j]
    PROVE  JobStep(j)
BY LengthsAreNatural DEF JobStep, HistoryStep, BudgetStep, Reviewed

\* Operations that keep the number of attempts: none fails to have failed, and a job that
\* becomes ready was ready before, failed, or was resumed.
LEMMA EndingJobStep ==
    ASSUME QueueInv, NEW j \in Job, Reviewed(j),
           Len(attempts'[j]) = Len(attempts[j]),
           \A a \in 1..Len(attempts[j]) :
               attempts[j][a] # "running" => attempts'[j][a] = attempts[j][a],
           status[j] \notin {"completed", "partial"},
           status'[j] # "none" \/ attempts'[j] = <<>>,
           resumed'[j] \in Nat, resumed'[j] >= resumed[j],
           status'[j] \in {"none", "queued", "retry_wait"} =>
               \/ status[j] \in {"none", "queued", "retry_wait"}
               \/ resumed'[j] = resumed[j] + 1
               \/ Len(attempts[j]) > 0 /\ attempts'[j][Len(attempts[j])] = "failed",
           BudgetStep(j)
    PROVE  JobStep(j)
<1> DEFINE n == Len(attempts[j])
<1>1. n \in Nat /\ resumed[j] \in Nat
  BY LengthsAreNatural
<1>2. ASSUME NEW m \in Nat, m <= n
      PROVE  /\ Cardinality(Unfailed(attempts'[j], m)) <= Cardinality(Unfailed(attempts[j], m))
             /\ Cardinality(Unfailed(attempts[j], m)) \in Nat
             /\ Cardinality(Unfailed(attempts'[j], m)) \in Nat
  <2>1. \A a \in 1..m : attempts[j][a] = "failed" => attempts'[j][a] = "failed"
    BY <1>1, <1>2
  <2> QED BY <2>1, UnfailedMonotone, UnfailedProperties
<1>3. Cardinality(Unfailed(attempts'[j], n - 1)) <= resumed'[j]
  <2>1. CASE n = 0
    BY <2>1, UnfailedOfNone
  <2>2. CASE n > 0
    <3> n - 1 \in Nat
      BY <1>1, <2>2
    <3>1. PICK m \in Nat : m = n - 1
      OBVIOUS
    <3>2. Cardinality(Unfailed(attempts[j], m)) <= resumed[j]
      BY <3>1 DEF Reviewed
    <3>3. Cardinality(Unfailed(attempts'[j], m)) <= resumed'[j]
      BY <3>1, <3>2, <1>1, <1>2
    <3> QED BY <3>1, <3>3
  <2> QED BY <1>1, <2>1, <2>2
<1>4. ASSUME status'[j] \in {"none", "queued", "retry_wait"}
      PROVE  Cardinality(Unfailed(attempts'[j], n)) <= resumed'[j]
  <2>1. CASE n = 0
    BY <2>1, UnfailedOfNone
  <2>2. CASE n > 0
    <3>1. n - 1 \in Nat /\ n - 1 <= n /\ (n - 1) + 1 = n
      BY <1>1, <2>2
    <3>2. CASE status[j] \in {"none", "queued", "retry_wait"}
      BY <3>2, <1>1, <1>2 DEF Reviewed
    <3>3. CASE resumed'[j] = resumed[j] + 1
      <4>1. /\ Cardinality(Unfailed(attempts[j], n - 1)) \in Nat
            /\ Cardinality(Unfailed(attempts[j], n)) <= Cardinality(Unfailed(attempts[j], n - 1)) + 1
        BY <3>1, UnfailedProperties
      <4>2. Cardinality(Unfailed(attempts[j], n - 1)) <= resumed[j]
        BY DEF Reviewed
      <4>3. /\ Cardinality(Unfailed(attempts'[j], n)) \in Nat
            /\ Cardinality(Unfailed(attempts[j], n)) \in Nat
            /\ Cardinality(Unfailed(attempts'[j], n)) <= Cardinality(Unfailed(attempts[j], n))
        BY <1>1, <1>2
      <4>4. Cardinality(Unfailed(attempts[j], n)) <= resumed[j] + 1
        BY <4>1, <4>2, <4>3, <1>1
      <4> HIDE DEF n
      <4> QED BY <3>3, <4>3, <4>4, <1>1
    <3>4. CASE attempts'[j][n] = "failed"
      <4>1. Unfailed(attempts'[j], n) = Unfailed(attempts'[j], n - 1)
        BY <3>4, <1>1, <2>2 DEF Unfailed
      <4> QED BY <4>1, <1>3
    <3> QED BY <3>2, <3>3, <3>4, <1>4
  <2> QED BY <1>1, <2>1, <2>2
<1>5. HistoryStep(j)
  BY <1>1 DEF HistoryStep
<1>6. Reviewed(j)'
  BY <1>3, <1>4 DEF Reviewed
<1> QED BY <1>5, <1>6 DEF JobStep

LEMMA StartAttemptStep ==
    ASSUME QueueInv, NEW j \in Job, Reviewed(j), StartAttempt(j)
    PROVE  JobStep(j)
<1> DEFINE n == Len(attempts[j])
<1>1. n \in Nat /\ attempts[j] \in Seq(AttemptStatus) /\ "running" \in AttemptStatus
  BY LengthsAreNatural DEF AttemptStatus
<1>2. /\ attempts'[j] = Append(attempts[j], "running")
      /\ status'[j] = "running" /\ resumed'[j] = resumed[j]
      /\ status[j] \in {"queued", "retry_wait"}
  BY DEF StartAttempt, QueueInv, QueueTypeOK
<1>3. Len(attempts'[j]) = n + 1 /\ \A a \in 1..n : attempts'[j][a] = attempts[j][a]
  BY <1>1, <1>2
<1>4. Cardinality(Unfailed(attempts'[j], n)) <= resumed'[j]
  <2>1. Cardinality(Unfailed(attempts[j], n)) <= resumed[j]
    BY <1>2 DEF Reviewed
  <2>2. \A a \in 1..n : attempts[j][a] = "failed" => attempts'[j][a] = "failed"
    BY <1>3
  <2>3. Cardinality(Unfailed(attempts'[j], n)) <= Cardinality(Unfailed(attempts[j], n))
    BY <1>1, <2>2, UnfailedMonotone
  <2>4. /\ Cardinality(Unfailed(attempts'[j], n)) \in Nat
        /\ Cardinality(Unfailed(attempts[j], n)) \in Nat /\ resumed[j] \in Nat
    BY <1>1, UnfailedProperties, LengthsAreNatural
  <2> HIDE DEF n
  <2> QED BY <2>1, <2>3, <2>4, <1>2
<1>5. (n + 1) - 1 = n
  BY <1>1
<1>6. Reviewed(j)'
  BY <1>2, <1>3, <1>4, <1>5 DEF Reviewed
<1>7. HistoryStep(j) /\ BudgetStep(j)
  BY <1>1, <1>2, <1>3 DEF HistoryStep, BudgetStep
<1> QED BY <1>6, <1>7 DEF JobStep

LEMMA SubmitStep ==
    ASSUME QueueInv, NEW j \in Job, Reviewed(j), Submit(j)
    PROVE  JobStep(j)
<1>1. /\ status[j] = "none" /\ status'[j] = "queued" /\ resumed'[j] = resumed[j]
      /\ attempts'[j] = attempts[j] /\ limit >= 1 /\ limit \in Nat
  BY QueueAssumption DEF Submit, QueueInv, QueueTypeOK
<1>2. attempts[j] = <<>> /\ Len(attempts'[j]) = 0
  BY <1>1, EmptySeq DEF Reviewed
<1>3. BudgetStep(j)
  BY <1>1, <1>2 DEF BudgetStep
<1> QED BY <1>1, <1>3, LengthsAreNatural, EndingJobStep

LEMMA FinishAttemptStep ==
    ASSUME QueueInv, NEW j \in Job, Reviewed(j),
           NEW a \in Nat \ {0}, NEW outcome \in Outcome, FinishAttempt(j, a, outcome)
    PROVE  JobStep(j)
<1> DEFINE st == FinalStatus(a, outcome)
<1>1. /\ st \in JobStatus \ {"none", "queued"}
      /\ st = "retry_wait" => EndedAs(st) = "failed" /\ a < limit
  BY DEF FinalStatus, Outcome, JobStatus, EndedAs
<1>2. /\ attempts[j] \in Seq(AttemptStatus) /\ a \in 1..Len(attempts[j]) /\ a = Len(attempts[j])
      /\ attempts[j][a] = "running"
  BY RunningAttempt
<1>3. attempts'[j] = [attempts[j] EXCEPT ![a] = EndedAs(st)]
  BY <1>2 DEF FinishAttempt, QueueInv, QueueTypeOK
<1>4. /\ status[j] = "running" /\ status'[j] = st /\ resumed'[j] = resumed[j]
  BY DEF FinishAttempt, QueueInv, QueueTypeOK
<1> HIDE DEF st
<1>5. /\ Len(attempts'[j]) = Len(attempts[j])
      /\ attempts'[j][a] = EndedAs(st)
      /\ \A b \in 1..Len(attempts[j]) : b # a => attempts'[j][b] = attempts[j][b]
  <2>1. EndedAs(st) \in AttemptStatus
    BY DEF EndedAs, AttemptStatus
  <2> QED BY <2>1, <1>2, <1>3, ExceptSeq
<1>6. BudgetStep(j)
  BY <1>1, <1>2, <1>4, <1>5 DEF BudgetStep
<1> QED BY <1>1, <1>2, <1>4, <1>5, <1>6, LengthsAreNatural, EndingJobStep

\* Cancellation and recovery end the running attempts of a job that gave no result.
LEMMA EndRunningStep ==
    ASSUME QueueInv, NEW j \in Job, Reviewed(j),
           NEW st \in AttemptStatus \ {"running"},
           attempts'[j] = EndRunning(attempts[j], st),
           status[j] \notin {"completed", "partial"}, resumed'[j] = resumed[j],
           status'[j] \notin {"none", "queued", "retry_wait"}
    PROVE  JobStep(j)
<1>1. /\ Len(attempts'[j]) = Len(attempts[j])
      /\ \A a \in 1..Len(attempts[j]) :
             attempts[j][a] # "running" => attempts'[j][a] = attempts[j][a]
  BY LengthsAreNatural, EndRunningProperties
<1>2. BudgetStep(j)
  BY DEF BudgetStep
<1> QED BY <1>1, <1>2, LengthsAreNatural, EndingJobStep

LEMMA CancelJobStep ==
    ASSUME QueueInv, NEW j \in Job, Reviewed(j), CancelJob(j)
    PROVE  JobStep(j)
<1>1. /\ attempts'[j] = EndRunning(attempts[j], "cancelled")
      /\ status[j] \notin {"completed", "partial"} /\ resumed'[j] = resumed[j]
      /\ status'[j] = "cancelled"
  BY DEF CancelJob, QueueInv, QueueTypeOK, FinalStatuses
<1>2. "cancelled" \in AttemptStatus \ {"running"}
  BY DEF AttemptStatus
<1> QED BY <1>1, <1>2, EndRunningStep

LEMMA RecoverInterruptedStep ==
    ASSUME QueueInv, NEW j \in Job, Reviewed(j), RecoverInterrupted(j)
    PROVE  JobStep(j)
<1>1. \A a \in 1..Len(attempts[j]) : attempts[j][a] = "running" => a = current[j]
  BY DEF QueueInv, RunningAttemptIsCurrent
<1>2. attempts'[j] = EndRunning(attempts[j], "interrupted")
  BY <1>1 DEF RecoverInterrupted, EndRunning, QueueInv, QueueTypeOK
<1>3. /\ status[j] = "running" /\ resumed'[j] = resumed[j] /\ status'[j] = "waiting_input"
      /\ "interrupted" \in AttemptStatus \ {"running"}
  BY DEF RecoverInterrupted, RecoveredStatus, QueueInv, QueueTypeOK, AttemptStatus
<1> QED BY <1>2, <1>3, EndRunningStep

LEMMA ResumeStep ==
    ASSUME QueueInv, NEW j \in Job, Reviewed(j), NEW answered \in BOOLEAN, Resume(j, answered)
    PROVE  JobStep(j)
<1>1. /\ attempts'[j] = attempts[j] /\ status'[j] = "queued" /\ resumed'[j] = resumed[j] + 1
      /\ status[j] \notin {"completed", "partial"} /\ resumed[j] \in Nat
  BY DEF Resume, QueueInv, QueueTypeOK
<1>2. BudgetStep(j)
  BY <1>1 DEF BudgetStep
<1> QED BY <1>1, <1>2, LengthsAreNatural, EndingJobStep

LEMMA QueueStepMoves ==
    ASSUME QueueInv, NEW j \in Job, Reviewed(j), QueueStep(j)
    PROVE  JobStep(j)
<1>1. CASE StartAttempt(j)
  BY <1>1, StartAttemptStep
<1>2. CASE ExhaustBudget(j)
  <2>1. /\ attempts'[j] = attempts[j] /\ resumed'[j] = resumed[j]
        /\ status[j] \in {"queued", "retry_wait"} /\ status'[j] = "waiting_input"
    BY <1>2 DEF ExhaustBudget, QueueInv, QueueTypeOK
  <2>2. BudgetStep(j)
    BY <2>1 DEF BudgetStep
  <2> QED BY <2>1, <2>2, LengthsAreNatural, EndingJobStep
<1>3. CASE \E a \in 1..MaxAttempts, outcome \in Outcome : FinishAttempt(j, a, outcome)
  BY <1>3, FinishAttemptStep
<1>4. CASE RetryDelayElapses(j)
  BY <1>4, QuietJobStep DEF RetryDelayElapses
<1>5. CASE \E answered \in BOOLEAN : Resume(j, answered)
  BY <1>5, ResumeStep
<1>6. CASE RecoverInterrupted(j)
  BY <1>6, RecoverInterruptedStep
<1>7. CASE \E a \in 1..MaxAttempts, st \in JobStatus : CompletePublication(j, a, st)
  <2>1. /\ attempts'[j] = attempts[j] /\ resumed'[j] = resumed[j]
        /\ status[j] = "waiting_input" /\ status'[j] \in {"completed", "partial", "waiting_input"}
    BY <1>7 DEF CompletePublication, QueueInv, QueueTypeOK
  <2>2. BudgetStep(j)
    BY <2>1 DEF BudgetStep
  <2> QED BY <2>1, <2>2, LengthsAreNatural, EndingJobStep
<1> QED BY <1>1, <1>2, <1>3, <1>4, <1>5, <1>6, <1>7 DEF QueueStep

\* An operation on one job leaves the rows of the others alone.
LEMMA OtherJobsAreQuiet ==
    ASSUME QueueInv, NEW j \in Job, NEW i \in Job, i # j,
           Submit(j) \/ CancelJob(j) \/ QueueStep(j)
    PROVE  status'[i] = status[i] /\ attempts'[i] = attempts[i] /\ resumed'[i] = resumed[i]
BY DEF QueueInv, QueueTypeOK, Submit, CancelJob, QueueStep, StartAttempt, ExhaustBudget,
       FinishAttempt, RetryDelayElapses, Resume, RecoverInterrupted, CompletePublication

LEMMA ReviewInit == QueueInit => ReviewInv
<1> SUFFICES ASSUME QueueInit PROVE ReviewInv
  OBVIOUS
<1>1. ASSUME NEW j \in Job PROVE Reviewed(j)
  <2>1. attempts[j] = <<>> /\ Len(attempts[j]) = 0 /\ resumed[j] = 0
    BY EmptySeq DEF QueueInit
  <2>2. /\ Cardinality(Unfailed(attempts[j], 0)) = 0
        /\ Cardinality(Unfailed(attempts[j], 0 - 1)) = 0
    BY UnfailedOfNone
  <2> QED BY <2>1, <2>2 DEF Reviewed
<1> QED BY <1>1, QueueInitInv, ReviewedJobs

\* What every step of the queue does to every job.
LEMMA EveryJobStep ==
    ASSUME ReviewInv, [QueueNext]_queueVars
    PROVE  QueueInv' /\ \A j \in Job : JobStep(j)
<1>1. QueueInv /\ \A j \in Job : Reviewed(j)
  BY ReviewedJobs
<1>2. ASSUME NEW j \in Job, Submit(j) \/ CancelJob(j) \/ QueueStep(j)
      PROVE  QueueInv' /\ \A i \in Job : JobStep(i)
  <2>1. QueueInv'
    BY <1>1, <1>2, SubmitInv, CancelJobInv, QueueStepInv
  <2>2. JobStep(j)
    BY <1>1, <1>2, SubmitStep, CancelJobStep, QueueStepMoves
  <2>3. ASSUME NEW i \in Job, i # j PROVE JobStep(i)
    <3>1. status'[i] = status[i] /\ attempts'[i] = attempts[i] /\ resumed'[i] = resumed[i]
      BY <1>1, <1>2, <2>3, OtherJobsAreQuiet
    <3> QED BY <1>1, <3>1, QuietJobStep
  <2> QED BY <2>1, <2>2, <2>3
<1>3. ASSUME NEW n \in 1..MaxAttempts, Reconfigure(n)
      PROVE  QueueInv' /\ \A i \in Job : JobStep(i)
  <2>1. QueueInv'
    BY <1>1, <1>3, ReconfigureInv
  <2>2. ASSUME NEW i \in Job PROVE JobStep(i)
    BY <1>1, <1>3, QuietJobStep DEF Reconfigure
  <2> QED BY <2>1, <2>2
<1>4. ASSUME UNCHANGED queueVars PROVE QueueInv' /\ \A i \in Job : JobStep(i)
  <2>1. QueueInv'
    BY <1>1, <1>4, QueueStutterInv
  <2>2. ASSUME NEW i \in Job PROVE JobStep(i)
    BY <1>1, <1>4, QuietJobStep DEF queueVars
  <2> QED BY <2>1, <2>2
<1> QED BY <1>2, <1>3, <1>4 DEF QueueNext

\* The count of resumes covers the superseded attempts in every reachable state.
THEOREM ReviewHolds == QueueSpec => []ReviewInv
<1>1. ReviewInv /\ [QueueNext]_queueVars => ReviewInv'
  <2> SUFFICES ASSUME ReviewInv, [QueueNext]_queueVars PROVE ReviewInv'
    OBVIOUS
  <2>1. QueueInv' /\ \A j \in Job : Reviewed(j)'
    BY EveryJobStep DEF JobStep
  <2> QED BY <2>1 DEF ReviewInv, Reviewed, UnsubmittedHasNone, NoUnreviewedRerun, ResumesCoverLatest
<1> QED BY <1>1, ReviewInit, PTL DEF QueueSpec

\* Interrupted, cancelled or finished work of a job is followed by another attempt only after
\* an explicit resume, whatever the limit was at any moment.
THEOREM RerunsAreReviewed == QueueSpec => []NoUnreviewedRerun
BY ReviewHolds, PTL DEF ReviewInv

\* Late finishes, cancellations and recoveries rewrite neither an ended attempt nor a job that
\* has given its result.
THEOREM HistoryStaysFinal == QueueSpec => HistoryIsFinal
<1>1. ReviewInv /\ [QueueNext]_queueVars =>
          [\A j \in Job :
              /\ Len(attempts[j]) <= Len(attempts'[j])
              /\ \A a \in 1..Len(attempts[j]) :
                    attempts[j][a] # "running" => attempts'[j][a] = attempts[j][a]]_queueVars
  BY EveryJobStep DEF JobStep, HistoryStep
<1>2. ReviewInv /\ [QueueNext]_queueVars =>
          [\A j \in Job : status[j] \in {"completed", "partial"} => status'[j] = status[j]]_queueVars
  BY EveryJobStep DEF JobStep, HistoryStep
<1> QED BY <1>1, <1>2, ReviewHolds, PTL
        DEF QueueSpec, HistoryIsFinal, AttemptsAreImmutable, ReportedJobIsFinal

-----------------------------------------------------------------------------
(* The staged workflow.                                                    *)


\* The rows of a step before its job is submitted, and its current attempt afterwards.
StepRowsAgree ==
    \A s \in Step :
        /\ currentAttempt[s] = Len(stepAttempts[s])
        /\ status[JobOf[s]] = "none" => stepState[s] = "absent"
        /\ stepState[s] = "absent" => currentAttempt[s] = 0

\* An output belongs to a step that will never be run again.
OutputIsFinal ==
    \A s \in Step : output[s] # NoArtifact => stepState[s] \in {"completed", "superseded"}

\* Whatever a step has pinned is the output of one of its dependencies, for good.
PinnedAreOutputs ==
    \A s \in Step : \A x \in pinned[s] :
        x # NoArtifact /\ \E d \in DependsOn[s] : output[d] = x

\* The pinned inputs of a claimed step can only be the present outputs of its dependencies
\* because an output never changes, and an output never changes because a step that has one
\* is completed or superseded, and neither is ever claimed again.  Results rest on the same
\* fact.  None of the properties is inductive without these companions.
StagedInv ==
    /\ TypeOK
    /\ QueueInv
    /\ StepRowsAgree
    /\ LiveAttemptIsCurrent
    /\ OutputIsFinal
    /\ OutputComesFromCompletedAttempt
    /\ PinnedAreOutputs
    /\ PinnedInputsStayCurrent
    /\ ClosedJobHasNoWork
    /\ SendingIsCurrentRevision
    /\ ResultIsTheOutput
    /\ OneResultPerOutput

-----------------------------------------------------------------------------
(***************************************************************************)
(* The attempts of a step                                                  *)
(***************************************************************************)

\* The attempts bs are the attempts as after none of them runs any more.
Ended(as, bs) ==
    /\ bs \in Seq(StepAttempt)
    /\ Len(bs) = Len(as)
    /\ \A a \in 1..Len(as) : /\ bs[a].status # "running"
                             /\ bs[a].inputs = as[a].inputs
                             /\ as[a].status # "running" => bs[a] = as[a]

\* Ending the attempts of a step changes the status of the running ones only.
LEMMA EndStepAttemptsProperties ==
    ASSUME NEW as \in Seq(StepAttempt), NEW st \in StepAttemptStatus \ {"running"}
    PROVE  Ended(as, EndStepAttempts(as, st))
<1>1. Len(as) \in Nat /\ \A a \in 1..Len(as) : as[a] \in StepAttempt
  BY ElementOfSeq, LenProperties
<1>2. \A r \in StepAttempt : [r EXCEPT !.status = st] \in StepAttempt
  BY DEF StepAttempt
<1>3. EndStepAttempts(as, st) \in [1..Len(as) -> StepAttempt]
  BY <1>1, <1>2 DEF EndStepAttempts
<1>4. EndStepAttempts(as, st) \in Seq(StepAttempt) /\ Len(EndStepAttempts(as, st)) = Len(as)
  BY <1>1, <1>3, SeqOfFunction
<1>5. \A a \in 1..Len(as) : EndStepAttempts(as, st)[a] =
          IF as[a].status = "running" THEN [as[a] EXCEPT !.status = st] ELSE as[a]
  BY DEF EndStepAttempts
<1>6. \A a \in 1..Len(as) : /\ EndStepAttempts(as, st)[a].status # "running"
                            /\ EndStepAttempts(as, st)[a].inputs = as[a].inputs
                            /\ as[a].status # "running" => EndStepAttempts(as, st)[a] = as[a]
  BY <1>1, <1>5 DEF StepAttempt
<1> QED BY <1>4, <1>6 DEF Ended

\* CompleteStep ends the only running attempt of its step.
LEMMA CompletedAttemptProperties ==
    ASSUME NEW as \in Seq(StepAttempt), NEW st \in StepAttemptStatus \ {"running"},
           NEW a \in 1..Len(as), \A b \in 1..Len(as) : as[b].status = "running" => b = a,
           as[a].status = "running"
    PROVE  /\ Ended(as, [as EXCEPT ![a].status = st])
           /\ [as EXCEPT ![a].status = st][a].status = st
<1>1. as[a] \in StepAttempt
  BY ElementOfSeq
<1> DEFINE r == [as[a] EXCEPT !.status = st]
           bs == [as EXCEPT ![a] = r]
<1>2. r \in StepAttempt /\ r.status = st /\ r.inputs = as[a].inputs
  BY <1>1 DEF StepAttempt
<1>3. [as EXCEPT ![a].status = st] = bs
  OBVIOUS
<1> HIDE DEF r
<1>4. /\ bs \in Seq(StepAttempt)
      /\ Len(bs) = Len(as)
      /\ \A b \in 1..Len(as) : bs[b] = IF b = a THEN r ELSE as[b]
  <2>1. as \in [1..Len(as) -> StepAttempt] /\ Len(as) \in Nat
    BY LenProperties
  <2>2. bs \in [1..Len(as) -> StepAttempt] /\ \A b \in 1..Len(as) : bs[b] = IF b = a THEN r ELSE as[b]
    BY <1>2, <2>1
  <2> QED BY <2>1, <2>2, SeqOfFunction
<1> HIDE DEF bs
<1>5. \A b \in 1..Len(as) : /\ bs[b].status # "running"
                            /\ bs[b].inputs = as[b].inputs
                            /\ as[b].status # "running" => bs[b] = as[b]
  BY <1>2, <1>4
<1> QED BY <1>2, <1>3, <1>4, <1>5 DEF Ended

\* A copy of a sequence is that sequence.
LEMMA CopiedSequence ==
    ASSUME NEW S, NEW as \in Seq(S)
    PROVE  [a \in 1..Len(as) |-> as[a]] = as
BY LenProperties

-----------------------------------------------------------------------------
(***************************************************************************)
(* What a transaction keeps by leaving tables alone                        *)
(***************************************************************************)

\* Outputs that exist never change, so neither pinned inputs nor results go stale.
OutputsKept == \A s \in Step : output[s] # NoArtifact => output'[s] = output[s]

LEMMA ResultsKept ==
    ASSUME StagedInv, results' = results, artifacts \subseteq artifacts', OutputsKept
    PROVE  ResultIsTheOutput' /\ OneResultPerOutput'
<1>1. \A e \in results : e.step \in Step /\ e.artifact # NoArtifact
  BY WorkflowAssumption DEF StagedInv, TypeOK, Result
<1>2. ResultIsTheOutput'
  BY <1>1 DEF StagedInv, ResultIsTheOutput, OutputsKept
<1>3. OneResultPerOutput'
  BY DEF StagedInv, OneResultPerOutput
<1> QED BY <1>2, <1>3

LEMMA PinnedKept ==
    ASSUME StagedInv, pinned' = pinned, OutputsKept
    PROVE  PinnedAreOutputs'
<1>1. \A s \in Step : DependsOn[s] \subseteq Step
  BY WorkflowAssumption
<1> QED BY <1>1 DEF StagedInv, PinnedAreOutputs, OutputsKept

\* A transaction that starts or ends no attempt and gives no step an output.
LEMMA QuietTransaction ==
    ASSUME StagedInv, TypeOK', QueueInv',
           UNCHANGED <<stepAttempts, currentAttempt, output, results>>,
           artifacts \subseteq artifacts',
           PinnedAreOutputs', ClosedJobHasNoWork', SendingIsCurrentRevision',
           \A s \in Step :
              /\ stepState'[s] = "running" <=> stepState[s] = "running"
              /\ stepState'[s] = "completed" => stepState[s] = "completed"
              /\ stepState[s] \in {"completed", "superseded"} =>
                    stepState'[s] \in {"completed", "superseded"}
              /\ stepState'[s] = "absent" => stepState[s] = "absent"
              /\ status'[JobOf[s]] = "none" => stepState'[s] = "absent"
              /\ stepState'[s] \in {"running", "completed"} =>
                    \A d \in DependsOn[s] : stepState[d] = "completed" => stepState'[d] = "completed"
    PROVE  StagedInv'
<1>1. OutputsKept
  BY DEF OutputsKept
<1>2. ResultIsTheOutput' /\ OneResultPerOutput'
  BY <1>1, ResultsKept
<1>3. StepRowsAgree'
  BY DEF StagedInv, StepRowsAgree
<1>4. LiveAttemptIsCurrent'
  BY DEF StagedInv, LiveAttemptIsCurrent
<1>5. OutputIsFinal'
  BY DEF StagedInv, OutputIsFinal
<1>6. OutputComesFromCompletedAttempt'
  BY DEF StagedInv, OutputComesFromCompletedAttempt
<1>7. PinnedInputsStayCurrent'
  <2>1. SUFFICES ASSUME NEW s \in Step, stepState'[s] \in {"running", "completed"}
                 PROVE  /\ currentAttempt'[s] \in 1..Len(stepAttempts'[s])
                        /\ \A d \in DependsOn[s] : stepState'[d] = "completed"
                        /\ stepAttempts'[s][currentAttempt'[s]].inputs = {output'[d] : d \in DependsOn[s]}
    BY DEF PinnedInputsStayCurrent
  <2>2. stepState[s] \in {"running", "completed"}
    BY <2>1
  <2>3. /\ currentAttempt[s] \in 1..Len(stepAttempts[s])
        /\ \A d \in DependsOn[s] : stepState[d] = "completed"
        /\ stepAttempts[s][currentAttempt[s]].inputs = {output[d] : d \in DependsOn[s]}
    BY <2>2 DEF StagedInv, PinnedInputsStayCurrent
  <2> QED BY <2>1, <2>3
<1> QED BY <1>2, <1>3, <1>4, <1>5, <1>6, <1>7 DEF StagedInv

-----------------------------------------------------------------------------
(***************************************************************************)
(* Transactions that start or end no attempt                               *)
(***************************************************************************)

LEMMA StepFacts ==
    ASSUME StagedInv, NEW s \in Step
    PROVE  /\ JobOf[s] \in Job
           /\ DependsOn[s] \subseteq Step
           /\ \A d \in DependsOn[s] : JobOf[d] = JobOf[s]
           /\ stepState[s] \in StepState
           /\ stepAttempts[s] \in Seq(StepAttempt) /\ Len(stepAttempts[s]) \in Nat
           /\ status[JobOf[s]] \in JobStatus
           /\ revision[JobOf[s]] \in Nat
BY WorkflowAssumption, LenProperties DEF StagedInv, TypeOK, QueueTypeOK

LEMMA SubmitStagedInv ==
    ASSUME StagedInv, NEW j \in Job, SubmitStaged(j)
    PROVE  StagedInv'
<1>1. /\ status[j] = "none"
      /\ status' = [status EXCEPT ![j] = "staged"]
      /\ revision' = [revision EXCEPT ![j] = 1]
      /\ \A s \in Step : stepState'[s] = IF s \in InitialStep /\ JobOf[s] = j
                                         THEN "pending" ELSE stepState[s]
      /\ stepState' \in [Step -> StepState]
      /\ UNCHANGED <<attempts, current, delayed, diagnostic, resumed, limit, paused,
                     stepAttempts, currentAttempt, pinned, output, saving, artifacts, results>>
  BY DEF SubmitStaged, artifactVars, StagedInv, TypeOK, StepState
<1>2. QueueInv'
  <2>1. /\ diagnostic = [diagnostic EXCEPT ![j] = diagnostic[j]] /\ diagnostic[j] \in Diagnostic
        /\ delayed = [delayed EXCEPT ![j] = delayed[j]] /\ delayed[j] \in BOOLEAN
        /\ resumed = [resumed EXCEPT ![j] = resumed[j]] /\ resumed[j] \in Nat
    BY DEF StagedInv, TypeOK, QueueTypeOK
  <2>2. QueueInv /\ "staged" \in JobStatus \ {"running"}
    BY DEF StagedInv, JobStatus
  <2>3. /\ status[j] # "running"
        /\ status' = [status EXCEPT ![j] = "staged"]
        /\ diagnostic' = [diagnostic EXCEPT ![j] = diagnostic[j]]
        /\ delayed' = [delayed EXCEPT ![j] = delayed[j]]
        /\ resumed' = [resumed EXCEPT ![j] = resumed[j]]
        /\ UNCHANGED <<attempts, current, limit>>
    BY <1>1, <2>1
  <2> QED BY <2>1, <2>2, <2>3, ParkedJobInv
<1>3. TypeOK'
  BY <1>1, <1>2 DEF StagedInv, TypeOK, QueueInv
<1>4. \A s \in Step : JobOf[s] = j => stepState[s] = "absent"
  BY <1>1 DEF StagedInv, StepRowsAgree
<1>5. \A i \in Job \ {j} : status'[i] = status[i] /\ revision'[i] = revision[i]
  BY <1>1 DEF StagedInv, TypeOK, QueueTypeOK
<1>6. status'[j] = "staged"
  BY <1>1 DEF StagedInv, TypeOK, QueueTypeOK
<1>7. PinnedAreOutputs'
  BY <1>1, PinnedKept DEF OutputsKept
<1>8. ClosedJobHasNoWork'
  BY <1>1, <1>5, <1>6, StepFacts DEF StagedInv, ClosedJobHasNoWork
<1>9. SendingIsCurrentRevision'
  <2>1. \A e \in results : e.step \in Step /\ JobOf[e.step] # j
    <3> SUFFICES ASSUME NEW e \in results, JobOf[e.step] = j PROVE FALSE
      BY DEF StagedInv, TypeOK, Result
    <3>1. e.step \in Step /\ e.artifact # NoArtifact /\ e.artifact = output[e.step]
      BY WorkflowAssumption DEF StagedInv, TypeOK, Result, ResultIsTheOutput
    <3> QED BY <3>1, <1>4 DEF StagedInv, OutputIsFinal
  <2> QED BY <2>1, <1>1, <1>5, StepFacts DEF StagedInv, SendingIsCurrentRevision
<1>10. \A s \in Step :
         /\ stepState'[s] = "running" <=> stepState[s] = "running"
         /\ stepState'[s] = "completed" => stepState[s] = "completed"
         /\ stepState[s] \in {"completed", "superseded"} => stepState'[s] \in {"completed", "superseded"}
         /\ stepState'[s] = "absent" => stepState[s] = "absent"
         /\ status'[JobOf[s]] = "none" => stepState'[s] = "absent"
         /\ stepState'[s] \in {"running", "completed"} =>
               \A d \in DependsOn[s] : stepState[d] = "completed" => stepState'[d] = "completed"
  BY <1>1, <1>4, <1>5, <1>6, StepFacts DEF StagedInv, StepRowsAgree
<1> QED BY <1>1, <1>2, <1>3, <1>7, <1>8, <1>9, <1>10, QuietTransaction

LEMMA AppendStepsInv ==
    ASSUME StagedInv, NEW j \in Job, NEW new \in SUBSET Step, AppendSteps(j, new)
    PROVE  StagedInv'
<1>1. /\ status[j] = "staged"
      /\ \A s \in new : JobOf[s] = j /\ stepState[s] = "absent"
      /\ \A s \in Step : stepState'[s] = IF s \in new THEN "pending" ELSE stepState[s]
      /\ stepState' \in [Step -> StepState]
      /\ UNCHANGED <<queueVars, paused, revision, stepAttempts, currentAttempt, pinned, output,
                     saving, artifacts, results>>
  BY DEF AppendSteps, artifactVars, flowVars, StagedInv, TypeOK, StepState
<1>2. QueueInv' /\ status' = status
  BY <1>1, QueueStutterInv DEF StagedInv, queueVars
<1>3. TypeOK'
  BY <1>1, <1>2 DEF StagedInv, TypeOK, QueueInv
<1>4. PinnedAreOutputs'
  BY <1>1, PinnedKept DEF OutputsKept
<1>5. ClosedJobHasNoWork' /\ SendingIsCurrentRevision'
  BY <1>1, <1>2 DEF StagedInv, ClosedJobHasNoWork, SendingIsCurrentRevision
<1>6. \A s \in Step : \A d \in DependsOn[s] : d \in Step
  BY StepFacts
<1> QED BY <1>1, <1>2, <1>3, <1>4, <1>5, <1>6, QuietTransaction DEF StagedInv, StepRowsAgree

LEMMA SupersedeJobRevisionInv ==
    ASSUME StagedInv, NEW j \in Job, NEW next \in Nat, SupersedeJobRevision(j, next)
    PROVE  StagedInv'
<1> DEFINE Retired(s) == JobOf[s] = j /\ stepState[s] \notin {"absent", "cancelled", "superseded"}
<1>1. /\ status[j] = "staged"
      /\ NothingInProgress(j)
      /\ revision' = [revision EXCEPT ![j] = next]
      /\ \A s \in Step : stepState'[s] = IF Retired(s) THEN "superseded" ELSE stepState[s]
      /\ stepState' \in [Step -> StepState]
      /\ UNCHANGED <<queueVars, paused, stepAttempts, currentAttempt, pinned, output,
                     saving, artifacts, results>>
  BY DEF SupersedeJobRevision, artifactVars, StagedInv, TypeOK, StepState
<1>2. QueueInv' /\ status' = status
  BY <1>1, QueueStutterInv DEF StagedInv, queueVars
<1>3. TypeOK'
  BY <1>1, <1>2 DEF StagedInv, TypeOK, QueueInv
<1>4. PinnedAreOutputs'
  BY <1>1, PinnedKept DEF OutputsKept
<1>5. ClosedJobHasNoWork'
  BY <1>1, <1>2 DEF StagedInv, ClosedJobHasNoWork
<1>6. SendingIsCurrentRevision'
  <2>1. \A i \in Job \ {j} : revision'[i] = revision[i]
    BY <1>1 DEF StagedInv, TypeOK
  <2>2. \A e \in results : e.step \in Step
    BY DEF StagedInv, TypeOK, Result
  <2>3. \A e \in results : JobOf[e.step] = j => e.delivery # "sending"
    BY <1>1 DEF NothingInProgress, ResultsOf
  <2> QED BY <1>1, <2>1, <2>2, <2>3, StepFacts DEF StagedInv, SendingIsCurrentRevision
<1>7. \A s \in Step : Retired(s) => stepState[s] # "running"
  BY <1>1 DEF NothingInProgress, StepsOf
<1>8. \A s \in Step :
         /\ stepState'[s] = "running" <=> stepState[s] = "running"
         /\ stepState'[s] = "completed" => stepState[s] = "completed"
         /\ stepState[s] \in {"completed", "superseded"} => stepState'[s] \in {"completed", "superseded"}
         /\ stepState'[s] = "absent" => stepState[s] = "absent"
         /\ status'[JobOf[s]] = "none" => stepState'[s] = "absent"
  BY <1>1, <1>2, <1>7 DEF StagedInv, StepRowsAgree
<1>9. ASSUME NEW s \in Step, stepState'[s] \in {"running", "completed"},
             NEW d \in DependsOn[s], stepState[d] = "completed"
      PROVE  stepState'[d] = "completed"
  <2>1. JobOf[s] # j
    BY <1>1, <1>7, <1>9
  <2> QED BY <1>1, <1>9, <2>1, StepFacts
<1> QED BY <1>1, <1>2, <1>3, <1>4, <1>5, <1>6, <1>8, <1>9, QuietTransaction

LEMMA SetPausedInv ==
    ASSUME StagedInv, NEW j \in Job, NEW p \in BOOLEAN, SetPaused(j, p)
    PROVE  StagedInv'
<1>1. /\ paused' \in [Job -> BOOLEAN]
      /\ UNCHANGED <<queueVars, revision, stepState, stepAttempts, currentAttempt, pinned, output,
                     saving, artifacts, results>>
  BY DEF SetPaused, stepVars, artifactVars, StagedInv, TypeOK
<1>2. QueueInv' /\ status' = status
  BY <1>1, QueueStutterInv DEF StagedInv, queueVars
<1>3. TypeOK'
  BY <1>1, <1>2 DEF StagedInv, TypeOK, QueueInv
<1>4. PinnedAreOutputs'
  BY <1>1, PinnedKept DEF OutputsKept
<1>5. ClosedJobHasNoWork' /\ SendingIsCurrentRevision'
  BY <1>1, <1>2 DEF StagedInv, ClosedJobHasNoWork, SendingIsCurrentRevision
<1> QED BY <1>1, <1>2, <1>3, <1>4, <1>5, QuietTransaction DEF StagedInv, StepRowsAgree

\* A transaction that moves one step between states in which it neither runs nor has ended.
LEMMA MovedStepInv ==
    ASSUME StagedInv, NEW s \in Step, NEW st \in StepState \ {"absent", "running", "completed"},
           status[JobOf[s]] = "staged",
           stepState[s] \notin {"absent", "running", "completed", "superseded"},
           stepState' = [stepState EXCEPT ![s] = st],
           pinned' \in [Step -> SUBSET Artifact],
           PinnedAreOutputs',
           UNCHANGED <<queueVars, flowVars, stepAttempts, currentAttempt, output, artifactVars, results>>
    PROVE  StagedInv'
<1>1. QueueInv' /\ status' = status
  BY QueueStutterInv DEF StagedInv, queueVars
<1>2. TypeOK'
  BY <1>1 DEF StagedInv, TypeOK, QueueInv, flowVars, artifactVars
<1>3. \A t \in Step : stepState'[t] = IF t = s THEN st ELSE stepState[t]
  BY DEF StagedInv, TypeOK
<1>4. ClosedJobHasNoWork' /\ SendingIsCurrentRevision'
  BY <1>1, <1>3 DEF StagedInv, ClosedJobHasNoWork, SendingIsCurrentRevision, flowVars
<1>5. \A t \in Step : \A d \in DependsOn[t] : d \in Step
  BY StepFacts
<1> QED BY <1>1, <1>2, <1>3, <1>4, <1>5, QuietTransaction DEF StagedInv, StepRowsAgree, artifactVars

LEMMA ReadyStepInv ==
    ASSUME StagedInv, NEW s \in Step, ReadyStep(s)
    PROVE  StagedInv'
<1> DEFINE st == IF Gated(s) THEN "waiting_input" ELSE "ready"
<1>1. /\ status[JobOf[s]] = "staged"
      /\ stepState[s] \in {"pending", "retry_wait"}
      /\ stepState' = [stepState EXCEPT ![s] = st]
      /\ UNCHANGED <<queueVars, flowVars, stepAttempts, currentAttempt, output, artifactVars, results>>
  BY DEF ReadyStep, Open, Promotable
<1>2. \A d \in DependsOn[s] : d \in Step /\ output[d] \in Artifact /\ output[d] # NoArtifact
  BY StepFacts DEF ReadyStep, Promotable, Resolved, StagedInv, TypeOK
<1>3. Inputs(s) \in SUBSET Artifact
  BY <1>2 DEF Inputs, StagedInv, TypeOK
<1>4. /\ pinned' \in [Step -> SUBSET Artifact]
      /\ \A t \in Step : pinned'[t] = IF t = s THEN Inputs(s) ELSE pinned[t]
  BY <1>3 DEF ReadyStep, StagedInv, TypeOK
<1>5. PinnedAreOutputs'
  BY <1>1, <1>2, <1>4 DEF StagedInv, PinnedAreOutputs, Inputs
<1>6. st \in StepState \ {"absent", "running", "completed"}
  BY DEF StepState
<1> HIDE DEF st
<1> QED BY <1>1, <1>4, <1>5, <1>6, MovedStepInv

LEMMA ApproveStepInv ==
    ASSUME StagedInv, NEW s \in Step, ApproveStep(s)
    PROVE  StagedInv'
<1>1. "ready" \in StepState \ {"absent", "running", "completed"}
  BY DEF StepState
<1>2. pinned' = pinned /\ UNCHANGED output /\ pinned' \in [Step -> SUBSET Artifact]
  BY DEF ApproveStep, StagedInv, TypeOK
<1>3. PinnedAreOutputs'
  BY <1>2, PinnedKept DEF OutputsKept
<1> QED BY <1>1, <1>2, <1>3, MovedStepInv DEF ApproveStep, Open

LEMMA RetryStepInv ==
    ASSUME StagedInv, NEW s \in Step, NEW expected \in Nat, RetryStep(s, expected)
    PROVE  StagedInv'
<1>1. "retry_wait" \in StepState \ {"absent", "running", "completed"}
  BY DEF StepState
<1>2. pinned' = pinned /\ UNCHANGED output /\ pinned' \in [Step -> SUBSET Artifact]
  BY DEF RetryStep, StagedInv, TypeOK
<1>3. PinnedAreOutputs'
  BY <1>2, PinnedKept DEF OutputsKept
<1>4. stepState[s] \notin {"absent", "running", "completed", "superseded"}
  BY DEF RetryStep, Retryable
<1> QED BY <1>1, <1>2, <1>3, <1>4, MovedStepInv DEF RetryStep

LEMMA SaveArtifactInv ==
    ASSUME StagedInv, saving' \subseteq Artifact, artifacts' \subseteq Artifact,
           artifacts \subseteq artifacts',
           UNCHANGED <<queueVars, flowVars, stepVars, results>>
    PROVE  StagedInv'
<1>1. QueueInv' /\ status' = status
  BY QueueStutterInv DEF StagedInv, queueVars
<1>2. /\ UNCHANGED <<stepState, stepAttempts, currentAttempt, pinned, output, paused, revision>>
      /\ TypeOK'
  BY <1>1 DEF StagedInv, TypeOK, QueueInv, flowVars, stepVars
<1>3. PinnedAreOutputs'
  BY <1>2, PinnedKept DEF OutputsKept
<1>4. ClosedJobHasNoWork' /\ SendingIsCurrentRevision'
  BY <1>1, <1>2 DEF StagedInv, ClosedJobHasNoWork, SendingIsCurrentRevision
<1> QED BY <1>1, <1>2, <1>3, <1>4, QuietTransaction DEF StagedInv, StepRowsAgree

LEMMA BeginSaveArtifactInv ==
    ASSUME StagedInv, NEW s \in Step, NEW a \in Nat, BeginSaveArtifact(s, a)
    PROVE  StagedInv'
<1>1. saving' \subseteq Artifact /\ artifacts' = artifacts /\ artifacts \subseteq Artifact
  BY DEF BeginSaveArtifact, StagedInv, TypeOK, Artifact
<1> QED BY <1>1, SaveArtifactInv DEF BeginSaveArtifact

LEMMA EndSaveArtifactInv ==
    ASSUME StagedInv, NEW s \in Step, NEW a \in Nat, EndSaveArtifact(s, a)
    PROVE  StagedInv'
<1>1. saving' \subseteq Artifact /\ artifacts' = artifacts \cup Inserted(s, a)
  BY DEF EndSaveArtifact, StagedInv, TypeOK
<1>2. artifacts \subseteq Artifact /\ Inserted(s, a) \subseteq Artifact
  BY DEF Inserted, Artifact, StagedInv, TypeOK
<1> QED BY <1>1, <1>2, SaveArtifactInv DEF EndSaveArtifact

-----------------------------------------------------------------------------
(***************************************************************************)
(* Transactions that start or end attempts                                 *)
(***************************************************************************)

LEMMA ClaimStepInv ==
    ASSUME StagedInv, NEW s \in Step, NEW expected \in Nat, ClaimStep(s, expected)
    PROVE  StagedInv'
<1> DEFINE n == Len(stepAttempts[s])
           new == [status |-> "running", inputs |-> Inputs(s)]
<1>1. /\ status[JobOf[s]] = "staged"
      /\ stepState[s] = "ready"
      /\ stepAttempts' = [stepAttempts EXCEPT ![s] = Append(stepAttempts[s], new)]
      /\ currentAttempt' = [currentAttempt EXCEPT ![s] = n + 1]
      /\ stepState' = [stepState EXCEPT ![s] = "running"]
      /\ pinned' = [pinned EXCEPT ![s] = Inputs(s)]
      /\ UNCHANGED <<queueVars, flowVars, output, artifactVars, results>>
  BY DEF ClaimStep, Open
<1>2. \A d \in DependsOn[s] :
        d \in Step /\ stepState[d] = "completed" /\ output[d] \in Artifact /\ output[d] # NoArtifact
  BY StepFacts DEF ClaimStep, Resolved, StagedInv, TypeOK
<1>3. Inputs(s) = {output[d] : d \in DependsOn[s]} /\ Inputs(s) \in SUBSET Artifact
  BY <1>2 DEF Inputs, StagedInv, PinnedAreOutputs
<1>4. new \in StepAttempt /\ new.status = "running" /\ new.inputs = Inputs(s)
  BY <1>3 DEF StepAttempt, StepAttemptStatus
<1> HIDE DEF new
<1>5. /\ stepAttempts[s] \in Seq(StepAttempt) /\ n \in Nat
      /\ stepAttempts'[s] = Append(stepAttempts[s], new)
  BY <1>1, StepFacts DEF StagedInv, TypeOK
<1>6. /\ stepAttempts'[s] \in Seq(StepAttempt)
      /\ Len(stepAttempts'[s]) = n + 1
      /\ stepAttempts'[s][n + 1] = new
      /\ \A a \in 1..n : stepAttempts'[s][a] = stepAttempts[s][a]
  BY <1>4, <1>5
<1>7. \A t \in Step \ {s} : /\ stepAttempts'[t] = stepAttempts[t]
                            /\ currentAttempt'[t] = currentAttempt[t]
                            /\ stepState'[t] = stepState[t]
                            /\ pinned'[t] = pinned[t]
  BY <1>1 DEF StagedInv, TypeOK
<1>8. currentAttempt'[s] = n + 1 /\ stepState'[s] = "running" /\ pinned'[s] = Inputs(s)
  BY <1>1 DEF StagedInv, TypeOK
<1>9. /\ QueueInv' /\ status' = status
      /\ UNCHANGED <<output, paused, revision, saving, artifacts, results>>
  BY <1>1, QueueStutterInv DEF StagedInv, queueVars, flowVars, artifactVars
<1>10. TypeOK'
  <2>1. stepAttempts' \in [Step -> Seq(StepAttempt)]
    BY <1>1, <1>5, <1>6 DEF StagedInv, TypeOK
  <2>2. currentAttempt' \in [Step -> Nat]
    BY <1>1, <1>5 DEF StagedInv, TypeOK
  <2>3. stepState' \in [Step -> StepState] /\ pinned' \in [Step -> SUBSET Artifact]
    BY <1>1, <1>3 DEF StagedInv, TypeOK, StepState
  <2> QED BY <1>9, <2>1, <2>2, <2>3 DEF StagedInv, TypeOK, QueueInv
<1>11. OutputsKept
  BY <1>9 DEF OutputsKept
<1>12. StepRowsAgree'
  BY <1>1, <1>5, <1>6, <1>7, <1>8, <1>9 DEF StagedInv, StepRowsAgree
<1>13. LiveAttemptIsCurrent'
  <2> SUFFICES ASSUME NEW t \in Step, NEW a \in 1..Len(stepAttempts'[t])
               PROVE  stepAttempts'[t][a].status = "running" <=>
                         stepState'[t] = "running" /\ a = currentAttempt'[t]
    BY DEF LiveAttemptIsCurrent
  <2>1. CASE t # s
    BY <2>1, <1>7 DEF StagedInv, LiveAttemptIsCurrent
  <2>2. CASE t = s /\ a = n + 1
    BY <2>2, <1>4, <1>6, <1>8
  <2>3. CASE t = s /\ a \in 1..n
    <3>1. stepAttempts[s][a].status # "running" /\ a # n + 1
      BY <2>3, <1>1, <1>5 DEF StagedInv, LiveAttemptIsCurrent
    <3> QED BY <2>3, <3>1, <1>6, <1>8
  <2> QED BY <1>5, <1>6, <2>1, <2>2, <2>3
<1>14. OutputIsFinal' /\ OutputComesFromCompletedAttempt'
  <2>1. output[s] = NoArtifact
    BY <1>1 DEF StagedInv, OutputIsFinal
  <2> QED BY <2>1, <1>7, <1>8, <1>9 DEF StagedInv, OutputIsFinal, OutputComesFromCompletedAttempt
<1>15. PinnedAreOutputs'
  BY <1>2, <1>3, <1>7, <1>8, <1>9 DEF StagedInv, PinnedAreOutputs
<1>16. PinnedInputsStayCurrent'
  <2> SUFFICES ASSUME NEW t \in Step, stepState'[t] \in {"running", "completed"}
               PROVE  /\ currentAttempt'[t] \in 1..Len(stepAttempts'[t])
                      /\ \A d \in DependsOn[t] : stepState'[d] = "completed"
                      /\ stepAttempts'[t][currentAttempt'[t]].inputs = {output'[d] : d \in DependsOn[t]}
    BY DEF PinnedInputsStayCurrent
  <2>1. \A d \in Step : stepState[d] = "completed" => stepState'[d] = "completed"
    BY <1>1, <1>7
  <2>2. CASE t = s
    BY <2>1, <2>2, <1>2, <1>3, <1>4, <1>5, <1>6, <1>8, <1>9
  <2>3. CASE t # s
    BY <2>1, <2>3, <1>7, <1>9, StepFacts DEF StagedInv, PinnedInputsStayCurrent
  <2> QED BY <2>2, <2>3
<1>17. ClosedJobHasNoWork' /\ SendingIsCurrentRevision'
  BY <1>1, <1>7, <1>9 DEF StagedInv, ClosedJobHasNoWork, SendingIsCurrentRevision
<1>18. ResultIsTheOutput' /\ OneResultPerOutput'
  BY <1>9, <1>11, ResultsKept
<1> QED BY <1>9, <1>10, <1>12, <1>13, <1>14, <1>15, <1>16, <1>17, <1>18 DEF StagedInv

\* A transaction that ends attempts without an output, such as recovery and cancellation.
LEMMA EndingTransaction ==
    ASSUME StagedInv, TypeOK', QueueInv', ClosedJobHasNoWork',
           UNCHANGED <<revision, currentAttempt, pinned, output, artifacts, results>>,
           \A s \in Step :
              /\ \/ stepAttempts'[s] = stepAttempts[s] /\ (stepState'[s] = "running" <=> stepState[s] = "running")
                 \/ Ended(stepAttempts[s], stepAttempts'[s]) /\ stepState'[s] # "running"
              /\ stepState'[s] = "running" => stepState[s] = "running"
              /\ stepState'[s] = "completed" <=> stepState[s] = "completed"
              /\ stepState'[s] = "superseded" <=> stepState[s] = "superseded"
              /\ stepState'[s] = "absent" => stepState[s] = "absent"
              /\ status'[JobOf[s]] = "none" => stepState'[s] = "absent"
    PROVE  StagedInv'
<1>1. OutputsKept
  BY DEF OutputsKept
<1>2. ResultIsTheOutput' /\ OneResultPerOutput' /\ PinnedAreOutputs'
  BY <1>1, ResultsKept, PinnedKept
<1>3. \A s \in Step :
        /\ Len(stepAttempts'[s]) = Len(stepAttempts[s])
        /\ \A a \in 1..Len(stepAttempts[s]) :
              /\ stepAttempts'[s][a].inputs = stepAttempts[s][a].inputs
              /\ stepAttempts[s][a].status # "running" => stepAttempts'[s][a] = stepAttempts[s][a]
  BY DEF Ended
<1>4. StepRowsAgree'
  BY <1>3 DEF StagedInv, StepRowsAgree
<1>5. LiveAttemptIsCurrent'
  <2> SUFFICES ASSUME NEW s \in Step, NEW a \in 1..Len(stepAttempts'[s])
               PROVE  stepAttempts'[s][a].status = "running" <=>
                         stepState'[s] = "running" /\ a = currentAttempt'[s]
    BY DEF LiveAttemptIsCurrent
  <2>1. CASE stepAttempts'[s] = stepAttempts[s] /\ (stepState'[s] = "running" <=> stepState[s] = "running")
    BY <2>1 DEF StagedInv, LiveAttemptIsCurrent
  <2>2. CASE Ended(stepAttempts[s], stepAttempts'[s]) /\ stepState'[s] # "running"
    BY <2>2 DEF Ended
  <2> QED BY <2>1, <2>2
<1>6. OutputIsFinal'
  BY DEF StagedInv, OutputIsFinal
<1>7. OutputComesFromCompletedAttempt'
  BY <1>3 DEF StagedInv, OutputComesFromCompletedAttempt
<1>8. PinnedInputsStayCurrent'
  <2> SUFFICES ASSUME NEW t \in Step, stepState'[t] \in {"running", "completed"}
               PROVE  /\ currentAttempt'[t] \in 1..Len(stepAttempts'[t])
                      /\ \A d \in DependsOn[t] : stepState'[d] = "completed"
                      /\ stepAttempts'[t][currentAttempt'[t]].inputs = {output'[d] : d \in DependsOn[t]}
    BY DEF PinnedInputsStayCurrent
  <2>1. stepState[t] \in {"running", "completed"}
    OBVIOUS
  <2>2. /\ currentAttempt[t] \in 1..Len(stepAttempts[t])
        /\ \A d \in DependsOn[t] : stepState[d] = "completed"
        /\ stepAttempts[t][currentAttempt[t]].inputs = {output[d] : d \in DependsOn[t]}
    BY <2>1 DEF StagedInv, PinnedInputsStayCurrent
  <2> QED BY <2>2, <1>3, StepFacts
<1>9. SendingIsCurrentRevision'
  BY DEF StagedInv, SendingIsCurrentRevision
<1> QED BY <1>2, <1>4, <1>5, <1>6, <1>7, <1>8, <1>9 DEF StagedInv

LEMMA RecoverInterruptedStepsInv ==
    ASSUME StagedInv, RecoverInterruptedSteps
    PROVE  StagedInv'
<1>1. UNCHANGED <<queueVars, paused, revision, currentAttempt, pinned, output, saving, artifacts, results>>
  BY DEF RecoverInterruptedSteps, flowVars, artifactVars
<1>2. QueueInv' /\ status' = status
  BY <1>1, QueueStutterInv DEF StagedInv, queueVars
<1>3. /\ \A s \in Step : stepState'[s] = IF stepState[s] = "running" THEN "waiting_input" ELSE stepState[s]
      /\ stepState' \in [Step -> StepState]
  BY DEF RecoverInterruptedSteps, StagedInv, TypeOK, StepState
<1>4. ASSUME NEW s \in Step
      PROVE  stepAttempts'[s] = IF stepState[s] = "running"
                                THEN EndStepAttempts(stepAttempts[s], "interrupted")
                                ELSE stepAttempts[s]
  <2>1. stepAttempts'[s] = [a \in 1..Len(stepAttempts[s]) |->
            IF stepState[s] = "running" /\ a = currentAttempt[s] /\ stepAttempts[s][a].status = "running"
            THEN [stepAttempts[s][a] EXCEPT !.status = "interrupted"]
            ELSE stepAttempts[s][a]]
    BY DEF RecoverInterruptedSteps
  <2>2. CASE stepState[s] = "running"
    <3>1. \A a \in 1..Len(stepAttempts[s]) : stepAttempts[s][a].status = "running" => a = currentAttempt[s]
      BY DEF StagedInv, LiveAttemptIsCurrent
    <3> QED BY <2>1, <2>2, <3>1 DEF EndStepAttempts
  <2>3. CASE stepState[s] # "running"
    <3>1. [a \in 1..Len(stepAttempts[s]) |-> stepAttempts[s][a]] = stepAttempts[s]
      BY StepFacts, CopiedSequence
    <3> QED BY <2>1, <2>3, <3>1
  <2> QED BY <2>2, <2>3
<1>5. "interrupted" \in StepAttemptStatus \ {"running"}
  BY DEF StepAttemptStatus
<1>6. ASSUME NEW s \in Step
      PROVE  \/ stepAttempts'[s] = stepAttempts[s] /\ (stepState'[s] = "running" <=> stepState[s] = "running")
             \/ Ended(stepAttempts[s], stepAttempts'[s]) /\ stepState'[s] # "running"
  BY <1>3, <1>4, <1>5, StepFacts, EndStepAttemptsProperties
<1>7. TypeOK'
  <2>1. \A s \in Step : stepAttempts'[s] \in Seq(StepAttempt)
    BY <1>6, StepFacts DEF Ended
  <2>2. stepAttempts' \in [Step -> Seq(StepAttempt)]
    BY <2>1 DEF RecoverInterruptedSteps
  <2> QED BY <1>1, <1>2, <1>3, <2>2 DEF StagedInv, TypeOK, QueueInv
<1>8. ClosedJobHasNoWork'
  BY <1>2, <1>3 DEF StagedInv, ClosedJobHasNoWork
<1>9. \A s \in Step :
        /\ stepState'[s] = "running" => stepState[s] = "running"
        /\ stepState'[s] = "completed" <=> stepState[s] = "completed"
        /\ stepState'[s] = "superseded" <=> stepState[s] = "superseded"
        /\ stepState'[s] = "absent" => stepState[s] = "absent"
        /\ status'[JobOf[s]] = "none" => stepState'[s] = "absent"
  BY <1>2, <1>3 DEF StagedInv, StepRowsAgree
<1> QED BY <1>1, <1>2, <1>6, <1>7, <1>8, <1>9, EndingTransaction

LEMMA CancelInv ==
    ASSUME StagedInv, NEW j \in Job, Cancel(j)
    PROVE  StagedInv'
<1>1. UNCHANGED <<paused, revision, currentAttempt, pinned, output, saving, artifacts, results>>
  BY DEF Cancel, flowVars, artifactVars
<1>2. QueueInv' /\ status' = [status EXCEPT ![j] = "cancelled"] /\ status[j] # "none"
  BY CancelJobInv DEF Cancel, CancelJob, StagedInv
<1>3. \A i \in Job : status'[i] = IF i = j THEN "cancelled" ELSE status[i]
  BY <1>2 DEF StagedInv, TypeOK, QueueTypeOK
<1>4. /\ \A s \in Step : stepState'[s] = IF JobOf[s] = j /\ stepState[s] \notin EndedStep
                                         THEN "cancelled" ELSE stepState[s]
      /\ stepState' \in [Step -> StepState]
  BY DEF Cancel, StagedInv, TypeOK, StepState
<1>5. \A s \in Step : stepAttempts'[s] = IF JobOf[s] = j THEN EndStepAttempts(stepAttempts[s], "cancelled")
                                         ELSE stepAttempts[s]
  BY DEF Cancel
<1>6. "cancelled" \in StepAttemptStatus \ {"running"}
  BY DEF StepAttemptStatus
<1>7. ASSUME NEW s \in Step
      PROVE  \/ stepAttempts'[s] = stepAttempts[s] /\ (stepState'[s] = "running" <=> stepState[s] = "running")
             \/ Ended(stepAttempts[s], stepAttempts'[s]) /\ stepState'[s] # "running"
  BY <1>4, <1>5, <1>6, StepFacts, EndStepAttemptsProperties DEF EndedStep
<1>8. TypeOK'
  <2>1. \A s \in Step : stepAttempts'[s] \in Seq(StepAttempt)
    BY <1>7, StepFacts DEF Ended
  <2>2. stepAttempts' \in [Step -> Seq(StepAttempt)]
    BY <2>1 DEF Cancel
  <2> QED BY <1>1, <1>2, <1>4, <2>2 DEF StagedInv, TypeOK, QueueInv
<1>9. ClosedJobHasNoWork'
  BY <1>3, <1>4, StepFacts DEF StagedInv, ClosedJobHasNoWork, EndedStep
<1>10. \A s \in Step :
        /\ stepState'[s] = "running" => stepState[s] = "running"
        /\ stepState'[s] = "completed" <=> stepState[s] = "completed"
        /\ stepState'[s] = "superseded" <=> stepState[s] = "superseded"
        /\ stepState'[s] = "absent" => stepState[s] = "absent"
        /\ status'[JobOf[s]] = "none" => stepState'[s] = "absent"
  BY <1>2, <1>3, <1>4, StepFacts DEF StagedInv, StepRowsAgree, EndedStep
<1> QED BY <1>1, <1>2, <1>7, <1>8, <1>9, <1>10, EndingTransaction

LEMMA CompleteStepInv ==
    ASSUME StagedInv, NEW s \in Step, NEW a \in Nat, NEW art \in artifacts \cup {NoArtifact},
           NEW st \in StepState \cup StepAttemptStatus, CompleteStep(s, a, art, st)
    PROVE  StagedInv'
<1>1. /\ status[JobOf[s]] = "staged" /\ stepState[s] = "running" /\ currentAttempt[s] = a
      /\ st \in CompletionStatus
      /\ st = "completed" => art \in artifacts /\ art = <<s, a>> /\ art # NoArtifact
      /\ stepState' = [stepState EXCEPT ![s] = st]
      /\ output' = [output EXCEPT ![s] = StepOutput(art, st)]
      /\ stepAttempts' = [stepAttempts EXCEPT ![s] = [stepAttempts[s] EXCEPT ![a].status = st]]
      /\ UNCHANGED <<queueVars, flowVars, currentAttempt, pinned, artifactVars, results>>
  BY DEF CompleteStep
<1>2. st \in StepAttemptStatus \ {"running"} /\ st \in StepState \ {"absent", "running", "superseded"}
  BY <1>1 DEF CompletionStatus, StepAttemptStatus, StepState
<1>3. a \in 1..Len(stepAttempts[s]) /\ stepAttempts[s][a].status = "running"
  BY <1>1 DEF StagedInv, PinnedInputsStayCurrent, LiveAttemptIsCurrent
<1>4. \A b \in 1..Len(stepAttempts[s]) : stepAttempts[s][b].status = "running" => b = a
  BY <1>1 DEF StagedInv, LiveAttemptIsCurrent
<1>5. stepAttempts'[s] = [stepAttempts[s] EXCEPT ![a].status = st]
  BY <1>1 DEF StagedInv, TypeOK
<1>6. Ended(stepAttempts[s], stepAttempts'[s]) /\ stepAttempts'[s][a].status = st
  BY <1>2, <1>3, <1>4, <1>5, StepFacts, CompletedAttemptProperties
<1>7. \A t \in Step \ {s} : /\ stepAttempts'[t] = stepAttempts[t]
                            /\ stepState'[t] = stepState[t]
                            /\ output'[t] = output[t]
  BY <1>1 DEF StagedInv, TypeOK
<1>8. stepState'[s] = st /\ output'[s] = StepOutput(art, st) /\ output[s] = NoArtifact
  BY <1>1 DEF StagedInv, TypeOK, OutputIsFinal
<1>9. /\ QueueInv' /\ status' = status
      /\ UNCHANGED <<paused, revision, saving, artifacts, currentAttempt, pinned, results>>
  BY <1>1, QueueStutterInv DEF StagedInv, queueVars, flowVars, artifactVars
<1>10. TypeOK'
  <2>1. stepAttempts' \in [Step -> Seq(StepAttempt)]
    BY <1>1, <1>5, <1>6 DEF StagedInv, TypeOK, Ended
  <2>2. StepOutput(art, st) \in Artifact \cup {NoArtifact}
    BY DEF StepOutput, StagedInv, TypeOK
  <2>3. output' \in [Step -> Artifact \cup {NoArtifact}] /\ stepState' \in [Step -> StepState]
    BY <1>1, <1>2, <2>2 DEF StagedInv, TypeOK
  <2> QED BY <1>9, <2>1, <2>3 DEF StagedInv, TypeOK, QueueInv
<1>11. OutputsKept
  BY <1>7, <1>8 DEF OutputsKept
<1>12. StepRowsAgree'
  BY <1>1, <1>2, <1>6, <1>7, <1>8, <1>9 DEF StagedInv, StepRowsAgree, Ended
<1>13. LiveAttemptIsCurrent'
  BY <1>2, <1>6, <1>7, <1>8, <1>9 DEF StagedInv, LiveAttemptIsCurrent, Ended
<1>14. OutputIsFinal'
  BY <1>7, <1>8 DEF StagedInv, OutputIsFinal, StepOutput
<1>15. OutputComesFromCompletedAttempt'
  <2> SUFFICES ASSUME NEW t \in Step
               PROVE  /\ stepState'[t] = "completed" => output'[t] # NoArtifact
                      /\ output'[t] # NoArtifact =>
                            /\ output'[t] = <<t, currentAttempt'[t]>>
                            /\ output'[t] \in artifacts'
                            /\ currentAttempt'[t] \in 1..Len(stepAttempts'[t])
                            /\ stepAttempts'[t][currentAttempt'[t]].status = "completed"
    BY DEF OutputComesFromCompletedAttempt
  <2>1. CASE t = s /\ st = "completed"
    BY <2>1, <1>1, <1>3, <1>6, <1>8, <1>9 DEF StepOutput, Ended
  <2>2. CASE t = s /\ st # "completed"
    BY <2>2, <1>8 DEF StepOutput
  <2>3. CASE t # s
    BY <2>3, <1>7, <1>9 DEF StagedInv, OutputComesFromCompletedAttempt
  <2> QED BY <2>1, <2>2, <2>3
<1>16. PinnedAreOutputs'
  BY <1>9, <1>11, PinnedKept
<1>17. PinnedInputsStayCurrent'
  <2> SUFFICES ASSUME NEW t \in Step, stepState'[t] \in {"running", "completed"}
               PROVE  /\ currentAttempt'[t] \in 1..Len(stepAttempts'[t])
                      /\ \A d \in DependsOn[t] : stepState'[d] = "completed"
                      /\ stepAttempts'[t][currentAttempt'[t]].inputs = {output'[d] : d \in DependsOn[t]}
    BY DEF PinnedInputsStayCurrent
  <2>1. stepState[t] \in {"running", "completed"}
    BY <1>1, <1>7
  <2>2. /\ currentAttempt[t] \in 1..Len(stepAttempts[t])
        /\ \A d \in DependsOn[t] : stepState[d] = "completed"
        /\ stepAttempts[t][currentAttempt[t]].inputs = {output[d] : d \in DependsOn[t]}
    BY <2>1 DEF StagedInv, PinnedInputsStayCurrent
  <2>3. \A d \in DependsOn[t] : d \in Step \ {s}
    BY <2>2, <1>1, StepFacts
  <2>4. /\ \A d \in DependsOn[t] : stepState'[d] = "completed" /\ output'[d] = output[d]
        /\ {output'[d] : d \in DependsOn[t]} = {output[d] : d \in DependsOn[t]}
    BY <2>2, <2>3, <1>7
  <2>5. /\ Len(stepAttempts'[t]) = Len(stepAttempts[t])
        /\ stepAttempts'[t][currentAttempt[t]].inputs = stepAttempts[t][currentAttempt[t]].inputs
    BY <2>2, <1>6, <1>7 DEF Ended
  <2> QED BY <2>2, <2>4, <2>5, <1>9
<1>18. ClosedJobHasNoWork' /\ SendingIsCurrentRevision'
  BY <1>1, <1>7, <1>9 DEF StagedInv, ClosedJobHasNoWork, SendingIsCurrentRevision
<1>19. ResultIsTheOutput' /\ OneResultPerOutput'
  BY <1>9, <1>11, ResultsKept
<1> QED BY <1>9, <1>10, <1>12, <1>13, <1>14, <1>15, <1>16, <1>17, <1>18, <1>19 DEF StagedInv

-----------------------------------------------------------------------------
(***************************************************************************)
(* Result events, and the operations of the queue on a resumed staged job  *)
(***************************************************************************)

\* A transaction over the job status and the results only.
LEMMA ResultTransaction ==
    ASSUME StagedInv, QueueInv', results' \subseteq Result,
           UNCHANGED <<flowVars, stepVars, artifactVars>>,
           \A i \in Job : status'[i] = "none" <=> status[i] = "none",
           ClosedJobHasNoWork', SendingIsCurrentRevision', ResultIsTheOutput', OneResultPerOutput'
    PROVE  StagedInv'
<1>1. UNCHANGED <<paused, revision, stepState, stepAttempts, currentAttempt, pinned, output, saving, artifacts>>
  BY DEF flowVars, stepVars, artifactVars
<1>2. TypeOK'
  BY <1>1 DEF StagedInv, TypeOK, QueueInv
<1>3. StepRowsAgree'
  BY <1>1, StepFacts DEF StagedInv, StepRowsAgree
<1>4. LiveAttemptIsCurrent' /\ OutputIsFinal' /\ OutputComesFromCompletedAttempt'
  BY <1>1 DEF StagedInv, LiveAttemptIsCurrent, OutputIsFinal, OutputComesFromCompletedAttempt
<1>5. PinnedAreOutputs' /\ PinnedInputsStayCurrent'
  BY <1>1 DEF StagedInv, PinnedAreOutputs, PinnedInputsStayCurrent
<1> QED BY <1>2, <1>3, <1>4, <1>5 DEF StagedInv

LEMMA PublishResultEventInv ==
    ASSUME StagedInv, NEW s \in Step, PublishResultEvent(s)
    PROVE  StagedInv'
<1> DEFINE new == [step |-> s, revision |-> revision[JobOf[s]], artifact |-> output[s],
                   delivery |-> "available"]
<1>1. /\ results' = results \cup {new}
      /\ output[s] \in artifacts
      /\ ~Published(s)
      /\ UNCHANGED <<queueVars, flowVars, stepVars, artifactVars>>
  BY DEF PublishResultEvent
<1>2. QueueInv' /\ status' = status
  BY <1>1, QueueStutterInv DEF StagedInv, queueVars
<1>3. UNCHANGED <<revision, stepState, output, artifacts>>
  BY <1>1 DEF flowVars, stepVars, artifactVars
<1>4. /\ new \in Result /\ new.step = s /\ new.revision = revision[JobOf[s]]
      /\ new.artifact = output[s] /\ new.delivery = "available"
  BY <1>1, StepFacts DEF Result, DeliveryStatus, StagedInv, TypeOK
<1> HIDE DEF new
<1>5. results' \subseteq Result
  BY <1>1, <1>4 DEF StagedInv, TypeOK
<1>6. ClosedJobHasNoWork'
  BY <1>2, <1>3 DEF StagedInv, ClosedJobHasNoWork
<1>7. SendingIsCurrentRevision' /\ ResultIsTheOutput'
  BY <1>1, <1>3, <1>4 DEF StagedInv, SendingIsCurrentRevision, ResultIsTheOutput
<1>8. OneResultPerOutput'
  <2>1. \A e \in results : ~(e.step = new.step /\ e.revision = new.revision)
    BY <1>1, <1>4 DEF Published, StagedInv, ResultIsTheOutput
  <2> QED BY <2>1, <1>1 DEF StagedInv, OneResultPerOutput
<1> QED BY <1>1, <1>2, <1>5, <1>6, <1>7, <1>8, ResultTransaction

LEMMA SetDeliveryInv ==
    ASSUME StagedInv, NEW e \in results, NEW d \in DeliveryStatus,
           d = "sending" => e.revision = revision[JobOf[e.step]],
           SetDelivery(e, d)
    PROVE  StagedInv'
<1> DEFINE new == [e EXCEPT !.delivery = d]
           j == JobOf[e.step]
<1>1. e \in Result /\ e.step \in Step /\ j \in Job
  BY StepFacts DEF StagedInv, TypeOK, Result
<1>2. /\ results' = (results \ {e}) \cup {new}
      /\ UNCHANGED <<attempts, current, delayed, diagnostic, resumed, limit, flowVars, stepVars, artifactVars>>
  BY DEF SetDelivery
<1>3. \/ UNCHANGED status
      \/ status[j] = "staged" /\ AllStepsCompleted(j) /\ status' = [status EXCEPT ![j] = "completed"]
  BY DEF SetDelivery, CompleteDeliveredJob, HandedOff
<1>4. /\ new \in Result /\ new.step = e.step /\ new.revision = e.revision
      /\ new.artifact = e.artifact /\ new.delivery = d
  BY <1>1 DEF Result
<1> HIDE DEF new
<1>5. UNCHANGED <<revision, stepState, output, artifacts>>
  BY <1>2 DEF flowVars, stepVars, artifactVars
<1>6. QueueInv'
  <2>1. CASE UNCHANGED status
    BY <1>2, <2>1, QueueStutterInv DEF StagedInv, queueVars
  <2>2. CASE status[j] = "staged" /\ status' = [status EXCEPT ![j] = "completed"]
    <3>1. /\ diagnostic = [diagnostic EXCEPT ![j] = diagnostic[j]] /\ diagnostic[j] \in Diagnostic
          /\ delayed = [delayed EXCEPT ![j] = delayed[j]] /\ delayed[j] \in BOOLEAN
          /\ resumed = [resumed EXCEPT ![j] = resumed[j]] /\ resumed[j] \in Nat
      BY <1>1 DEF StagedInv, TypeOK, QueueTypeOK
    <3>2. /\ status[j] # "running" /\ status' = [status EXCEPT ![j] = "completed"]
          /\ diagnostic' = [diagnostic EXCEPT ![j] = diagnostic[j]]
          /\ delayed' = [delayed EXCEPT ![j] = delayed[j]]
          /\ resumed' = [resumed EXCEPT ![j] = resumed[j]]
          /\ UNCHANGED <<attempts, current, limit>>
      BY <1>2, <2>2, <3>1
    <3>3. QueueInv /\ "completed" \in JobStatus \ {"running"}
      BY DEF StagedInv, JobStatus
    <3> HIDE DEF j
    <3> QED BY <1>1, <3>1, <3>2, <3>3, ParkedJobInv
  <2> QED BY <1>3, <2>1, <2>2
<1>7. \A i \in Job : \/ status'[i] = status[i]
                     \/ i = j /\ status[i] = "staged" /\ status'[i] = "completed" /\ AllStepsCompleted(j)
  BY <1>3, <1>1 DEF StagedInv, TypeOK, QueueTypeOK
<1>8. ClosedJobHasNoWork'
  <2> SUFFICES ASSUME NEW s \in Step, status'[JobOf[s]] # "staged"
               PROVE  stepState'[s] \in {"absent", "completed", "superseded", "cancelled"}
    BY DEF ClosedJobHasNoWork
  <2>1. CASE status'[JobOf[s]] = status[JobOf[s]]
    BY <2>1, <1>5 DEF StagedInv, ClosedJobHasNoWork
  <2>2. CASE JobOf[s] = j /\ AllStepsCompleted(j)
    BY <2>2, <1>5 DEF AllStepsCompleted, StepsOf
  <2> QED BY <2>1, <2>2, <1>7, StepFacts
<1>9. SendingIsCurrentRevision'
  BY <1>2, <1>4, <1>5 DEF StagedInv, SendingIsCurrentRevision
<1>10. ResultIsTheOutput' /\ OneResultPerOutput'
  BY <1>2, <1>4, <1>5 DEF StagedInv, ResultIsTheOutput, OneResultPerOutput
<1>11. results' \subseteq Result
  BY <1>2, <1>4 DEF StagedInv, TypeOK
<1>12. \A i \in Job : status'[i] = "none" <=> status[i] = "none"
  BY <1>7
<1> QED BY <1>2, <1>6, <1>8, <1>9, <1>10, <1>11, <1>12, ResultTransaction

LEMMA DeliveryStepInv ==
    ASSUME StagedInv, NEW e \in results, DeliveryStep(e)
    PROVE  StagedInv'
<1>1. ASSUME NEW d \in DeliveryStatus, MarkResultDelivery(e, d) PROVE StagedInv'
  <2>1. d = "sending" => e.revision = revision[JobOf[e.step]]
    BY <1>1 DEF MarkResultDelivery, MayLeaveAvailable, AllowedDeliveryTransition, DeliveryStatus,
                StagedInv, TypeOK, Result
  <2> QED BY <1>1, <2>1, SetDeliveryInv DEF MarkResultDelivery
<1>2. ASSUME ReconcileAbandonedResultSend(e) PROVE StagedInv'
  BY <1>2, SetDeliveryInv DEF ReconcileAbandonedResultSend, DeliveryStatus
<1>3. ASSUME NEW d \in DeliveryStatus, ResolveUnconfirmedResult(e, d) PROVE StagedInv'
  BY <1>3, SetDeliveryInv DEF ResolveUnconfirmedResult
<1> QED BY <1>1, <1>2, <1>3 DEF DeliveryStep

\* The operations of the queue neither touch a staged job nor make one.
LEMMA QueueStepKeepsStaged ==
    ASSUME QueueInv, NEW j \in Job, QueueStep(j), NEW i \in Job
    PROVE  /\ status'[i] = "none" <=> status[i] = "none"
           /\ status'[i] = "staged" <=> status[i] = "staged"
<1>1. status \in [Job -> JobStatus]
  BY DEF QueueInv, QueueTypeOK
<1>2. CASE RetryDelayElapses(j)
  BY <1>2 DEF RetryDelayElapses
<1>3. ASSUME NEW st, status[j] \notin {"none", "staged"}, st \notin {"none", "staged"},
             status' = [status EXCEPT ![j] = st]
      PROVE  /\ status'[i] = "none" <=> status[i] = "none"
             /\ status'[i] = "staged" <=> status[i] = "staged"
  BY <1>1, <1>3
<1>4. CASE StartAttempt(j)
  BY <1>3, <1>4 DEF StartAttempt
<1>5. CASE ExhaustBudget(j)
  BY <1>3, <1>5 DEF ExhaustBudget
<1>6. CASE \E a \in 1..MaxAttempts, outcome \in Outcome : FinishAttempt(j, a, outcome)
  <2>1. PICK a \in 1..MaxAttempts, outcome \in Outcome : FinishAttempt(j, a, outcome)
    BY <1>6
  <2>2. FinalStatus(a, outcome) \notin {"none", "staged"}
    BY DEF FinalStatus, Outcome
  <2> QED BY <1>3, <2>1, <2>2 DEF FinishAttempt
<1>7. CASE \E answered \in BOOLEAN : Resume(j, answered)
  <2>1. status[j] \notin {"none", "staged"} /\ status' = [status EXCEPT ![j] = "queued"]
    BY <1>7 DEF Resume
  <2> QED BY <1>3, <2>1
<1>8. CASE RecoverInterrupted(j)
  BY <1>3, <1>8 DEF RecoverInterrupted, RecoveredStatus
<1>9. CASE \E a \in 1..MaxAttempts, st \in JobStatus : CompletePublication(j, a, st)
  BY <1>3, <1>9 DEF CompletePublication
<1> QED BY <1>2, <1>4, <1>5, <1>6, <1>7, <1>8, <1>9 DEF QueueStep

LEMMA QueueTransactionInv ==
    ASSUME StagedInv, QueueInv', UNCHANGED stagedVars,
           \A i \in Job : /\ status'[i] = "none" <=> status[i] = "none"
                          /\ status'[i] = "staged" <=> status[i] = "staged"
    PROVE  StagedInv'
<1>1. UNCHANGED <<flowVars, stepVars, artifactVars, results, revision, stepState, output, artifacts>>
  BY DEF stagedVars, flowVars, stepVars, artifactVars
<1>2. ClosedJobHasNoWork'
  BY <1>1, StepFacts DEF StagedInv, ClosedJobHasNoWork
<1>3. SendingIsCurrentRevision' /\ ResultIsTheOutput' /\ OneResultPerOutput'
  BY <1>1 DEF StagedInv, SendingIsCurrentRevision, ResultIsTheOutput, OneResultPerOutput
<1>4. results' \subseteq Result
  BY <1>1 DEF StagedInv, TypeOK
<1> QED BY <1>1, <1>2, <1>3, <1>4, ResultTransaction

-----------------------------------------------------------------------------
(***************************************************************************)
(* The theorems                                                            *)
(***************************************************************************)

LEMMA InitStagedInv == Init => StagedInv
<1> SUFFICES ASSUME Init PROVE StagedInv
  OBVIOUS
<1>1. QueueInv
  BY QueueInitInv DEF Init
<1>2. <<>> \in Seq(StepAttempt) /\ Len(<<>>) = 0
  BY EmptySeq
<1>3. \A s \in Step : /\ stepState[s] = "absent" /\ stepAttempts[s] = <<>> /\ currentAttempt[s] = 0
                      /\ pinned[s] = {} /\ output[s] = NoArtifact
  BY DEF Init
<1>4. TypeOK
  BY <1>1, <1>2 DEF Init, TypeOK, QueueInv, StepState
<1>5. StepRowsAgree /\ OutputIsFinal /\ OutputComesFromCompletedAttempt /\ PinnedAreOutputs
  BY <1>2, <1>3 DEF StepRowsAgree, OutputIsFinal, OutputComesFromCompletedAttempt, PinnedAreOutputs
<1>6. LiveAttemptIsCurrent
  <2> SUFFICES ASSUME NEW s \in Step, NEW a \in 1..Len(stepAttempts[s]) PROVE FALSE
    BY DEF LiveAttemptIsCurrent
  <2>1. Len(stepAttempts[s]) = 0
    BY <1>2, <1>3
  <2> QED BY <2>1
<1>7. PinnedInputsStayCurrent /\ ClosedJobHasNoWork
  BY <1>3 DEF PinnedInputsStayCurrent, ClosedJobHasNoWork
<1>8. SendingIsCurrentRevision /\ ResultIsTheOutput /\ OneResultPerOutput
  BY DEF Init, SendingIsCurrentRevision, ResultIsTheOutput, OneResultPerOutput
<1> QED BY <1>1, <1>4, <1>5, <1>6, <1>7, <1>8 DEF StagedInv

LEMMA StagedStutterInv ==
    ASSUME StagedInv, UNCHANGED vars
    PROVE  StagedInv'
<1>1. QueueInv' /\ UNCHANGED stagedVars /\ UNCHANGED status
  BY QueueStutterInv DEF vars, queueVars, StagedInv
<1> QED BY <1>1, QueueTransactionInv

LEMMA NextStagedInv ==
    ASSUME StagedInv, [Next]_vars
    PROVE  StagedInv'
<1>1. ASSUME NEW j \in Job, WorkflowStep(j) PROVE StagedInv'
  <2>1. CASE SubmitStaged(j)
    BY <2>1, SubmitStagedInv
  <2>2. CASE \E new \in SUBSET Step : AppendSteps(j, new)
    BY <2>2, AppendStepsInv
  <2>3. CASE \E next \in 1..RevisionBound : SupersedeJobRevision(j, next)
    BY <2>3, SupersedeJobRevisionInv, WorkflowAssumption
  <2>4. CASE \E p \in BOOLEAN : SetPaused(j, p)
    BY <2>4, SetPausedInv
  <2>5. CASE Cancel(j)
    BY <2>5, CancelInv
  <2>6. CASE PublishValidatedResult(j)
    BY <2>6, PublishResultEventInv DEF PublishValidatedResult, StepsOf
  <2> QED BY <1>1, <2>1, <2>2, <2>3, <2>4, <2>5, <2>6 DEF WorkflowStep
<1>2. ASSUME NEW s \in Step, ExecutionStep(s) PROVE StagedInv'
  <2>1. CASE ReadyStep(s)
    BY <2>1, ReadyStepInv
  <2>2. CASE ApproveStep(s)
    BY <2>2, ApproveStepInv
  <2>3. ASSUME NEW a \in 0..AttemptBound,
               \/ ClaimStep(s, a) \/ RetryStep(s, a) \/ BeginSaveArtifact(s, a) \/ EndSaveArtifact(s, a)
               \/ \E art \in artifacts \cup {NoArtifact}, st \in StepState \cup StepAttemptStatus :
                     CompleteStep(s, a, art, st)
        PROVE  StagedInv'
    <3>1. a \in Nat
      BY WorkflowAssumption
    <3>2. CASE ClaimStep(s, a)
      BY <3>1, <3>2, ClaimStepInv
    <3>3. CASE RetryStep(s, a)
      BY <3>1, <3>3, RetryStepInv
    <3>4. CASE BeginSaveArtifact(s, a)
      BY <3>1, <3>4, BeginSaveArtifactInv
    <3>5. CASE EndSaveArtifact(s, a)
      BY <3>1, <3>5, EndSaveArtifactInv
    <3>6. CASE \E art \in artifacts \cup {NoArtifact}, st \in StepState \cup StepAttemptStatus :
                  CompleteStep(s, a, art, st)
      BY <3>1, <3>6, CompleteStepInv
    <3> QED BY <2>3, <3>2, <3>3, <3>4, <3>5, <3>6
  <2> QED BY <1>2, <2>1, <2>2, <2>3 DEF ExecutionStep
<1>3. ASSUME NEW j \in Job, LegacyStep(j) PROVE StagedInv'
  <2>1. QueueInv /\ QueueInv' /\ UNCHANGED stagedVars
    BY <1>3, QueueStepInv DEF LegacyStep, StagedInv
  <2>2. \A i \in Job : /\ status'[i] = "none" <=> status[i] = "none"
                       /\ status'[i] = "staged" <=> status[i] = "staged"
    BY <1>3, <2>1, QueueStepKeepsStaged DEF LegacyStep
  <2> QED BY <2>1, <2>2, QueueTransactionInv
<1>4. ASSUME NEW e \in results, DeliveryStep(e) PROVE StagedInv'
  BY <1>4, DeliveryStepInv
<1>5. CASE RecoverInterruptedSteps
  BY <1>5, RecoverInterruptedStepsInv
<1>6. ASSUME NEW n \in 1..MaxAttempts, Reconfigure(n), UNCHANGED stagedVars PROVE StagedInv'
  <2>1. QueueInv' /\ UNCHANGED status
    BY <1>6, ReconfigureInv DEF StagedInv, Reconfigure
  <2> QED BY <1>6, <2>1, QueueTransactionInv
<1>7. CASE UNCHANGED vars
  BY <1>7, StagedStutterInv
<1> QED BY <1>1, <1>2, <1>3, <1>4, <1>5, <1>6, <1>7 DEF Next

\* Every reachable state satisfies the inductive invariant, and with it each property that
\* is one of its conjuncts.
THEOREM StagedTablesAgree == Spec => []StagedInv
BY InitStagedInv, NextStagedInv, PTL DEF Spec

\* Type correctness of the store.
THEOREM TypeCorrect == Spec => []TypeOK
BY StagedTablesAgree, PTL DEF StagedInv

\* Claim, completion, cancellation and recovery keep a step and its attempt together.
THEOREM LiveAttemptsAreCurrent == Spec => []LiveAttemptIsCurrent
BY StagedTablesAgree, PTL DEF StagedInv

\* No retry, revision or late child changes an output that a later step has pinned.
THEOREM PinnedInputsAreCurrent == Spec => []PinnedInputsStayCurrent
BY StagedTablesAgree, PTL DEF StagedInv

\* Only a completed, current attempt gives a step its output.
THEOREM OutputsAreValidated == Spec => []OutputComesFromCompletedAttempt
BY StagedTablesAgree, PTL DEF StagedInv

\* A job that has left "staged" leaves no step that could still be run.
THEOREM ClosedJobsHaveNoWork == Spec => []ClosedJobHasNoWork
BY StagedTablesAgree, PTL DEF StagedInv

\* A request is never superseded under a send, results are published once per output, and
\* a published result keeps naming the output of its step.
THEOREM ResultsAreConsistent ==
    Spec => [](SendingIsCurrentRevision /\ OneResultPerOutput /\ ResultIsTheOutput)
BY StagedTablesAgree, PTL DEF StagedInv

\* Results and outputs correspond one to one in each revision, across retries and
\* republications.
THEOREM ResultsAndOutputsMatch == Spec => []ResultsMatchOutputs
BY StagedTablesAgree, PTL DEF StagedInv, ResultsMatchOutputs

-----------------------------------------------------------------------------
(***************************************************************************)
(* Late callers                                                            *)
(***************************************************************************)

\* Only the second half of SaveStepArtifact registers an artifact.
LEMMA ArtifactStep ==
    ASSUME [Next]_vars
    PROVE  \A x \in artifacts' \ artifacts : Live(x[1], x[2])
<1>1. ASSUME artifacts' = artifacts PROVE \A x \in artifacts' \ artifacts : Live(x[1], x[2])
  BY <1>1
<1>2. ASSUME NEW j \in Job, WorkflowStep(j) \/ LegacyStep(j) PROVE artifacts' = artifacts
  BY <1>2 DEF WorkflowStep, SubmitStaged, AppendSteps, SupersedeJobRevision, SetPaused, Cancel,
              PublishValidatedResult, PublishResultEvent, LegacyStep, stagedVars, artifactVars
<1>3. ASSUME NEW s \in Step, NEW a \in 0..AttemptBound, EndSaveArtifact(s, a)
      PROVE  \A x \in artifacts' \ artifacts : Live(x[1], x[2])
  BY <1>3 DEF EndSaveArtifact, Inserted
<1>4. ASSUME NEW s \in Step, ExecutionStep(s), artifacts' # artifacts
      PROVE  \E a \in 0..AttemptBound : EndSaveArtifact(s, a)
  BY <1>4 DEF ExecutionStep, ReadyStep, ApproveStep, ClaimStep, RetryStep, BeginSaveArtifact,
              CompleteStep, artifactVars
<1>5. ASSUME NEW e \in results, DeliveryStep(e) PROVE artifacts' = artifacts
  BY <1>5 DEF DeliveryStep, MarkResultDelivery, ReconcileAbandonedResultSend,
              ResolveUnconfirmedResult, SetDelivery, artifactVars
<1>6. ASSUME RecoverInterruptedSteps PROVE artifacts' = artifacts
  BY <1>6 DEF RecoverInterruptedSteps, artifactVars
<1>7. ASSUME UNCHANGED stagedVars \/ UNCHANGED vars PROVE artifacts' = artifacts
  BY <1>7 DEF vars, stagedVars, artifactVars
<1> QED BY <1>1, <1>2, <1>3, <1>4, <1>5, <1>6, <1>7 DEF Next

\* A consumer moves no delivered event, delivers only results of the current revision, and of
\* the others only repeats a failed one.
LEMMA DeliveryStepFacts ==
    ASSUME StagedInv, NEW e \in results, DeliveryStep(e)
    PROVE  \E d \in DeliveryStatus :
               /\ SetDelivery(e, d)
               /\ e.delivery # "delivered"
               /\ e.revision = revision[JobOf[e.step]] \/ e.delivery = "failed"
               /\ d = "delivered" => e.revision = revision[JobOf[e.step]]
<1>1. /\ e.delivery \in DeliveryStatus
      /\ e.delivery = "sending" => e.revision = revision[JobOf[e.step]]
  BY DEF StagedInv, TypeOK, Result, SendingIsCurrentRevision
<1>2. ASSUME NEW d \in DeliveryStatus, MarkResultDelivery(e, d)
      PROVE  /\ SetDelivery(e, d)
             /\ e.delivery # "delivered"
             /\ e.revision = revision[JobOf[e.step]] \/ e.delivery = "failed"
             /\ d = "delivered" => e.revision = revision[JobOf[e.step]]
  BY <1>1, <1>2 DEF MarkResultDelivery, MayLeaveAvailable, AllowedDeliveryTransition, DeliveryStatus
<1>3. ASSUME ReconcileAbandonedResultSend(e)
      PROVE  SetDelivery(e, "unconfirmed") /\ e.delivery # "delivered" /\ e.revision = revision[JobOf[e.step]]
  BY <1>3 DEF ReconcileAbandonedResultSend
<1>4. ASSUME NEW d \in DeliveryStatus, ResolveUnconfirmedResult(e, d)
      PROVE  SetDelivery(e, d) /\ e.delivery # "delivered" /\ e.revision = revision[JobOf[e.step]]
  BY <1>4 DEF ResolveUnconfirmedResult
<1>5. "unconfirmed" \in DeliveryStatus
  BY DEF DeliveryStatus
<1> QED BY <1>2, <1>3, <1>4, <1>5 DEF DeliveryStep

\* What becomes of the result events in a step: one is added, or one that is not the
\* business of a superseded request changes its delivery status.
LEMMA ResultStep ==
    ASSUME StagedInv, [Next]_vars
    PROVE  \/ results' = results
           \/ \E s \in Validate : PublishResultEvent(s)
           \/ \E e \in results, d \in DeliveryStatus :
                 /\ SetDelivery(e, d)
                 /\ e.delivery # "delivered"
                 /\ e.revision = revision[JobOf[e.step]] \/ e.delivery = "failed"
<1>1. ASSUME NEW j \in Job, WorkflowStep(j) \/ LegacyStep(j)
      PROVE  results' = results \/ \E s \in Validate : PublishResultEvent(s)
  BY <1>1 DEF WorkflowStep, SubmitStaged, AppendSteps, SupersedeJobRevision, SetPaused, Cancel,
              PublishValidatedResult, LegacyStep, stagedVars
<1>2. ASSUME NEW s \in Step, ExecutionStep(s) PROVE results' = results
  BY <1>2 DEF ExecutionStep, ReadyStep, ApproveStep, ClaimStep, RetryStep, BeginSaveArtifact,
              EndSaveArtifact, CompleteStep
<1>3. ASSUME NEW e \in results, DeliveryStep(e)
      PROVE  \E d \in DeliveryStatus :
                 /\ SetDelivery(e, d)
                 /\ e.delivery # "delivered"
                 /\ e.revision = revision[JobOf[e.step]] \/ e.delivery = "failed"
  BY <1>3, DeliveryStepFacts
<1>4. ASSUME RecoverInterruptedSteps PROVE results' = results
  BY <1>4 DEF RecoverInterruptedSteps
<1>5. ASSUME UNCHANGED stagedVars \/ UNCHANGED vars PROVE results' = results
  BY <1>5 DEF vars, stagedVars
<1> QED BY <1>1, <1>2, <1>3, <1>4, <1>5 DEF Next

\* No consumer moves the result of a superseded request, unless to repeat a failed one.
LEMMA StaleResultStep ==
    ASSUME StagedInv, [Next]_vars, NEW e \in results,
           e.revision < revision[JobOf[e.step]], e.delivery # "failed"
    PROVE  e \in results'
<1>1. e.revision # revision[JobOf[e.step]]
  BY StepFacts DEF StagedInv, TypeOK, Result
<1>2. CASE \E s \in Validate : PublishResultEvent(s)
  BY <1>2 DEF PublishResultEvent
<1>3. CASE \E f \in results, d \in DeliveryStatus :
              /\ SetDelivery(f, d)
              /\ f.delivery # "delivered"
              /\ f.revision = revision[JobOf[f.step]] \/ f.delivery = "failed"
  BY <1>1, <1>3 DEF SetDelivery
<1> QED BY <1>2, <1>3, ResultStep

\* A child whose attempt has ended registers no artifact, and no consumer moves the result
\* of a superseded request towards the conversation.
THEOREM LateCallersAreHarmless == Spec => LateCallersChangeNothing
<1>1. StagedInv /\ [Next]_vars => [\A x \in artifacts' \ artifacts : Live(x[1], x[2])]_vars
  BY ArtifactStep
<1>2. StagedInv /\ [Next]_vars =>
          [\A e \in results :
              e.revision < revision[JobOf[e.step]] /\ e.delivery # "failed" => e \in results']_vars
  BY StaleResultStep
<1> QED BY <1>1, <1>2, StagedTablesAgree, PTL
        DEF Spec, LateCallersChangeNothing, ArtifactsOfLiveAttempts, StaleResultIsFrozen

-----------------------------------------------------------------------------
(***************************************************************************)
(* The completion of a job through its steps                               *)
(***************************************************************************)

\* The job completed without an execution of its own.
CompletedByItsSteps(j) == status[j] = "completed" /\ attempts[j] = <<>>

\* The event whose delivery completed the job is still of the current revision, and it is the
\* one of the only "validate" step: that step has nothing left to publish.
Settled(j) ==
    /\ AllStepsCompleted(j)
    /\ \A e \in ResultsOf(j, results) : e.delivery = "delivered"
    /\ \E e \in ResultsOf(j, results) : e.revision = revision[j]

\* Only the output of "validate" is ever published.
ResultsAreValidated == \A e \in results : e.step \in Validate

HandedOffInv ==
    /\ StagedInv
    /\ ResultsAreValidated
    /\ \A j \in Job : CompletedByItsSteps(j) => Settled(j)

\* Nothing of job j moves, as far as its completion is concerned.
JobRowsKept(j) ==
    /\ \A s \in Step : JobOf[s] = j => stepState'[s] = stepState[s]
    /\ ResultsOf(j, results') = ResultsOf(j, results)
    /\ revision'[j] = revision[j]

LEMMA SettledKept ==
    ASSUME NEW j \in Job, Settled(j), JobRowsKept(j)
    PROVE  Settled(j)'
<1>1. AllStepsCompleted(j)'
  BY DEF Settled, JobRowsKept, AllStepsCompleted, StepsOf
<1>2. /\ \A e \in ResultsOf(j, results') : e.delivery = "delivered"
      /\ \E e \in ResultsOf(j, results') : e.revision = revision'[j]
  BY DEF Settled, JobRowsKept
<1> QED BY <1>1, <1>2 DEF Settled, ResultsOf

\* The queue completes a job only with an attempt to show for it.
LEMMA QueueCompletesAttempts ==
    ASSUME QueueInv, NEW j \in Job, QueueStep(j), NEW i \in Job, CompletedByItsSteps(i)'
    PROVE  CompletedByItsSteps(i)
<1>1. \/ status[j] = "completed" /\ attempts[j] = <<>>
      \/ ~(status'[j] = "completed" /\ attempts'[j] = <<>>)
  <2>1. attempts[j] \in Seq(AttemptStatus) /\ Len(attempts[j]) \in Nat /\ current[j] = Len(attempts[j])
        /\ Len(<<>>) = 0
    BY LengthsAreNatural, EmptySeq DEF QueueInv, CurrentIsLatest
  <2>2. CASE StartAttempt(j)
    <3>1. status'[j] = "running"
      BY <2>2 DEF StartAttempt, QueueInv, QueueTypeOK
    <3> QED BY <3>1
  <2>3. CASE ExhaustBudget(j)
    BY <2>3 DEF ExhaustBudget, QueueInv, QueueTypeOK
  <2>4. ASSUME NEW a \in 1..MaxAttempts, NEW outcome \in Outcome, FinishAttempt(j, a, outcome)
        PROVE  attempts'[j] # <<>>
    <3>1. attempts'[j] = [attempts[j] EXCEPT ![a] = IF @ = "running" THEN EndedAs(FinalStatus(a, outcome)) ELSE @]
          /\ a \in 1..Len(attempts[j])
      BY <2>1, <2>4 DEF FinishAttempt, QueueInv, QueueTypeOK
    <3>2. DOMAIN attempts'[j] = DOMAIN attempts[j] /\ DOMAIN attempts[j] = 1..Len(attempts[j])
      BY <3>1, <2>1, LenProperties
    <3>3. a \in DOMAIN attempts'[j] /\ DOMAIN <<>> = {}
      BY <3>1, <3>2
    <3> QED BY <3>3
  <2>5. CASE RetryDelayElapses(j)
    BY <2>5 DEF RetryDelayElapses
  <2>6. CASE \E answered \in BOOLEAN : Resume(j, answered)
    BY <2>6 DEF Resume, QueueInv, QueueTypeOK
  <2>7. CASE RecoverInterrupted(j)
    BY <2>7 DEF RecoverInterrupted, RecoveredStatus, QueueInv, QueueTypeOK
  <2>8. ASSUME NEW a \in 1..MaxAttempts, NEW st \in JobStatus, CompletePublication(j, a, st)
        PROVE  attempts'[j] # <<>>
    <3>1. attempts'[j] = attempts[j]
      BY <2>8 DEF CompletePublication
    <3>2. current[j] # 0
      <4>1. current[j] = a
        BY <2>8 DEF CompletePublication
      <4>2. a # 0
        BY <2>8
      <4> QED BY <4>1, <4>2
    <3>3. attempts[j] # <<>>
      BY <3>2, EmptySeq DEF QueueInv, CurrentIsLatest
    <3> QED BY <3>1, <3>3
  <2>9. CASE \E a \in 1..MaxAttempts, outcome \in Outcome : FinishAttempt(j, a, outcome)
    BY <2>4, <2>9
  <2>10. CASE \E a \in 1..MaxAttempts, st \in JobStatus : CompletePublication(j, a, st)
    BY <2>8, <2>10
  <2> QED BY <2>2, <2>3, <2>5, <2>6, <2>7, <2>9, <2>10 DEF QueueStep
<1>2. CASE i = j
  BY <1>1, <1>2 DEF CompletedByItsSteps
<1>3. CASE i # j
  <2>1. status'[i] = status[i] /\ attempts'[i] = attempts[i]
    BY <1>3, OtherJobsAreQuiet
  <2> QED BY <2>1 DEF CompletedByItsSteps
<1> QED BY <1>2, <1>3

\* A transaction of the store either leaves a job completed by its steps as it was, or
\* completes it with the delivery of its last result.
LEMMA CompletionStep ==
    ASSUME HandedOffInv, [Next]_vars, NEW i \in Job, CompletedByItsSteps(i)'
    PROVE  Settled(i)'
<1>1. /\ StagedInv /\ QueueInv
      /\ \A e \in results : e.step \in Step /\ JobOf[e.step] \in Job
      /\ CompletedByItsSteps(i) => Settled(i)
      /\ status \in [Job -> JobStatus] /\ attempts \in [Job -> Seq(AttemptStatus)]
  BY StepFacts DEF HandedOffInv, StagedInv, TypeOK, Result, QueueTypeOK
<1>2. ASSUME CompletedByItsSteps(i), JobRowsKept(i) PROVE Settled(i)'
  BY <1>1, <1>2, SettledKept
<1>3. ASSUME NEW j \in Job,
             SubmitStaged(j) \/ Cancel(j) \/ (\E new \in SUBSET Step : AppendSteps(j, new))
             \/ (\E next \in 1..RevisionBound : SupersedeJobRevision(j, next))
             \/ (\E p \in BOOLEAN : SetPaused(j, p))
      PROVE  CompletedByItsSteps(i) /\ JobRowsKept(i)
  <2>1. CASE SubmitStaged(j)
    BY <1>1, <2>1 DEF SubmitStaged, CompletedByItsSteps, JobRowsKept, StagedInv, TypeOK
  <2>2. CASE Cancel(j)
    <3>1. i # j
      BY <1>1, <2>2 DEF Cancel, CancelJob, CompletedByItsSteps
    <3> QED BY <1>1, <2>2, <3>1 DEF Cancel, CancelJob, CompletedByItsSteps, JobRowsKept, flowVars
  <2>3. CASE \E new \in SUBSET Step : AppendSteps(j, new)
    BY <1>1, <2>3 DEF AppendSteps, CompletedByItsSteps, JobRowsKept, flowVars, queueVars
  <2>4. CASE \E next \in 1..RevisionBound : SupersedeJobRevision(j, next)
    BY <1>1, <2>4 DEF SupersedeJobRevision, CompletedByItsSteps, JobRowsKept, queueVars, StagedInv, TypeOK
  <2>5. CASE \E p \in BOOLEAN : SetPaused(j, p)
    BY <1>1, <2>5 DEF SetPaused, CompletedByItsSteps, JobRowsKept, stepVars, queueVars
  <2> QED BY <1>3, <2>1, <2>2, <2>3, <2>4, <2>5
<1>4. ASSUME NEW s \in Step, ExecutionStep(s) PROVE CompletedByItsSteps(i) /\ JobRowsKept(i)
  <2>1. UNCHANGED <<status, attempts, revision, results>>
    <3>1. UNCHANGED <<queueVars, flowVars, results>>
      BY <1>4 DEF ExecutionStep, ReadyStep, ApproveStep, ClaimStep, RetryStep, BeginSaveArtifact,
                  EndSaveArtifact, CompleteStep
    <3> QED BY <3>1 DEF queueVars, flowVars
  <2>2. \A t \in Step : \/ stepState'[t] = stepState[t]
                        \/ t = s /\ status[JobOf[s]] = "staged"
    <3>1. \/ UNCHANGED stepState
          \/ status[JobOf[s]] = "staged" /\ \E st : stepState' = [stepState EXCEPT ![s] = st]
      BY <1>4 DEF ExecutionStep, ReadyStep, ApproveStep, ClaimStep, RetryStep, BeginSaveArtifact,
                  EndSaveArtifact, CompleteStep, stepVars, Open
    <3>2. stepState \in [Step -> StepState]
      BY <1>1 DEF StagedInv, TypeOK
    <3>3. CASE UNCHANGED stepState
      BY <3>3
    <3>4. ASSUME status[JobOf[s]] = "staged", NEW st, stepState' = [stepState EXCEPT ![s] = st]
          PROVE  \A t \in Step : stepState'[t] = stepState[t] \/ t = s
      BY <3>2, <3>4
    <3> QED BY <3>1, <3>3, <3>4
  <2>3. CompletedByItsSteps(i) /\ status[i] = "completed"
    BY <2>1 DEF CompletedByItsSteps
  <2>4. \A t \in Step : JobOf[t] = i => stepState'[t] = stepState[t]
    BY <2>2, <2>3
  <2>5. ResultsOf(i, results') = ResultsOf(i, results)
    BY <2>1 DEF ResultsOf
  <2> QED BY <2>1, <2>3, <2>4, <2>5 DEF JobRowsKept
<1>5. ASSUME RecoverInterruptedSteps PROVE CompletedByItsSteps(i) /\ JobRowsKept(i)
  <2>1. CompletedByItsSteps(i) /\ UNCHANGED <<revision, results>>
    BY <1>5 DEF RecoverInterruptedSteps, CompletedByItsSteps, queueVars, flowVars
  <2>2. \A t \in Step : JobOf[t] = i => stepState[t] # "running"
    BY <1>1, <2>1 DEF CompletedByItsSteps, StagedInv, ClosedJobHasNoWork
  <2> QED BY <1>5, <2>1, <2>2 DEF RecoverInterruptedSteps, JobRowsKept
<1>6. ASSUME NEW j \in Job, LegacyStep(j) PROVE CompletedByItsSteps(i) /\ JobRowsKept(i)
  BY <1>1, <1>6, QueueCompletesAttempts DEF LegacyStep, JobRowsKept, stagedVars, flowVars, stepVars
<1>7. ASSUME UNCHANGED stagedVars, UNCHANGED <<status, attempts>>
      PROVE  CompletedByItsSteps(i) /\ JobRowsKept(i)
  BY <1>7 DEF CompletedByItsSteps, JobRowsKept, stagedVars, flowVars, stepVars
<1>8. ASSUME NEW s \in Validate, PublishResultEvent(s) PROVE CompletedByItsSteps(i) /\ JobRowsKept(i)
  <2>1. UNCHANGED <<status, attempts, revision, stepState>> /\ s \in Step
    BY <1>8, WorkflowAssumption DEF PublishResultEvent, queueVars, flowVars, stepVars
  <2>2. CompletedByItsSteps(i)
    BY <2>1 DEF CompletedByItsSteps
  <2>3. JobOf[s] # i
    <3> SUFFICES ASSUME JobOf[s] = i PROVE FALSE
      OBVIOUS
    <3>1. PICK e \in results : JobOf[e.step] = i /\ e.revision = revision[i]
      BY <1>1, <2>2 DEF Settled, ResultsOf
    <3>2. e.step = s
      BY <3>1, WorkflowAssumption DEF HandedOffInv, ResultsAreValidated
    <3>3. e.artifact = output[s]
      BY <1>1, <3>2 DEF StagedInv, ResultIsTheOutput
    <3> QED BY <1>8, <3>1, <3>2, <3>3 DEF PublishResultEvent, Published
  <2>4. ResultsOf(i, results') = ResultsOf(i, results)
    BY <1>8, <2>3 DEF PublishResultEvent, ResultsOf
  <2> QED BY <2>1, <2>2, <2>4 DEF JobRowsKept
<1>9. ASSUME NEW e \in results, DeliveryStep(e) PROVE Settled(i)'
  <2>1. PICK d \in DeliveryStatus : /\ SetDelivery(e, d)
                                    /\ e.delivery # "delivered"
                                    /\ d = "delivered" => e.revision = revision[JobOf[e.step]]
    BY <1>1, <1>9, DeliveryStepFacts
  <2> DEFINE j == JobOf[e.step]
             new == [e EXCEPT !.delivery = d]
  <2>2. new.step = e.step /\ new.revision = e.revision /\ new.delivery = d
    BY DEF StagedInv, HandedOffInv, TypeOK, Result
  <2>3. /\ results' = (results \ {e}) \cup {new}
        /\ UNCHANGED <<attempts, revision, stepState>>
        /\ \/ status' = status
           \/ d = "delivered" /\ HandedOff(j, results') /\ status' = [status EXCEPT ![j] = "completed"]
    BY <2>1 DEF SetDelivery, CompleteDeliveredJob, flowVars, stepVars
  <2> HIDE DEF new
  <2>4. CASE CompletedByItsSteps(i)
    <3>1. j # i
      BY <1>1, <2>1, <2>4 DEF Settled, ResultsOf
    <3>2. ResultsOf(i, results') = ResultsOf(i, results)
      BY <2>2, <2>3, <3>1 DEF ResultsOf
    <3> QED BY <1>2, <2>3, <2>4, <3>2 DEF JobRowsKept
  <2>5. CASE ~CompletedByItsSteps(i)
    <3>1. status'[i] # status[i]
      BY <2>3, <2>5 DEF CompletedByItsSteps
    <3>2. i = j /\ d = "delivered" /\ HandedOff(i, results')
      BY <1>1, <2>3, <3>1
    <3>3. AllStepsCompleted(i)' /\ \A f \in ResultsOf(i, results') : f.delivery = "delivered"
      BY <2>3, <3>2 DEF HandedOff, AllStepsCompleted, StepsOf
    <3>4. new \in ResultsOf(i, results') /\ new.revision = revision'[i]
      BY <2>1, <2>2, <2>3, <3>2 DEF ResultsOf
    <3> QED BY <3>3, <3>4 DEF Settled, ResultsOf
  <2> QED BY <2>4, <2>5
<1>10. ASSUME NEW n \in 1..MaxAttempts, Reconfigure(n), UNCHANGED stagedVars PROVE Settled(i)'
  BY <1>2, <1>7, <1>10 DEF Reconfigure
<1>11. ASSUME UNCHANGED vars PROVE Settled(i)'
  BY <1>2, <1>7, <1>11 DEF vars, queueVars
<1>12. ASSUME NEW j \in Job, WorkflowStep(j) PROVE Settled(i)'
  BY <1>2, <1>3, <1>8, <1>12 DEF WorkflowStep, PublishValidatedResult
<1> QED BY <1>2, <1>4, <1>5, <1>6, <1>9, <1>10, <1>11, <1>12 DEF Next

LEMMA HandedOffStep ==
    ASSUME HandedOffInv, [Next]_vars
    PROVE  HandedOffInv'
<1>1. StagedInv /\ StagedInv'
  BY NextStagedInv DEF HandedOffInv
<1>2. ResultsAreValidated'
  <2>1. ASSUME NEW s \in Validate, PublishResultEvent(s) PROVE ResultsAreValidated'
    BY <2>1 DEF PublishResultEvent, HandedOffInv, ResultsAreValidated
  <2>2. ASSUME NEW e \in results, NEW d \in DeliveryStatus, SetDelivery(e, d) PROVE ResultsAreValidated'
    <3>1. [e EXCEPT !.delivery = d].step = e.step
      BY <1>1 DEF StagedInv, TypeOK, Result
    <3> QED BY <2>2, <3>1 DEF SetDelivery, HandedOffInv, ResultsAreValidated
  <2>3. ASSUME results' = results PROVE ResultsAreValidated'
    BY <2>3 DEF HandedOffInv, ResultsAreValidated
  <2> QED BY <1>1, <2>1, <2>2, <2>3, ResultStep
<1> QED BY <1>1, <1>2, CompletionStep DEF HandedOffInv

LEMMA HandedOffInit == Init => HandedOffInv
BY InitStagedInv DEF Init, QueueInit, HandedOffInv, ResultsAreValidated, CompletedByItsSteps

LEMMA HandedOffJobs == HandedOffInv => CompletedMeansHandedOff
BY StepFacts DEF HandedOffInv, CompletedMeansHandedOff, CompletedByItsSteps, Settled

\* The results of a job come from its validation steps, and a job that its steps have
\* completed has handed over all of them (PublishValidatedResult, CompleteStep).
THEOREM HandOffsAgree == Spec => []HandedOffInv
BY HandedOffInit, HandedOffStep, PTL DEF Spec

\* A job that completes through its steps has completed all of them and handed over every
\* result, and nothing is published for it afterwards.
THEOREM CompletedJobsAreHandedOff == Spec => []CompletedMeansHandedOff
BY HandedOffJobs, HandOffsAgree, PTL
=============================================================================
