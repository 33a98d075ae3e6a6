----------------------------- MODULE Schedules -----------------------------
(***************************************************************************)
(* Schedules and what they collect, internal/schedule with                 *)
(* internal/store/{schedule,acquisition}.go.  Manager.Step, called by the  *)
(* controller when no job is eligible, looks at the schedules in their     *)
(* order: it follows the job of the last occurrence, begins the next       *)
(* occurrence when it is due and the last one is settled, and collects for *)
(* one of them: an attempt is counted, the provider is read into an        *)
(* acquisition, the acquisition becomes a job, and the occurrence is       *)
(* linked to the job, each with a write of its own.  The process may end   *)
(* between any two of them.  A person's commands hold the same lock.       *)
(*                                                                         *)
(* An acquisition is known here by its status; the modules                 *)
(* GmailAcquisition and JiraAcquisition have what is in it.  The clock     *)
(* moves forward only.  A definition marked "Variant" is a plausible slip  *)
(* in the one after it.                                                    *)
(***************************************************************************)
EXTENDS Naturals, Sequences, FiniteSetsExt

CONSTANTS
    ScheduleCount,      \* schedules are numbered in the order Step takes them
    Interval,           \* the interval of each
    JiraSchedule,       \* the schedules of a Jira connection; the others are Gmail
    CollectionBudget,   \* Limits.MaxAttempts
    RetryDelay,         \* how long a provider asks to wait
    ClockBound,         \* bound on the time
    OccurrenceBound,    \* bound on occurrences
    TroubleBound,       \* bound on failures of providers and writes, and on ends of the process
    PersonBound         \* bound on what a person does

Scheduled == 1..ScheduleCount

ASSUME ScheduleAssumption ==
    /\ {ScheduleCount, CollectionBudget, RetryDelay, ClockBound, OccurrenceBound, TroubleBound,
        PersonBound} \subseteq Nat
    /\ Interval \in [Scheduled -> Nat \ {0}]
    /\ JiraSchedule \subseteq Scheduled

VARIABLES
    clock,
    scheduleOn,     \* schedules.enabled
    dueAt,          \* next_run_at
    occurrences,    \* schedule_ticks, in the order in which they were begun
    acquired,       \* the acquisitions, by identity
    admitted,       \* the jobs of acquisitions, in the order of their submission
    queuePaused,    \* the setting queue_paused
    step,           \* the collection under way: the write to come, the occurrence, and the
                    \* acquisition in memory
    reads,          \* how often the controller read the provider for an occurrence
    troubles, persons

scheduleVars == <<clock, scheduleOn, dueAt, occurrences, acquired, admitted, queuePaused, step,
                  reads, troubles, persons>>

\* The identity of an acquisition is reserved by its occurrence; those a person
\* collects have one of their own.
Reserved == 1..OccurrenceBound
ByPerson == OccurrenceBound + 1
AcquisitionId == Reserved \cup {ByPerson}
Unread == [status |-> "none", parent |-> 0, more |-> FALSE, wait |-> 0, job |-> 0]
Available == {"collected", "partial"}
Settled == {"done", "skipped"}
Resting == [at |-> "none", of |-> 0, reads |-> 0]

ScheduleInit ==
    /\ clock = 0
    /\ scheduleOn = [s \in Scheduled |-> TRUE]
    /\ dueAt = [s \in Scheduled |-> Interval[s]]        \* AddSchedule
    /\ occurrences = <<>>
    /\ acquired = [a \in AcquisitionId |-> Unread]
    /\ admitted = <<>>
    /\ queuePaused = FALSE
    /\ step = Resting
    /\ reads = [o \in Reserved |-> 0]
    /\ troubles = 0 /\ persons = 0

NoCollection == step = Resting
Trouble == troubles < TroubleBound /\ troubles' = troubles + 1
ByHand == NoCollection /\ persons < PersonBound /\ persons' = persons + 1
OfSchedule(s) == {o \in DOMAIN occurrences : occurrences[o].schedule = s}
Newest(s) == Max(OfSchedule(s))
JobsOf(a) == {j \in DOMAIN admitted : admitted[j].acquisition = a}

Tick ==
    /\ clock < ClockBound
    /\ clock' = clock + 1
    /\ UNCHANGED <<scheduleOn, dueAt, occurrences, acquired, admitted, queuePaused, step, reads,
                   troubles, persons>>

\* The job of an acquisition ends with a report, or is stopped.
JobEnds ==
    /\ NoCollection
    /\ \E j \in DOMAIN admitted :
          /\ admitted[j].state = "open"
          /\ \/ admitted' = [admitted EXCEPT ![j].state = "available"] /\ UNCHANGED troubles
             \/ admitted' = [admitted EXCEPT ![j].state = "stopped"] /\ Trouble
    /\ UNCHANGED <<clock, scheduleOn, dueAt, occurrences, acquired, queuePaused, step, reads, persons>>

\* A person retries a job that stopped, or purges one.
JobByHand ==
    /\ ByHand
    /\ \E j \in DOMAIN admitted :
          \/ admitted[j].state = "stopped" /\ admitted' = [admitted EXCEPT ![j].state = "open"]
          \/ admitted[j].state = "available" /\ admitted' = [admitted EXCEPT ![j].state = "stopped"]
    /\ UNCHANGED <<clock, scheduleOn, dueAt, occurrences, acquired, queuePaused, step, reads, troubles>>

----------------------------------------------------------------------------
(* Manager.Step.                                                           *)

\* An occurrence follows its job.
Following(o) ==
    IF o.job = 0 \/ o.status \in Settled THEN o
    ELSE [o EXCEPT !.status = CASE admitted[o.job].state = "available" -> "done"
                                [] admitted[o.job].state = "open" -> "linked"
                                [] OTHER -> "blocked"]

LastOf(s) == Following(occurrences[Newest(s)])
Unsettled(s) == OfSchedule(s) # {} /\ LastOf(s).status \notin Settled

Recollects(s) ==
    /\ scheduleOn[s] /\ Unsettled(s)
    /\ LastOf(s).job = 0 /\ LastOf(s).status \in {"pending", "retry_wait"} /\ LastOf(s).wait <= clock

Begins(s) == scheduleOn[s] /\ ~Unsettled(s) /\ dueAt[s] <= clock

Acts(s) == Recollects(s) \/ Begins(s)

\* The occurrences of the enabled schedules up to s follow their jobs.
Followed(s) ==
    [o \in DOMAIN occurrences |->
        LET t == occurrences[o].schedule
        IN  IF t <= s /\ scheduleOn[t] /\ o = Newest(t) THEN Following(occurrences[o]) ELSE occurrences[o]]

Follow ==
    /\ NoCollection /\ ~queuePaused
    /\ \A s \in Scheduled : ~Acts(s)
    /\ occurrences' = Followed(ScheduleCount)
    /\ UNCHANGED <<clock, scheduleOn, dueAt, acquired, admitted, queuePaused, step, reads, troubles,
                   persons>>

\* The next time in the grid after now, and how many were passed over.
NextIntervalVariant(s) ==
    LET steps == (clock - dueAt[s]) \div Interval[s] + 1
    IN  [next |-> clock + Interval[s], missed |-> steps - 1]

NextInterval(s) ==
    LET steps == (clock - dueAt[s]) \div Interval[s] + 1
    IN  [next |-> dueAt[s] + steps * Interval[s], missed |-> steps - 1]

\* A page that is left at Gmail is taken by the next occurrence.
Continues(s) ==
    IF /\ s \notin JiraSchedule /\ OfSchedule(s) # {}
       /\ LastOf(s).status = "done" /\ LastOf(s).job # 0 /\ acquired[LastOf(s).acquisition].more
    THEN LastOf(s).acquisition ELSE 0

Begun(s) ==
    [schedule |-> s, for |-> dueAt[s], at |-> clock, missed |-> NextInterval(s).missed,
     acquisition |-> Len(occurrences) + 1, continues |-> Continues(s), job |-> 0,
     status |-> "pending", wait |-> 0, attempts |-> 0]

StepSchedules ==
    /\ NoCollection /\ ~queuePaused
    /\ \E s \in Scheduled :
          /\ Acts(s) /\ \A t \in 1..(s - 1) : ~Acts(t)
          /\ \/ /\ Recollects(s)
                /\ occurrences' = Followed(s)
                /\ step' = [at |-> "check", of |-> Newest(s),
                            reads |-> occurrences[Newest(s)].acquisition]
                /\ UNCHANGED dueAt
             \/ /\ Begins(s) /\ Len(occurrences) < OccurrenceBound
                /\ occurrences' = Append(Followed(s), Begun(s))
                /\ dueAt' = [dueAt EXCEPT ![s] = NextInterval(s).next]
                /\ step' = [at |-> "check", of |-> Len(occurrences) + 1, reads |-> Len(occurrences) + 1]
    /\ UNCHANGED <<clock, scheduleOn, acquired, admitted, queuePaused, reads, troubles, persons>>

----------------------------------------------------------------------------
(* Manager.collect and collectJira, one write after the other.             *)

Current == occurrences[step.of]
Jira == Current.schedule \in JiraSchedule
Goes(to) == step' = [step EXCEPT !.at = to]

\* persist: the occurrence is saved and the step is over.
Saves(o) ==
    /\ occurrences' = [occurrences EXCEPT ![step.of] = [o EXCEPT !.acquisition = step.reads]]
    /\ step' = Resting

\* The connection, what is there already, and the budget.
CheckCollection ==
    /\ step.at = "check"
    /\ LET there == acquired[Current.acquisition].status \in Available
       IN  \/ /\ there /\ Goes("queue")
              /\ UNCHANGED <<occurrences, troubles>>
           \/ /\ ~there /\ Current.attempts >= CollectionBudget
              /\ Saves([Current EXCEPT !.status = "blocked"])
              /\ UNCHANGED troubles
           \/ /\ ~there /\ Current.attempts < CollectionBudget
              /\ occurrences' = [occurrences EXCEPT ![step.of].attempts = @ + 1]
              /\ Goes("read")
              /\ UNCHANGED troubles
           \/ /\ Trouble    \* no connection, or its timezone changed
              /\ \E status \in {"waiting_auth", "blocked"} : Saves([Current EXCEPT !.status = status])
    /\ UNCHANGED <<clock, scheduleOn, dueAt, acquired, admitted, queuePaused, reads, persons>>

\* The acquisition that is read: for Gmail the one that continues the page, if
\* there is one already.
Continuation(page) == {a \in AcquisitionId : page # 0 /\ acquired[a].parent = page}

Target ==
    IF ~Jira /\ Continuation(Current.continues) # {} THEN Min(Continuation(Current.continues))
    ELSE Current.acquisition

\* What is on disk after a read of the provider, and whether it succeeded.
Reading(a, page) ==
    LET was == [acquired[a] EXCEPT !.parent = IF @ = 0 THEN page ELSE @, !.wait = 0]
        ok(status, more) == [of |-> [was EXCEPT !.status = status, !.more = more], fine |-> TRUE]
        bad(status, wait) == [of |-> [was EXCEPT !.status = status, !.wait = wait], fine |-> FALSE]
    IN  [sound |-> {ok("collected", FALSE), ok("partial", FALSE), ok("partial", TRUE)},
         poor |-> {bad("retry_wait", clock + RetryDelay), bad("waiting_auth", 0), bad("failed", 0),
                   bad("collecting", 0)}]

\* How a failed read leaves the occurrence.
Failing(status) ==
    CASE status = "retry_wait" /\ (Jira \/ Current.attempts < CollectionBudget) -> "retry_wait"
      [] status = "waiting_auth" -> "waiting_auth"
      [] OTHER -> "blocked"

ReadProvider ==
    /\ step.at = "read"
    /\ LET a == Target
           kept == [of |-> acquired[a], fine |-> acquired[a].status \in Available]
       IN  \E result \in IF acquired[a].status \in Available \/ acquired[a].wait > clock THEN {kept}
                         ELSE Reading(a, Current.continues).sound \cup Reading(a, Current.continues).poor :
             /\ acquired' = [acquired EXCEPT ![a] = result.of]
             /\ result.of.status = "waiting_auth" => ~Jira
             /\ result.of.more => ~Jira
             /\ IF result.fine \/ result = kept THEN UNCHANGED troubles ELSE Trouble
             /\ reads' = [reads EXCEPT ![step.of] = @ + 1]
             /\ IF result.fine
                THEN step' = [at |-> "queue", of |-> step.of, reads |-> a] /\ UNCHANGED occurrences
                ELSE Saves([Current EXCEPT !.status = Failing(result.of.status), !.wait = result.of.wait])
    /\ UNCHANGED <<clock, scheduleOn, dueAt, admitted, queuePaused, persons>>

\* Queue: a job that was submitted for the acquisition is taken up again.
Admits(a) ==
    IF JobsOf(a) # {} THEN UNCHANGED admitted
    ELSE admitted' = Append(admitted, [acquisition |-> a, state |-> "open"])

Submit ==
    /\ step.at = "queue"
    /\ \/ Admits(step.reads) /\ Goes("note") /\ UNCHANGED <<occurrences, troubles>>
       \/ Trouble /\ Saves([Current EXCEPT !.status = "blocked"]) /\ UNCHANGED admitted
    /\ UNCHANGED <<clock, scheduleOn, dueAt, acquired, queuePaused, reads, persons>>

NoteJob ==
    /\ step.at = "note"
    /\ \/ /\ acquired' = [acquired EXCEPT ![step.reads].job = Min(JobsOf(step.reads))]
          /\ Goes("link") /\ UNCHANGED <<occurrences, troubles>>
       \/ Trouble /\ Saves([Current EXCEPT !.status = "blocked"]) /\ UNCHANGED acquired
    /\ UNCHANGED <<clock, scheduleOn, dueAt, admitted, queuePaused, reads, persons>>

Link ==
    /\ step.at = "link"
    /\ Saves([Current EXCEPT !.job = Min(JobsOf(step.reads)), !.status = "linked", !.wait = 0])
    /\ UNCHANGED <<clock, scheduleOn, dueAt, acquired, admitted, queuePaused, reads, troubles, persons>>

\* The process ends.
CollectionEnds ==
    /\ ~NoCollection /\ Trouble
    /\ step' = Resting
    /\ UNCHANGED <<clock, scheduleOn, dueAt, occurrences, acquired, admitted, queuePaused, reads, persons>>

----------------------------------------------------------------------------
(* What a person does, between steps.                                      *)

EnableSchedule ==
    /\ ByHand
    /\ \E s \in Scheduled : scheduleOn' = [scheduleOn EXCEPT ![s] = ~@]
    /\ UNCHANGED <<clock, dueAt, occurrences, acquired, admitted, queuePaused, step, reads, troubles>>

SetPaused ==
    /\ ByHand
    /\ queuePaused' = ~queuePaused
    /\ UNCHANGED <<clock, scheduleOn, dueAt, occurrences, acquired, admitted, step, reads, troubles>>

Retry ==
    /\ ByHand
    /\ \E o \in DOMAIN occurrences :
          /\ occurrences[o].job = 0 /\ occurrences[o].wait <= clock
          /\ occurrences[o].status \in {"blocked", "waiting_auth", "retry_wait"}
          /\ occurrences' = [occurrences EXCEPT ![o].status = "pending"]
    /\ UNCHANGED <<clock, scheduleOn, dueAt, acquired, admitted, queuePaused, step, reads, troubles>>

Acknowledge ==
    /\ ByHand
    /\ \E o \in DOMAIN occurrences :
          /\ occurrences[o].status \notin Settled
          /\ occurrences[o].job # 0 => admitted[occurrences[o].job].state # "open"
          /\ occurrences' = [occurrences EXCEPT ![o].status = "skipped"]
    /\ UNCHANGED <<clock, scheduleOn, dueAt, acquired, admitted, queuePaused, step, reads, troubles>>

\* "gmail collect --continue" (once, in an acquisition of its own) or "--resume".
CollectByHand ==
    /\ ByHand
    /\ \E a \in AcquisitionId :
          \E page \in IF a = ByPerson /\ acquired[a] = Unread
                      THEN {p \in AcquisitionId : acquired[p].more /\ Continuation(p) = {}}
                      ELSE IF acquired[a] = Unread \/ acquired[a].status \in Available THEN {}
                      ELSE {acquired[a].parent} :
          /\ acquired[a].wait <= clock
          /\ \E result \in Reading(a, page).sound \cup {r \in Reading(a, page).poor : r.of.status = "failed"} :
                acquired' = [acquired EXCEPT ![a] = result.of]
    /\ UNCHANGED <<clock, scheduleOn, dueAt, occurrences, admitted, queuePaused, step, reads, troubles>>

\* "gmail queue", "jira queue".
QueueByHand ==
    /\ ByHand
    /\ \E a \in AcquisitionId :
          /\ acquired[a].status \in Available
          /\ Admits(a)
          /\ acquired' = [acquired EXCEPT ![a].job =
                             IF JobsOf(a) = {} THEN Len(admitted) + 1 ELSE Min(JobsOf(a))]
    /\ UNCHANGED <<clock, scheduleOn, dueAt, occurrences, queuePaused, step, reads, troubles>>

ScheduleNext ==
    \/ Tick \/ JobEnds \/ JobByHand
    \/ Follow \/ StepSchedules \/ CheckCollection \/ ReadProvider \/ Submit \/ NoteJob \/ Link \/ CollectionEnds
    \/ EnableSchedule \/ SetPaused \/ Retry \/ Acknowledge \/ CollectByHand \/ QueueByHand

ScheduleSpec == ScheduleInit /\ [][ScheduleNext]_scheduleVars

----------------------------------------------------------------------------
ScheduleTypeOK ==
    /\ clock \in 0..ClockBound
    /\ Len(occurrences) <= OccurrenceBound
    /\ \A o \in DOMAIN occurrences :
          /\ occurrences[o].status \in {"pending", "retry_wait", "waiting_auth", "blocked", "linked"} \cup Settled
          /\ occurrences[o].job \in 0..Len(admitted)
    /\ step.of \in 0..Len(occurrences) /\ (step.at = "none") <=> (step.of = 0)

\* Every interval of a schedule is counted once, as an occurrence or as missed by
\* one, whenever the controller looks and however long an occurrence is open: the
\* grid of a schedule never drifts, and none is begun before its time.
IntervalsAreCounted ==
    \A s \in Scheduled :
        LET counted(o) == 1 + occurrences[o].missed
        IN  /\ \A o \in OfSchedule(s) :
                  /\ occurrences[o].for <= occurrences[o].at
                  /\ occurrences[o].at < occurrences[o].for + counted(o) * Interval[s]
                  /\ LET later == {p \in OfSchedule(s) : p > o}
                     IN  IF later = {} THEN dueAt[s] = occurrences[o].for + counted(o) * Interval[s]
                         ELSE occurrences[Min(later)].for = occurrences[o].for + counted(o) * Interval[s]

\* Wherever the process ends and whatever is retried, skipped, collected or queued
\* by hand: an acquisition becomes one job at most, which one occurrence follows
\* at most; a page is continued once; an occurrence reads its provider within the
\* budget; and a schedule has no two occurrences open.
OccurrencesAreDistinct ==
    /\ \A a \in AcquisitionId : Cardinality(JobsOf(a)) <= 1 /\ acquired[a].job \in JobsOf(a) \cup {0}
    /\ \A o, p \in DOMAIN occurrences :
          /\ o # p /\ occurrences[o].job # 0 => occurrences[o].job # occurrences[p].job
          /\ o < p /\ occurrences[o].schedule = occurrences[p].schedule => occurrences[o].status \in Settled
    /\ \A a, b \in AcquisitionId : a # b /\ acquired[a].parent # 0 => acquired[a].parent # acquired[b].parent
    /\ \A o \in DOMAIN occurrences : reads[o] <= CollectionBudget

\* Time is cut into intervals without gap or overlap, and each interval that was due is
\* collected for once, whatever restarts, clock steps and retries there were.
EachIntervalOnce == IntervalsAreCounted /\ OccurrencesAreDistinct
=============================================================================
