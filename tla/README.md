# Formal models of Chun-su

This directory holds TLA+ models of Chun-su, the personal work assistant in this
repository, the TLC configurations that check them on small instances, and proofs
checked by TLAPS. Every definition is translated from the Go code; `PROJECT.json`
names, for each definition, the lines it stands for.

## 1. Inventory of the system

Chun-su is a set of Go programs around one private data root: a SQLite database, a tree
of private files, advisory `flock` locks, and a Unix socket on which the one controller
process serves requests. An AI executor runs as a child process of the controller.

| Component (code) | State it keeps | Operations |
| --- | --- | --- |
| Job queue (`store/store.go`, `lifecycle.go`, `resume.go`, `publication.go`) | tables `jobs`, `attempts`, `events` | submit, start, finish, cancel, resume, recover, complete a publication |
| Staged workflow (`store/workflow.go`, `stagedworkflow`) | `workflow_jobs`, `workflow_steps`, `step_attempts`, `artifacts` and their files | submit, append, supersede, pause, ready, approve, claim, save artifact, complete, retry, recover, cancel |
| Result events (`store/result_events.go`) | `result_events` | publish, mark delivery, reconcile an abandoned send, resolve an uncertain one |
| Runner and controller (`runner`) | admission lock, mutex, active job, dispatch and stop flags | the step loop, `Run`, `RunStage`, `Handle`, worker start and stop, recovery |
| Executor (`executor`) | child process and its process record | run, cancel, reconcile after a crash |
| Conversation state (`conversationstate`) | one record per conversation, one binding per channel and owner, three kinds of locks | ensure, append, mark, link, ingest, reset, select, guard an action |
| Reception (`reception`) | a session's revision and history | attach, turn, record an action, select a prior job, consume results |
| Command line (`cli`) | – | flow submit, flow result recover and resolve, chat |
| Telegram channel (`telegram`, `telegramchat`) | cursor, one receipt per update, a turn, a queue of commands | poll, claim, dispatch, answer, cancel, reset, restart |
| Chat supervisor (`chatsupervisor`) | its lock, the record of the receiver | clean up, start, watch, restart with back-off, stop |
| Operations monitor (`opsmonitor`, `errorreport`) | active diagnostics, alert log, marker | observe, raise and resolve, enable, run |
| Schedules and acquisitions (`schedule`, `store/schedule.go`, `store/acquisition.go`) | schedules, ticks, acquisitions | begin, collect, submit, link, follow, skip, retry, pause |
| Gmail and Jira acquisition (`gmail`, `jira`) | checkpoint and snapshot of a collection | list, read, normalise, save, go on, continue with a further page |
| Retention (`retention`) | plans, the statuses `retiring` and `purged` | plan, review, apply, apply again |
| Backup (`backup`) | a backup directory, a restored home | image, copy, manifest, verify, restore |
| Self update (`selfupdate`, `updateguard`) | record of an update, guard, copy of the old program | build, stop, replace, start, verify, go back |
| Service and backend lifecycle (`service`, `backend`, `control`) | units, markers, worker intent | start, stop, restart, quiesce, resume, roll back a stop |
| Feedback and candidates (`feedback`, `workgroup`, `skills`) | evaluation, comparison, proposal and decision records; the selected bundle | evaluate, review, recover reviews, compare, propose, check, adopt, roll back |
| Team operations ledger (`ops`) | a chain of records that every load replays | work, releases, deployments, observations, assessments, incidents, notification plans |
| Accounts and credentials (`gmail/auth.go`, `onboarding`, `cli/telegram.go`, `secrets`) | connection files, bot binding, entries of the credential store, its key | connect, reauthorize, disconnect, setup tasks, pair, set the store up |
| Gateway, mail, code review, web research, configuration | own files each | see `PROJECT.json`, "components" |

How they interact: the command line, the chat and the Telegram receiver send requests
to the controller, or, when no controller runs, open the store themselves under the
writer lock. The controller's single step loop starts work; its request handlers run
beside it. Jobs and conversations meet in two places: a turn admits a job for its
conversation, and a finished staged job hands its result event to whichever session of
the same owner polls between its turns. A handler runs under the controller's own
context, so a request that has timed out for its caller may still be applied. The chat
runs as a receiver process below a supervisor, both below a unit of the service manager;
the updater stops and starts these units, the monitor only looks at them. Most commands
that write records hold the writer lock, so of those only one runs at a time.

What is hard here: stale attempts and late children of cancelled or recovered work;
two tables that must move together; files and rows written in separate steps; several
sessions in one conversation, guarded by revisions and advisory locks that a dying
process drops; requests applied after their caller gave up; a send whose outcome is
unknown; stop, recovery and shutdown in the middle of a run. `PROJECT.json`, "hazards",
lists them with their lines.

What makes the components correct:

- *Job queue*: job and attempt rows agree; nothing is rerun unreviewed; attempts are evidence.
- *Staged workflow*: only the current, running attempt of a step publishes; a step rests on
  the outputs its dependencies have now; a closed job has no work left.
- *Result events*: one per output and revision; a superseded result never sets out.
- *Conversations*: an action or a reply belongs to what was last said; the binding always
  names an open conversation, whatever died in between.
- *Hand-off*: the owner sees a result once, and again only on request.
- *Controller*: one execution at a time, none after a stop, every interrupted one recovered,
  none starved by another.
- *Telegram and supervisor*: a message is taken once and in order, acted on at most once;
  one chat acts for the owner, and it comes back unless it is switched off.
- *Monitor*: an alert says what was last known, never what could not be read.
- *Schedules and acquisitions*: each interval once; a collection resumes without loss.
- *Retention and backup*: only what was reviewed goes; what is restored is whole and waits.
- *Self update and lifecycle*: the last working program stays reachable, the owner's
  wishes survive, work in progress is not cut off.
- *Feedback*: a bundle comes into use on evidence that is still true.
- *Ledger*: a repeated command is one record; what is announced is what the ledger says.
- *Accounts*: what is in use has its credentials, and no credential is left unnamed.

## 2. Plan

Written, in this order:

1. `JobQueue`: the queue's transactions. Proofs in `StagedWorkflowProofs`.
2. `StagedWorkflow`, extending `JobQueue`: staged jobs and result events, called by anyone
   in any order. Proofs in `StagedWorkflowProofs`.
3. `Conversations`: records, locks, turns, `flow submit`, reset and select. Proofs in
   `RecordsProofs`.
4. `ResultHandoff`, extending `Conversations`: delivery of results, owner's commands, late
   requests. Proofs in `HandoffProofs`.
5. `Controller`, extending `StagedWorkflow`: the loop, admission, gate, executions, child
   processes, the owner's requests, crash and recovery. It is the caller the store models
   leave open. Proofs in `ControllerProofs`.
6. `Lifecycle`, and `SelfUpdate` extending it: the services and the updater above them.
   Proofs in `UpdateProofs`.
7. `Mailbox`, the abstract promise of a receiver; `TelegramReceiver`, which implements it;
   `ChatSupervisor`; `OpsMonitor`. Together in `MCChannels`. Proofs in `ChannelsProofs`.
8. `Schedules`, `GmailAcquisition`, `JiraAcquisition`, `Retention`, `Backup`. Together with
   6 in `MCOperations`. Proofs in `ScheduleProofs` and `OperationsProofs`.
9. `Feedback`, `OpsLedger`, `Accounts`, `SecretStore`. Together with 3 in `MCRecords`.
   Proofs in `RecordsProofs`.

The abstract specifications: `Mailbox`, which the receiver implements, and the store's models
with their arbitrary callers, of which the controller is one.

## 3. The modules and the code

`JobQueue` has one variable per column the queue reads back. An attempt is its ordinal,
because `UNIQUE(job_id, ordinal)` and the ordinal is always count + 1. Every action is
one SQLite transaction. Callers may pass any ordinal, also one that is no longer
current. `Reconfigure` stands for a changed `limits.max_attempts`, which a worker takes
over only while no attempt runs.

`StagedWorkflow` adds the staged tables. An artifact is the pair of step and attempt
that produced it; `pinned` is `pinned_inputs_json` as far as steps produced the inputs
(the initial inputs never change). `SaveStepArtifact` is two actions, because it writes
a file between its two looks at the attempt. Left out: `not_before` of steps (no code
sets it above zero), their diagnostics, the conversation and timestamp arguments of the
delivery operations (they are in `ResultHandoff`). `SupersedeJobRevision` and
`AppendSteps` have no caller in the program at this commit; they are modelled since they
are exported transactions. Marking a delivery with the status it has is a stutter.
`CompleteStep` accepts more statuses than the program passes.

`Conversations` models the sessions of one owner on one channel. Revisions only grow and
are only compared for equality, so `fresh` keeps who is up to date. `Change(p, from, to)`
is `Store.Change`: it waits for the actions lease and the store lock, checks revision and
archive mark, and makes every other session stale. Reset and Select are three actions,
one per file written, under both locks; `SwitchFails` stops them in between. A failed
lock or a stale revision in a turn is `TurnFails`, after which the deferred `Mark` may
itself fail. Two pairs of steps are one action each, because failing between them changes
nothing: `Ensure` and `Mark` in `Attach`, `Ensure` and `Append` in `FlowAsk`.

`ResultHandoff` adds one result per admitted job, the requests of `ConsumeResults` to the
controller one by one, the two leases, and the owner's commands. `version` is
`updated_at`, which every transition increases. A request that times out goes to `late`
and may be served at any time, or never. Publication is a single action here: its
conditions are `StagedWorkflow`'s.

`Controller` puts one goroutine, the loop, beside the requests of `Handle`. `loop` is the point
the loop has reached: between ticks, in `step`, in `Run` or in `RunStage`; when it is a fault
code the loop is about to call `blockDispatch`. Requests hold `Runner.admission`, so none
overlaps another, but the loop's execution goes on beside them. `worker_start` inspects the
executor between two looks at the gate (`inspecting`). Three requests write more than one thing,
and each write is an action: `revoke_access` writes the block, ends the active job in the store,
and then cancels the context; `cancel` ends the job and then cancels; `retry` and `resolve` read
the attempts, compare the budget, and resume with a store call that knows no budget. `handling`
is what such a request has done so far. The loop takes admission only to admit an execution and
for schedules; it takes the gate's own mutex alone to block dispatch and to look at dispatch
after `Run`, for which it waits while a request keeps it (`GateFree`). That `exec.Cmd.Start`
refuses a context that is done is part of the start of a process (`Launch`): the check and the
start are one step of a library. A child is named by its attempt: `starting` holds the attempts
whose record names no process yet, `groups` the process groups alive, known or not to a
controller. `Recorded` is what recovery can see: of a job the record of its current attempt, of
a step those of all attempts. Every store call may fail instead. What `Run` reads of the report
is a choice of its outcome; the configuration's error codes, a store error and a schedule error
are one fault, `"unavailable"`. A termination of the process is only modelled while something
executes: at any other moment it is the exit. Left out: the setup host (its tasks are in
`Accounts`), requests that change the configuration, the recovery of reviews, the artifacts
`RunStage` saves besides its output.

`Lifecycle` has a unit, a marker and a readiness per service. A command of `backend.Command`,
`telegram` or `monitor` is a route: the set of the stages of the function it runs, walked in the
order of `Place` under the lifecycle lock (every route takes its stages in that order); a
failing stage replaces the rest of the route by the rollback the code has for it. A process may
be killed after any step, a service may crash and be restarted by its unit. The guard of a
running update is looked at once, when a command starts.

`SelfUpdate` adds the updater: its record, the copy of the old program, and the steps of
activation and of the way back, some of which are routes of `Lifecycle` run as a child. A
`plan` is the set of positions of these steps still to be taken, the lowest first.
Fetching, building and testing the candidate are one step with an outcome. Owner's commands
that passed the guard before it was there run beside the activation (`overlapped`).

`Mailbox` says what a receiver promises: messages are taken once and in order, each is acted
on at most once, and one that is lost is not taken up again. `TelegramReceiver` is the
poller, which has one update in its hand at a time; the loop (`stage`), which claims,
advances the cursor, dispatches and records; one turn; and the queue of commands that wait
for the runtime. A file write may fail, and the process may end anywhere. Its refinement
maps `taken` to `cursor - 1` and `held` to the updates the process may still act on.

`ChatSupervisor` lets a supervisor of the unit and one of a person compete for the lock;
each cleans up what the record names, starts a receiver and records it in three writes.
Kills, signals, a failing identification and an unreadable marker come at any point; a killed
supervisor's receiver lives on until the next life ends it. The delay is a step without a
length. The owner's commands are steps too: `telegram start` sets the marker, has the unit
started and waits for it, and may fail or die after each (`start`); `telegram stop` removes the
marker and then has the unit stopped (`halted`). The service manager is that of Linux; that of
macOS also starts a unit whose marker is there, which makes `Unattended` shorter.

`OpsMonitor` computes the outcome of each diagnostic - problem, fine or unknown - from facts
about chat and controller, and updates diagnostics and log under its lock. The facts are
those of `MCWorld`, each of which has several wrong or unknown.

`Schedules` is `Manager.Step` write by write: follow the last job, begin an occurrence, count an
attempt, read the provider, save, submit the job, link it. `clock` moves forward freely and
never back; jobs end by an action of the environment. `GmailAcquisition` and `JiraAcquisition`
model what is in a collection and its checkpoint; mailbox and issues change meanwhile.

`Retention` marks, removes file by file, and purges in two transactions around the removal;
a job may be retried, run and closed again between commands. `Backup` takes the image of
the database at one moment and the files one by one, beside work and retention, and
restores step by step; `switches` are what could act by itself in the copy. The home is
left alone once a restore has begun, since a restore reads the backup alone.

`Feedback` keeps the pinned bundle and the attempt of each run, and each record an
evaluation, comparison, proposal or decision leaves. Commands hold the writer lock but
not against a child of their own that survives them; the controller runs jobs between
commands. Composed Skills are sets of parts with a scope, of which contradicting ones do
not compose. `OpsLedger`'s variables are what a replay of the ledger yields. A caller
knows its operation and the revision it has read; answers are lost, so it asks again.
Evidence of a deployment has a date, past or future, and a report is for a time of its own, so
that what holds of a cycle is a question of the time asked for (`DeploymentStatus`). What a due
time alone makes of a work item (overdue, a waiting check) and an observation captured after
the time of a report are left out.

`Accounts` is sign-in, reauthorization and disconnection of Gmail, the tasks of the setup
host, and the pairing of the bot: every write of an entry or a file is a step that can
fail, a file also after it is visible, and the process can end after each. One command
runs at a time, which is the writer lock; pairing has another lock and shares no file.
Left out: the marker that tests the store before the sign-in, the rotation of the refresh
token while it is used, and the receipts of a pairing. `SecretStore` is the set-up of the
encrypted store by processes that share no lock, and of its operations which key they
seal with.

`MC...` modules give TLC its constants; each `.cfg` is a run. `MCOperations`, `MCChannels`
and `MCRecords` hold several components that share no variable. Their steps commute, so a
behaviour has one `subject`, chosen at the start, and only that component moves: the run
explores the sum of the components' states and not their product. `Feedback` has two
subjects: in `reviews` every run uses the active bundle, in `selections` runs may wish for
another and persons do the judging.

## 4. Runs and bounds

| Run | Shows | Bounds |
| --- | --- | --- |
| `queue` | job and attempt rows agree (`QueueTypeOK`, `RunningAttemptIsCurrent`); no unreviewed rerun (`NoUnreviewedRerun`); ended attempts and reported jobs stay (`HistoryIsFinal`) | one job (no transaction reads another), three attempts, two resumes: a late first attempt beside a second and a third |
| `staged` | attempts, pins and outputs stay consistent under stale callers, recovery, retry, a second revision and delivery (`LiveAttemptIsCurrent`, `PinnedInputsStayCurrent`, `OutputComesFromCompletedAttempt`, `SendingIsCurrentRevision`, `ResultsMatchOutputs`, `LateCallersChangeNothing`); a closed job has no work (`ClosedJobHasNoWork`); completed means handed off (`CompletedMeansHandedOff`) | validate, and a gated deliver appended later, two attempts each, two revisions; one resume, after which a job is followed up in its first revision with first attempts (`OpaqueBound`) |
| `staged_opaque` | *violation*: a cancelled and resumed staged job becomes one opaque execution | both steps submitted at once, one attempt each, one revision, one resume |
| `handoff` | a result one conversation sees is sent at most once unless retried, counted as shown only if sent, and never in a turn (`ReceiptsMatchSends`); only abandoned sends reconciled (`ReconciledSendIsAbandoned`) | two sessions, two conversations, one job, one request, one switch, one death, one retry, one late request |
| `send_replay` | *violation*: a result two conversations see is sent again unasked (`SentOnceUnlessRetried`) | as above, two switches, without deaths, retries and late requests |
| `owner_recover` | *violation*: the owner's recovery can hit a live send | as `handoff`, without deaths and late requests |
| `controller` | nothing executes behind a closed gate, and an execution that is cancelled or has slipped past a new access block is told before the request is answered (`ExecutionHeedsOwner`); no start behind an access block of which the owner was told, legacy executions start alone (`StartsAreGuarded`) | one staged job of one step, never paused (`NotPaused`), ahead of one legacy job, one attempt each, children that completed |
| `legacy_controller` | no attempt beside one that may be alive (`UncertainIsNotReplayed`); work is queued only within the budget, but for a resume that one attempt has overtaken (`QueuedWithinBudget`); queued work is taken up (`QueuedWorkIsTaken`) | one legacy job, two attempts, one resume |
| `stop_is_no_fault` | *violation*: a stop of the worker recorded as a fault | as `controller` |
| `operations` | the program installed is the recorded one, or the way back is open (`InstallationIsAccountedFor`); markers and work survive an update (`UpdateSparesOwner`); only what was reviewed is removed (`OnlyReviewedContentIsRemoved`); each interval is collected for once (`EachIntervalOnce`); collections go on without loss (`CollectionsResume`); backups are whole, restored data waits (`RestoresAreSafe`) | update: one owner beside the updater, one change, crash, fault and request; all markers or the controller's alone. Retention: two jobs of two files, two plans, rewrites and ends. Schedules: intervals of two ticks and of one, clock to 3, three occurrences, budget 2, one trouble and one command. Gmail: two pages, of which the second repeats a message beside a new one, three acquisitions, one change, one fault. Jira: three pages or one, at most three pages and four issues, three faults. Backup: two artifacts |
| `channels` | one turn, one supervised receiver (`ChatRunsAlone`); alerts say what is known (`AlertsFollowOutcomes`); the receiver implements the mailbox (`ImplementsMailbox`); an enabled chat returns, once its start was confirmed (`EnabledChatReturns`) | receiver: three updates in four combinations of kinds, a queue of one, one failing write, one end. Supervisor: one of the unit, one by hand, two receivers, three switches, three mishaps. Monitor: two of them, six worlds, a log of four alerts, four observations, two changes of the marker |
| `records` | one conversation that holds still (`ConversationHoldsStill`); replies where they belong (`RepliesAnswerTheirRequest`); selections on present evidence (`SelectionsRestOnEvidence`); an accountable ledger (`LedgerIsAccountable`); credentials kept (`CredentialsAreKept`) | conversations: two sessions, two conversations, one job, two requests, two switches, one death, one torn switch. Feedback: two runs, two attempts, two evaluations, one comparison and proposal, two reviews, one disturbance. Ledger: two callers, one work item, two cycles, three records, one tick. Accounts: three grants, one setup task, one fault. Store: two processes, two keys, two losses |

Two attempts are what is needed for a stale one beside a current one, two steps for a
dependency, two revisions for a stale event, two sessions for a race and two conversations
for a switch and for a result that travels to a later conversation. The bounds named
`...Bound` only cap counters; everything within them is explored, failures included.
`tears` is bounded by 0 in `handoff` to keep its instance small; the proofs of its properties
have no such bound. A fault of `operations` and `channels` may hit any
step, so a bound of one explores every single failure, and where a second one matters - the
way back after a failed activation, a second restart, a loss after a restored key - the
bound is two or three. `EventBound` counts records of a scope that may begin with a policy
(the first of `MCPolicy`) and its first target, so that three more reach a raised, resolved and reopened incident.

In `controller` the only step of the staged job stands for its chain: it needs an approval, its
output is the result and its completion delivers; the chain itself is explored in `staged`,
and so is a paused job. A
retried step finds its one attempt used up, so its next claim fails as one on which the store
fails. A crash may happen anywhere and any number of times, and orphans of the stage are there
when the legacy job's turn comes. `ReportOutcome` limits how a child that exited is judged, to
completed in `controller`, where one attempt leaves nothing to retry, and to completed and
retryable in `legacy_controller`; the other outcomes end the attempt as these do. The properties
of `legacy_controller` that speak of a second attempt need the second attempt and the resume. In
the ledger of `records` dates and clock are 0 and 1, so that evidence recorded at 0 can take
effect by time alone; the risks, and with them the evidence, are about the first cycle.

Fairness: `Controller` and `MCChannels` have some. The controller's loop and a
`worker_start` in progress go on (weak fairness): both are goroutines, every wait in them is
bounded by a configured limit, and a child by the configured timeout. The loop's use of the
admission lock is strongly fair, because `sync.Mutex` hands a lock to a waiter that has been
passed over for a millisecond. In `MCChannels` a receiver that ended is started again and
its loop goes on (weak fairness of `Start` and `LoopStep`); the handing over of an update is
strongly fair, because it is one case of the loop's `select`, which chooses among ready
cases at random. A supervisor and a receiver process run (weak fairness of `SupervisorStep`
and `TakeTransport`), and a unit that failed is restarted, as `Restart=` in the unit says. That
restarts failures alone, so `EnabledChatReturns` makes two exceptions: a record nobody can clean
up (`Stranded`), and a unit that is down with nobody to start it, because the start after
the marker was never confirmed, the updater stopped it, or its end could not read the marker
(`Unattended`). Without either the property fails. A request in progress goes on
(`RequestGoesOn`): it is a goroutine whose calls are bounded.
Nothing is assumed of requests, crashes, restarts, the time a retry takes, or surviving
process groups. Everything else is a safety specification. `QueuedWorkIsTaken` is checked
with `ModelPolicyVersion = 0`: under version 1 `step` passes over a legacy job for as long
as its executor is not ready, and nothing in the code ends that.

### Findings

- *Opaque execution of a staged job.* `Resume` accepts any cancelled job and queues it; a
  staged one then runs as an ordinary attempt (`staged_opaque`). For the same reason
  `CompletedMeansHandedOff` speaks of jobs that completed through their steps.
- *The owner's recovery takes the wrong lease.* `flow result recover` locks the conversation
  the job came from; after a reset and `/job select` the sender holds the lease of a later
  conversation (`owner_recover`).
- *A stalled session sends again.* `MarkResultDelivery` answers success when the result already
  has the status asked for (`store/result_events.go:206`). A session that read a result as
  available, and marks it only after a session of another conversation has sent it without
  getting its receipt, is told that it may send, and the owner gets the result twice
  (`send_replay`). The delivery leases, one per conversation, cannot prevent it once the job
  was selected in a second conversation. What the code guarantees is therefore stated, and
  proved, of results that one conversation sees (`Undivided`).
- *A stop recorded as a fault.* A `worker_stop` served between the read of the queue and the
  admission of a stage ends as `staged_dispatch_failed`; only the branch of legacy jobs looks
  at dispatch before it records a fault (`stop_is_no_fault`).

Seen while modelling, and not a disagreement with any documentation: a switch that stops after
moving the pointer leaves two open conversations, and `Select` writes the selected one without
its actions lease. In those states the exclusion properties of `Conversations` fail, which is
why they carry `~Torn`; `ActiveIsOpen` and `DeliveredWasSent` hold there too. A failing `flow
submit` leaves its conversation in a running turn; an attached local chat then gets no results
and cannot speak until something attaches anew. `RunStage` starts its child without the
reconciliation that `Run` makes, so a stage can start beside an orphan, and `StartsAreGuarded`
demands a start alone of legacy executions only. A stage process that cannot be started leaves
its record at `starting`, which every later recovery refuses to pass; the driver of legacy jobs
takes the record back. Two `controller_stop` in a row lose `stopDispatch`, so that an abort
leaves a requested worker idle.

From the later modules, likewise without a property that fails:

- *Update.* A service that turns busy after the first look at the idle gate, before anything
  is stopped, ends in `recovery_required`, while `docs/setup/SELF_UPDATE.md:50` says to
  request again. A turn that begins between the last look and the guard is interrupted. A
  stop of the controller by an owner, between the read of the markers and the activation,
  is undone by the updater's start; the updater's own stop clears that marker, which a
  crash then loses. A guard left by a crash refuses every guarded command until it is
  resolved. A killed stop leaves a controller stopping.
- *Controller.* `retry` and `resolve` compare the budget in one call and resume in another: an
  execution of the job that was admitted before the request may record and end the last
  attempt in between. The job is then queued without one, and the next start parks it
  (`ExhaustBudget`). `revoke_access` writes its block before it cancels: a process may be started
  in between, and is told before the request ends.
- *Supervisor and executor.* A record left at `starting` after a failed identification
  holds up every later start (`Stranded`). The chat is marked as enabled before its unit is
  started, and an interrupted supervisor that cannot read the marker ends with success: either
  leaves an enabled chat down (`Unattended`).
- *Receiver.* A failed advance of the cursor, a failed reaction or a full disk leaves a
  receipt `claimed`, which the next restart marks as interrupted without an answer.
- *Schedules.* `Retry` does not reset the count of attempts, so an occurrence blocked on its
  budget stays so. `Step` collects for one schedule, the earliest, so that one whose interval
  is no longer than its job's time starves later ones. A Jira sign-in that fails becomes
  `blocked` and never `waiting_auth`. A job purged before it was followed leaves its
  occurrence blocked until it is skipped. An error of `Step` disables dispatch.
- *Monitor.* A disabled side never resolves its active diagnostics.
- *Feedback.* A rollback may select an older base than the immediate predecessor.
- *Ledger.* A report is refused when the ledger has a newer record, not when time has put a
  dated piece of evidence into effect: an incident may be raised for what held at the time of
  the report and does not any more. `LedgerIsAccountable` demands no more than that. An
  assessment that reopens an incident keeps its old snooze, the explicit reopening clears it; a
  severity that goes down and up again defeats the cooldown; the same evidence does not reopen a
  resolved incident.
- *Backup.* A restore that is interrupted once database and configuration are copied leaves a
  directory that opens like a home, with jobs queued and switches on. A missing file is
  noticed by the restore, not by the backup.
- *Accounts.* `Connect` deletes the new credentials when saving the connection fails, although
  the file may be visible by then: an enabled connection without credentials, or a sign-in
  reported as failed with a connection there. Pairing states the opposite rule and follows it
  (`cli/telegram.go:116`). `NothingIsUsedWithout` and `SetupTellsTheTruth` except those
  connections (`unsure`). A sign-in that dies before the connection is saved leaves entries
  that no file ever named. `disconnect --revoke` after a partial disconnection that deleted
  the refresh token can not delete the rest; without `--revoke` it does.

Each property has a mutant in `PROJECT.json`: a definition marked "Variant" that, put in
place of the one after it, breaks the property.

## 5. Proofs

TLAPS checks the following for every value of the constants that satisfies the named
assumptions. They say what the code enforces or the model's encoding needs:
`QueueAssumption` and `WorkflowAssumption` what `config.Validate`, `validateSteps` and the
keys of the tables enforce; `ControllerAssumption` that the queue lists each job once;
`ConversationAssumption`, `HandoffAssumption`, `SupervisorAssumption`,
`ReceiverAssumption`, `MonitorAssumption`, `LifecycleAssumption`, `ScheduleAssumption`,
`MailAssumption`, `JiraAssumption`, `RetentionAssumption`, `FeedbackAssumption`,
`LedgerAssumption`, `AccountAssumption` and `SecretAssumption` that bounds are numbers, that
`"owner"`, `"none"` and the updater stand for nobody else, that one supervisor is the unit's,
that queue and log have room for one, that a provider's pages lead to each other, that an
interval is positive, and that concerns and policies have their form. TLC evaluates them in
every run.

Every invariant and every action property of the passing runs is a theorem. Hardly one of them is
inductive by itself; what follows says what is added and why.

### The store

`StagedWorkflowProofs`, the queue. `QueueInv == QueueTypeOK /\ CurrentIsLatest /\
RunningAttemptIsCurrent` is inductive. `CurrentIsLatest` is the strengthening:
`RunningAttemptIsCurrent` alone does not tell that a new attempt, appended at the end, is the
one `current_attempt` names, nor that ending the current one leaves no other running.
`NoUnreviewedRerun` compares the attempts that did not fail and are not the latest with the
resumes; a transaction that appends an attempt raises the first number, so `ReviewInv` adds
that a queued job whose latest attempt did not fail has a resume to spare
(`ResumesCoverLatest`), and that a job never submitted has no attempts. `HistoryIsFinal`
follows step by step (`JobStep`).

`StagedWorkflowProofs`, the staged tables. `StagedInv` is inductive: the queue's invariant, the
types, and `LiveAttemptIsCurrent`, `PinnedInputsStayCurrent`, `OutputComesFromCompletedAttempt`,
`ClosedJobHasNoWork`, `SendingIsCurrentRevision`, `OneResultPerOutput` and
`ResultIsTheOutput`, with the facts that tie them together (among others that a job
outside `staged` has no steps in progress, that what a step has pinned are outputs of its
dependencies, and that a step with a result is completed or superseded). They need each
other: an output stays what the result names because a completed step is never run
again, and a step's pins stay current because no dependency is. There is one lemma per
action; transactions that leave most tables alone share `QuietTransaction`,
`EndingTransaction`, `MovedStepInv` and `ResultTransaction`. `LateCallersChangeNothing`
follows from it, and `CompletedMeansHandedOff` from `HandedOffInv`, which adds that results
belong to validation steps, of which a job has one (`UNIQUE(job_id,step_key)`).

### The controller

`ControllerProofs` rest on `StagedInv`: what the controller does to the store are the store's
transactions (`ControllerCalls`), so that part of `ControllerInv` is kept by the lemmas above
and needs no look at the loop. `OrdinalsInv` belongs to it: the ordinals of attempts are within
the bounds the models range over, and a running job has one. The rest says what the point the
loop has reached means: which attempt it works on (`PhaseInv`, `WorkInv`), that the gate is shut
while the boot lasts (`GateInv`), that no other job is admitted while a request is in progress
(`HandlingInv`), and that between the end of recovery and the record of the next attempt nothing
of the job is alive that a record cannot name (`ProcessInv`). An execution is told by the end of
the request that concerns it, which is part of the invariant (`CancellationIsSeen`,
`RevocationIsSeen`). `StartsAreGuarded` and `UncertainIsNotReplayed` are facts about single
steps that follow. `BudgetHolds` needs `ResumeInv`: since a resume has counted, at most one
attempt was recorded, and whoever recorded it is past the point where it could record another.

`ControllerCallsStore` is the refinement between the two levels. The models of the store leave
their callers open: any step, any attempt, any order. Every step of `ControllerSpec` is such a
call or leaves the tables alone (`StoreNext`, which is `Next` and the submission of a job
without steps, the subject of `JobQueue`); the attempt it names is one the models range over,
which is what `OrdinalsInv` is for. What was proved
of the store under any caller is thereby proved under this one: `ControllerKeepsHistory`
(`HistoryIsFinal`, `NoUnreviewedRerun`) and `ControllerKeepsResults`
(`LateCallersChangeNothing`, `CompletedMeansHandedOff`), from `PromiseInv`. The queue's promises
thereby hold of tables that legacy and staged jobs share, which `queue` does not explore.

### Conversations and their results

`RecordsProofs`, conversations. `ConversationInv` adds to the property who holds which lease and
why (`LeaseInv`), what the steps of a switch have done so far (`SwitchInv`), which conversations
are open as long as no switch stopped half-way (`OpenInv`), and whose turn it is in the record a
session has read last (`RequestInv`).

`HandoffProofs`. The count of sends is not inductive. `HandoffInv` adds: a consumer holds the
delivery lease of its conversation, so that two sessions do not handle a result one
conversation sees at once (`DeliveryInv`); a status seen with the present version is the
present one, because every transition takes a later version (`VersionInv`); once a session has
read a result, requests of the owner still on their way are outdated, and what it has marked
is not offered again (`SendInv`); and what a session in the middle of sending knows of the
turn (`QuietInv`). Requests served late are why versions are needed beside leases.
Sessions act on their own part of the state, and `Considerate` sums up what a step of
another may do to it. TLC checked `HandoffInv` on the instance of `handoff` before
it was proved; the part of `SentOnceUnlessRetried` about results that two conversations see failed
there, and became the finding `send_replay`.

### Channels

`ChannelsProofs`. `SupervisorInv` says who holds the two locks, which living receivers the
record can hide, and what a supervisor knows when it starts one. `ReceiverInv` says where the
update in hand is relative to the cursor, that commands that wait were taken once, and when a
turn or a surviving process may exist. Both give `ChatRunsAlone`. From `ReceiverInv` every step
of `TelegramReceiver` is a step of `Mailbox` or a stutter (`ReceiverIsMailbox`), which is the
safety part of `ImplementsMailbox`. `MonitorInv` says who watches (`WatchInv`), that a
diagnostic is active while the last outcome known of it was a problem, and what the log still
tells (`LogInv`): the alerts of one code alternate and the last one says whether it is active,
as far as the log, which is cut at its oldest end, reaches back. Cutting and appending several
alerts at once are lemmas about sequences. Together they give all of `AlertsFollowOutcomes`.

### Operations

`UpdateProofs`. `LifeInv` is about the commands: each is on the route of what it was asked
(`OnRoute`), those under one lock exclude each other, and the controller's promise to stop
belongs to the command that holds its lock (`PromiseInv`). `BaseInv` is about the updater: what
its record says in each phase and what is installed (`RecordInv`), that what is left of a plan
is its end (`PlanInv`), and that its command is the step that is due (`CallInv`). `AloneInv`
says more as long as no owner's command overlaps: a service the way back has stopped stays down
until the old program is back, and the controller's marker is put back before the updater lets
go. It needs the order of the plan, since the stops come before the restore. From the three
follow `InstallationIsAccountedFor` and `UpdateSparesOwner`. The first speaks of services that
were enabled before the update; the way back stops no others.

`ScheduleProofs`. `ScheduleInv` relates three tables that are written one after the other.
Each occurrence ends where the next of its schedule begins, and the last where the next is due
(`GridInv`); those before the last are settled (`OrderInv`). An acquisition belongs to the
occurrence that reserved it, or to the one that goes on from a page, which the occurrence before
it left; so it has one owner (`OwnInv`, `ParentInv`, `PriorInv`, lemma `OneOwner`), and the job
an occurrence is linked to cannot be another's (`JobsInv`). What is collected is the last
occurrence of its schedule and has no job yet (`WriteInv`), and a read is paid for by an attempt
that was counted before it (`BudgetInv`). TLC checked `ScheduleInv` on the instance of
`operations` before it was proved.

`OperationsProofs`. `MailInv`: what an acquisition of messages has listed and what it has still
to read are together the page it has from the provider, however often it stops (`PageHeld`);
what counts as covered, or is read as reference only, was resolved by the report of a snapshot
(`CoverInv`, `ReferenceInv`), and an acquisition that goes on has a snapshot to go on from
(`ContinuedInv`). `JiraInv`: the pages are a chain of different cursors from the start
(`ChainInv`), the rows are those of the processed pages, in their order, for which `RowsInv`
keeps the running totals (`Takes`), and the acquisition is where the chain ends (`OnwardInv`).
The two give `CollectionsResume`. For retention, that whatever is gone belongs to a plan whose
approved versions are the ones removed (`PlanInv`, `ContentInv`); for backups, what the writer
lock and the checks of the home tell while one is made (`HomeInv`) and what each step of a
restore has left (`RestoreInv`). `ComponentsRunAlone`: a behaviour of `MCOperations` is one of
each component's own specification, which carries the theorems of `UpdateProofs` and
`ScheduleProofs` over to `OperationsTypeCorrect`.

### Records

`RecordsProofs`, the instructions of a workgroup. `SelectionsRestOnEvidence` speaks of the
moment of a selection, but what it rests on was written long before. `FeedbackInv` adds that
results are those of attempts that were made (`MadeInv`), that a review is about such a result
and its command waits for the last one (`ReviewInv`), that what was compared stands as long as
the run makes no further attempt (`EvidenceInv`, `Backed`), that proposals and selections fit
their scope (`SelectedInv`), and that nothing a decision rests on changes until it is in effect,
because commands hold the writer lock in between (`DecisionInv`).

`RecordsProofs`, the ledger. `LedgerInv` adds to `LedgerIsAccountable` that the severity an
incident has is the one it was planned for last, with no plan from the future (`PlanInv`,
`Spaced`), and that a report made from the present ledger is for no earlier time than its latest
record, holds at that time and cites what is in it (`ReportInv`).

`RecordsProofs`, credentials. `AccountInv` follows a command through its steps: which entries the
connection names, which were retired, and what the step reached says of them (`PlaceInv`,
`ConnectInv`, `LeaveInv`), that a grant serves one connection (`GrantInv`), and what the
setup host tells (`TaskInv`, `TellInv`). `SecretInv`: all that is sealed was sealed with one
key, the one in place if there is one.

Components of `MCChannels`, `MCOperations` and `MCRecords` share no variable, so a step of one
leaves the invariants of the others alone. Most theorems about them are stated of the
composition the run checks; those about conversations and schedules of the component's own
specification, which every behaviour of the composition satisfies.

Only model-checked: liveness (`QueuedWorkIsTaken`, `EnabledChatReturns`), the fairness part of
`ImplementsMailbox` and everything with `ENABLED`, which this prover does not handle; and the
violations, which are counterexamples and need no proof. That the folds, page chains and plans
of the constants have the values TLC computes is evaluated, not proved: it is data.

## 6. Not modelled

`PROJECT.json`, "components", gives the reason for each part. In short: what a stage
computes, prompts, reports and normalisation are data; OAuth, the keychain tool, ciphers,
HTTP and Git are I/O with an outcome; the gateway, mail, code review and web research are
transformations and read-only lookups without a protocol. The dialogue of the first setup,
the validation of configuration, the text of unit files and messages, saved Jira files and
mappings, the Python extension, and plain reads of the store are left out.
