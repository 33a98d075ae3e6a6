----------------------------- MODULE SelfUpdate -----------------------------
(***************************************************************************)
(* The one-shot updater of internal/selfupdate over the services of an     *)
(* installation: it builds the candidate beside the running services,      *)
(* stops them, replaces the program, starts them again, and goes back when *)
(* a step fails.  It may be killed after any step.                         *)
(*                                                                         *)
(* "old" and "new" are the revisions before and after the update.  A       *)
(* definition marked "Variant" is a plausible slip in the one after it.    *)
(***************************************************************************)
EXTENDS Lifecycle, Sequences

CONSTANT ApplyBound     \* bound on the requests for an update

ASSUME SelfUpdateAssumption == ApplyBound \in Nat

VARIABLES
    revision,   \* Settings.InstalledRevision
    record,     \* State.Status, with State.Message where it matters
    backup,     \* the copy of the old program is complete
    phase,      \* what the updater is doing
    plan,       \* the places of the steps that its activation or its way back has left
    wanted,     \* the services and the worker that were enabled before
    overlapped, \* an owner's command was under way during the activation
    applies     \* requests so far

ownVars == <<revision, record, backup, phase, plan, wanted>>
updateVars == <<lifecycleVars, ownVars, overlapped, applies>>

Phase == {"off", "build", "backup", "guard", "activate", "backout", "release", "giveup", "write"}

Step(u, op) == [unit |-> u, op |-> op]
Verify(u) == Step(u, "verify")

Activation == <<Step("chat", "quiesce"), Step("files", "idle"), Step("controller", "stop"),
                Step("monitor", "quiesce"), Step("files", "replace"),
                Step("controller", "start"), Verify("controller"), Step("worker", "intent"),
                Step("monitor", "resume"), Verify("monitor"),
                Step("chat", "resume"), Verify("chat")>>
Backout == <<Step("chat", "quiesce"), Step("monitor", "quiesce"), Step("controller", "stop"),
             Step("files", "restore"),
             Step("controller", "start"), Verify("controller"), Step("worker", "intent"),
             Step("monitor", "resume"), Verify("monitor"),
             Step("chat", "resume"), Verify("chat")>>
For(steps) == {i \in DOMAIN steps : steps[i].unit \in wanted \cup {"files"}}

\* The step that is due.
Due == CHOOSE i \in plan : \A k \in plan : i <= k
DueStep == IF phase = "activate" THEN Activation[Due] ELSE Backout[Due]

Activating == phase \notin {"off", "build"}

\* A controller that does not answer, and a chat that is down, count as idle.
Idle == busy = {}

UpdateInit ==
    /\ LifecycleInit
    /\ revision = "old" /\ record = "none" /\ backup = FALSE
    /\ phase = "off" /\ plan = {} /\ wanted = {}
    /\ overlapped = FALSE /\ applies = 0

----------------------------------------------------------------------------
\* Run: a record that is still running, or asks for recovery, blocks the next.
Begin ==
    /\ phase = "off" /\ ~guardRecord
    /\ record \notin {"running", "activating", "recovery_required"}
    /\ applies < ApplyBound
    /\ applies' = applies + 1
    /\ record' = "running"
    /\ phase' = "build"
    /\ overlapped' = FALSE
    /\ UNCHANGED <<lifecycleVars, revision, backup, plan, wanted>>

Finish(status) ==
    /\ record' = status
    /\ phase' = "off"
    /\ plan' = {}

\* The fetched revision is the installed one, or its program cannot be built or
\* verified, or work is in progress.
AlreadyCurrent == Finish("completed")
CandidateFails == Finish("failed")

PrepareVariant ==
    /\ phase = "build"
    /\ \/ (AlreadyCurrent \/ CandidateFails) /\ UNCHANGED overlapped
       \/ /\ revision = "old" /\ Idle
          /\ overlapped' = \E c \in Owner : todo[c] # {}
          /\ phase' = "backup"
          /\ UNCHANGED <<record, plan>>
    /\ UNCHANGED <<lifecycleVars, revision, backup, wanted, applies>>

\* Fetch, build and verify, and the first look for active work.
Prepare ==
    /\ phase = "build"
    /\ \/ (AlreadyCurrent \/ CandidateFails) /\ UNCHANGED overlapped
       \/ /\ revision = "old" /\ Idle
          /\ overlapped' = \E c \in Owner : todo[c] # {}
          /\ record' = "activating"
          /\ phase' = "backup"
          /\ UNCHANGED plan
    /\ UNCHANGED <<lifecycleVars, revision, backup, wanted, applies>>

\* The second look, the intents and the copy of the old program.  An error
\* before a service was stopped is not told from a later one.
Secure ==
    /\ phase = "backup"
    /\ \/ /\ Idle /\ installed = revision
          /\ wanted' = marker \cup (IF intent THEN {"worker"} ELSE {})
          /\ backup' = TRUE
          /\ phase' = "guard"
          /\ UNCHANGED <<record, plan>>
       \/ Finish("recovery_required") /\ UNCHANGED <<backup, wanted>>
    /\ UNCHANGED <<lifecycleVars, revision, overlapped, applies>>

Fence ==
    /\ phase = "guard"
    /\ guardRecord' = TRUE
    /\ phase' = "activate"
    /\ plan' = For(Activation)
    /\ UNCHANGED <<installed, intentVars, serviceVars, commandVars, disturbed, countVars,
                   revision, record, backup, wanted, overlapped, applies>>

----------------------------------------------------------------------------
(* The steps of a plan.                                                    *)

Planned(op) == phase \in {"activate", "backout"} /\ plan # {} /\ DueStep.op = op
Advance == plan' = plan \ {Due} /\ UNCHANGED <<phase, record>>

\* The first error turns the plan round, the second one gives up.
Abandon ==
    \/ /\ phase = "activate"
       /\ phase' = "backout"
       /\ plan' = For(Backout)
       /\ UNCHANGED record
    \/ /\ phase = "backout"
       /\ phase' = "giveup"
       /\ plan' = {}
       /\ UNCHANGED record

Call ==
    /\ \E op \in {"quiesce", "resume", "start", "stop"} :
          Planned(op) /\ outcome[Updater] = "none" /\ Issue(Updater, DueStep.unit, op)
    /\ UNCHANGED <<ownVars, changes>>

Outcome ==
    /\ \E op \in {"quiesce", "resume", "start", "stop"} : Planned(op)
    /\ \/ outcome[Updater] = "done" /\ Advance
       \/ outcome[Updater] = "failed" /\ Abandon
    /\ outcome' = [outcome EXCEPT ![Updater] = "none"]
    /\ UNCHANGED <<installed, guardRecord, intentVars, serviceVars, aim, todo, promise,
                   disturbed, countVars, revision, backup, wanted>>

\* Only the way forward holds the root lock, which a running controller would
\* not give away.
Replace ==
    /\ \/ Planned("replace") /\ unit["controller"] = "down" /\ installed' = "new" /\ Advance
       \/ Planned("restore") /\ installed' = "old" /\ Advance
       \/ (Planned("replace") \/ Planned("restore")) /\ Abandon /\ UNCHANGED installed
    /\ UNCHANGED <<guardRecord, intentVars, serviceVars, commandVars, disturbed, countVars,
                   revision, backup, wanted>>

Verified(u) ==
    CASE u = "controller" -> Answering /\ ~stopping /\ (requested <=> "worker" \in wanted)
      [] u = "monitor" -> unit[u] # "down"
      [] u = "chat" -> u \in ready

Check ==
    /\ \/ Planned("verify") /\ IF Verified(DueStep.unit) THEN Advance ELSE Abandon
       \/ Planned("idle") /\ IF Idle THEN Advance ELSE Abandon
    /\ UNCHANGED <<installed, guardRecord, intentVars, serviceVars, commandVars, disturbed,
                   countVars, revision, backup, wanted>>

RestoreIntent ==
    /\ Planned("intent")
    /\ intent' = TRUE
    /\ Advance
    /\ UNCHANGED <<installed, guardRecord, marker, serviceVars, commandVars, disturbed, countVars,
                   revision, backup, wanted>>

\* The end of install.  The record of a way back is written, or not, before
\* the guard is released; after success the guard goes first.
Conclude ==
    /\ \/ /\ phase = "activate" /\ plan = {}
          /\ phase' = "write" /\ guardRecord' = FALSE
          /\ UNCHANGED record
       \/ /\ phase = "backout" /\ plan = {}
          /\ record' \in {"rolled_back", record}
          /\ phase' = "release"
          /\ UNCHANGED guardRecord
       \/ /\ phase \in {"release", "giveup"}
          /\ guardRecord' = FALSE
          /\ record' = IF phase = "giveup" THEN "recovery_required" ELSE record
          /\ phase' = "off"
    /\ UNCHANGED <<installed, intentVars, serviceVars, commandVars, disturbed, countVars,
                   revision, backup, plan, wanted>>

\* The installed revision is saved before the record says completed; of an
\* error in between the record tells, or not.
Complete ==
    /\ phase = "write"
    /\ \/ revision # installed /\ revision' = installed /\ UNCHANGED <<phase, record, plan>>
       \/ revision = installed /\ Finish("completed") /\ UNCHANGED revision
       \/ \E status \in {"recovery_required", record} : Finish(status) /\ UNCHANGED revision
    /\ UNCHANGED <<lifecycleVars, backup, wanted>>

UpdaterStep ==
    \/ Begin \/ Prepare \/ Secure \/ Fence
    \/ (Call \/ Outcome \/ Replace \/ Check \/ RestoreIntent \/ Conclude \/ Complete)
       /\ UNCHANGED <<overlapped, applies>>
    \/ CommandStep(Updater) /\ UNCHANGED <<ownVars, overlapped, applies>>

\* The updater's unit is killed, with the command it waits for.  The record
\* and the guard's file stay behind.
UpdaterDies ==
    /\ phase # "off"
    /\ faults < FaultBound
    /\ faults' = faults + 1
    /\ phase' = "off" /\ plan' = {}
    /\ todo' = [todo EXCEPT ![Updater] = {}]
    /\ outcome' = [outcome EXCEPT ![Updater] = "none"]
    /\ aim' = [aim EXCEPT ![Updater] = NoAim]
    /\ promise' = [promise EXCEPT ![Updater] = "none"]
    /\ disturbed' = disturbed \ {Updater}
    /\ UNCHANGED <<installed, guardRecord, intentVars, serviceVars,
                   changes, crashes, revision, record, backup, wanted, overlapped, applies>>

OwnerStep(c) ==
    /\ OwnerIssues(c) \/ CommandStep(c)
    /\ overlapped' = (overlapped \/ Activating)
    /\ UNCHANGED <<ownVars, applies>>

UpdateNext ==
    \/ UpdaterStep
    \/ UpdaterDies
    \/ \E c \in Owner : OwnerStep(c)
    \/ \E u \in Unit : ServiceStep(u) /\ UNCHANGED <<ownVars, overlapped, applies>>

UpdateSpec == UpdateInit /\ [][UpdateNext]_updateVars

----------------------------------------------------------------------------
UpdateTypeOK ==
    /\ LifecycleTypeOK
    /\ revision \in {"old", "new"}
    /\ record \in {"none", "running", "activating", "failed", "rolled_back", "completed",
                   "recovery_required"}
    /\ phase \in Phase
    /\ wanted \subseteq Unit \cup {"worker"}
    /\ backup \in BOOLEAN /\ overlapped \in BOOLEAN /\ applies \in 0..ApplyBound

\* Wherever the updater stops, by an error or killed: if the program is not the
\* recorded revision, the record blocks the next update and the old program is
\* at hand; a record of a failure before the activation, or of a finished way
\* back, means that the recorded program is installed; and unless an owner's
\* command was under way, no service that was enabled before is left with the
\* program taken back.
InstallationIsAccountedFor ==
    /\ installed # revision => record \in {"activating", "recovery_required"} /\ backup
    /\ record \in {"rolled_back", "failed"} => installed = revision
    /\ record = "rolled_back" /\ ~overlapped => \A u \in ready \cap wanted : unit[u] = revision

\* The update that ends with the new or the old program leaves every marker and
\* the worker's intent as it found them ("Preserve the controller, worker, chat
\* and monitor desired states"), if no owner's command came between.
IntentsSurvive ==
    [][record' # record /\ record' \in {"completed", "rolled_back"} /\ phase # "build" /\ ~overlapped
       => wanted = marker' \cup (IF intent' THEN {"worker"} ELSE {})]_updateVars

\* An update leaves the owner's wishes alone: it spares work in progress, and what was to
\* run before it is what is to run after it.
UpdateSparesOwner == StopSparesWork /\ IntentsSurvive
=============================================================================
