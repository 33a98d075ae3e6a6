----------------------------- MODULE Lifecycle -----------------------------
(***************************************************************************)
(* The services of one installation - the controller, the chat and the     *)
(* monitor - and the commands that start and stop them: backend.Command,   *)
(* "telegram start | stop | restart", "monitor start | stop | restart" and *)
(* the two hidden commands of the updater.                                 *)
(*                                                                         *)
(* A service has a unit of the service manager, which restarts it after a  *)
(* crash, and a marker file with the owner's intent, which the service     *)
(* reads for itself.  A command is a process that walks a route of steps   *)
(* under a lifecycle lock; it checks the guard of a running update once,   *)
(* when it starts.  Both may be killed after any step.                     *)
(***************************************************************************)
EXTENDS Naturals

CONSTANTS
    Owner,          \* processes of the owner's commands
    Updater,        \* the process of the updater's command
    InitialMarker,  \* the sets of services that may be enabled at first
    ChangeBound,    \* bound on the owner's commands
    CrashBound,     \* bound on the crashes of services
    FaultBound      \* bound on failing and killed commands

Unit == {"controller", "chat", "monitor"}

ASSUME LifecycleAssumption ==
    /\ Updater \notin Owner
    /\ InitialMarker \subseteq SUBSET Unit
    /\ ChangeBound \in Nat /\ CrashBound \in Nat /\ FaultBound \in Nat

VARIABLES
    installed,      \* the program at the registered path: "old" or "new"
    guardRecord,    \* updates/active.json exists
    marker,         \* services whose enabled marker exists
    intent,         \* the remembered intent of the worker
    unit,           \* the program a service runs, or "down"
    failed,         \* services that crashed and wait for their restart
    ready,          \* services that answer
    stopping,       \* Runner.stopping of the controller
    requested,      \* Runner.workerRequested of the controller
    busy,           \* services with a job or a chat turn in progress
    aim,            \* the operation of a command
    todo,           \* the steps a command has left
    outcome,        \* how the latest command of a process ended
    promise,        \* what the controller promised a command: "none", or a stop,
                    \* with the marker that was found before it
    disturbed,      \* processes whose command has seen the controller crash
    changes, crashes, faults    \* commands, crashes and faults so far

serviceVars == <<unit, failed, ready, stopping, requested, busy>>
commandVars == <<aim, todo, outcome, promise>>
intentVars == <<marker, intent>>
countVars == <<changes, crashes, faults>>
lifecycleVars == <<installed, guardRecord, intentVars, serviceVars, commandVars,
                   disturbed, countVars>>

Client == Owner \cup {Updater}
NoAim == [unit |-> "monitor", op |-> "none"]
\* The steps there are, in the order in which a command takes those of its route.
Place == [lock |-> 1, quiesce |-> 2, unmark |-> 3, halt |-> 4, gone |-> 5,
          vacant |-> 6, mark |-> 7, launch |-> 8, ready |-> 9, ask |-> 10]
StopOf == [controller |-> {"quiesce", "unmark", "halt", "gone"},
           chat       |-> {"unmark", "halt", "gone"},
           monitor    |-> {"unmark", "halt"}]
StartOf == [controller |-> {"vacant", "mark", "launch", "ready"},
            chat       |-> {"mark", "launch", "ready"},
            monitor    |-> {"mark", "launch"}]

\* The steps of an operation.  Only the restart of the controller leaves its
\* marker alone; "quiesce" and "resume" are the updater's, which keep it too.
Route(u, op) ==
    CASE op = "stop"    -> StopOf[u]
      [] op = "start"   -> StartOf[u]
      [] op = "restart" -> (IF u = "controller" THEN StopOf[u] \ {"unmark"} ELSE StopOf[u]) \cup StartOf[u]
      [] op = "quiesce" -> StopOf[u] \ {"unmark"}
      [] op = "resume"  -> StartOf[u] \ {"mark"}
      [] OTHER          -> {"ask"}

\* backend-lifecycle.lock, the chat's lifecycle lock; the monitor has none.
LockOf(u) == CASE u \in {"controller", "worker"} -> "backend"
               [] u = "chat" -> "chat" [] OTHER -> "none"
Underway(c) == todo[c] # {} /\ "lock" \notin todo[c]
Held(lock) == \E c \in Client : Underway(c) /\ LockOf(aim[c].unit) = lock
At(c, step) == step \in todo[c] /\ \A s \in todo[c] : Place[step] <= Place[s]
Left(c) == {s \in todo[c] : ~At(c, s)}
Answering == "controller" \in ready

LifecycleInit ==
    /\ installed = "old" /\ guardRecord = FALSE
    /\ marker \in InitialMarker
    /\ intent \in IF "controller" \in marker THEN BOOLEAN ELSE {FALSE}
    /\ unit = [u \in Unit |-> IF u \in marker THEN "old" ELSE "down"]
    /\ failed = {} /\ ready = marker /\ busy = {}
    /\ stopping = FALSE /\ requested = intent
    /\ aim = [c \in Client |-> NoAim]
    /\ todo = [c \in Client |-> {}]
    /\ outcome = [c \in Client |-> "none"]
    /\ promise = [c \in Client |-> "none"]
    /\ disturbed = {}
    /\ changes = 0 /\ crashes = 0 /\ faults = 0

----------------------------------------------------------------------------
(* Commands.                                                               *)

Issue(c, u, op) ==
    /\ todo[c] = {}
    /\ aim' = [aim EXCEPT ![c] = [unit |-> u, op |-> op]]
    /\ todo' = [todo EXCEPT ![c] = {"lock"} \cup Route(u, op)]
    /\ outcome' = [outcome EXCEPT ![c] = "none"]
    /\ UNCHANGED <<installed, guardRecord, intentVars, serviceVars, promise, disturbed, crashes, faults>>

\* guardedMutation: the guard is looked at before the lock is waited for.
OwnerIssues(c) ==
    /\ ~guardRecord
    /\ changes < ChangeBound
    /\ \/ \E u \in Unit, op \in {"start", "stop", "restart"} : Issue(c, u, op)
       \/ \E op \in {"on", "off"} : Issue(c, "worker", op)
    /\ changes' = changes + 1

Close(c, result) ==
    /\ todo' = [todo EXCEPT ![c] = {}]
    /\ outcome' = [outcome EXCEPT ![c] = IF c = Updater THEN result ELSE @]
    /\ aim' = [aim EXCEPT ![c] = NoAim]
    /\ promise' = [promise EXCEPT ![c] = "none"]

Fail(c) == Close(c, "failed")

Proceed(c) ==
    IF Left(c) = {} THEN Close(c, "done")
    ELSE todo' = [todo EXCEPT ![c] = Left(c)] /\ UNCHANGED <<aim, outcome, promise>>

Lock(c) ==
    /\ At(c, "lock")
    /\ IF LockOf(aim[c].unit) # "none" /\ Held(LockOf(aim[c].unit)) THEN Fail(c) ELSE Proceed(c)
    /\ UNCHANGED <<intentVars, serviceVars>>

\* Variant: the controller agrees to stop whatever it is doing.
RefusesVariant == ~Answering /\ unit["controller"] # "down"

\* The controller refuses to stop while it works; without an endpoint nobody
\* else may hold its lock.
Refuses == IF Answering THEN "controller" \in busy ELSE unit["controller"] # "down"

Quiesce(c) ==
    /\ At(c, "quiesce")
    /\ IF Refuses THEN Fail(c) /\ UNCHANGED stopping
       ELSE /\ todo' = [todo EXCEPT ![c] = Left(c)]
            /\ stopping' = Answering
            /\ promise' = [promise EXCEPT ![c] = IF ~Answering THEN "none"
                               ELSE IF "controller" \in marker THEN "marked" ELSE "unmarked"]
            /\ UNCHANGED <<aim, outcome>>
    /\ UNCHANGED <<intentVars, unit, failed, ready, requested, busy>>

Unmark(c) ==
    /\ At(c, "unmark")
    /\ marker' = marker \ {aim[c].unit}
    /\ Proceed(c)
    /\ UNCHANGED <<intent, serviceVars>>

\* A controller that answers is only marked; one that does not is foreign.
Vacant(c) ==
    /\ At(c, "vacant")
    /\ \/ /\ unit["controller"] = "down"
          /\ Proceed(c)
          /\ UNCHANGED marker
       \/ /\ unit["controller"] # "down"
          /\ IF aim[c].op = "start" /\ Answering /\ ~stopping
             THEN marker' = marker \cup {"controller"} /\ Close(c, "done")
             ELSE Fail(c) /\ UNCHANGED marker
    /\ UNCHANGED <<intent, serviceVars>>

Mark(c) ==
    /\ At(c, "mark")
    /\ marker' = marker \cup {aim[c].unit}
    /\ Proceed(c)
    /\ UNCHANGED <<intent, serviceVars>>

\* Variant: what a service was working on is kept as if it were still at it.
EndsVariant(u) ==
    /\ unit' = [unit EXCEPT ![u] = "down"]
    /\ ready' = ready \ {u}
    /\ stopping' = (stopping /\ u # "controller")
    /\ UNCHANGED <<busy, requested>>

\* The end of a service's process, whoever ends it.
Ends(u) ==
    /\ unit' = [unit EXCEPT ![u] = "down"]
    /\ ready' = ready \ {u}
    /\ busy' = busy \ {u}
    /\ stopping' = (stopping /\ u # "controller")
    /\ UNCHANGED requested

\* "systemctl stop", which also calls off a pending restart.
Halt(c) ==
    /\ At(c, "halt")
    /\ Ends(aim[c].unit)
    /\ failed' = failed \ {aim[c].unit}
    /\ Proceed(c)
    /\ UNCHANGED <<intentVars>>

Gone(c) ==
    /\ At(c, "gone")
    /\ unit[aim[c].unit] = "down"
    /\ Proceed(c)
    /\ UNCHANGED <<intentVars, serviceVars>>

Launch(c) ==
    /\ At(c, "launch")
    /\ unit' = [unit EXCEPT ![aim[c].unit] = IF @ = "down" THEN installed ELSE @]
    /\ failed' = failed \ {aim[c].unit}
    /\ Proceed(c)
    /\ UNCHANGED <<intentVars, ready, stopping, requested, busy>>

IsReady(u) == u \in ready /\ (u = "controller" => ~stopping) /\ (u = "chat" => u \in marker)

Await(c) ==
    /\ At(c, "ready")
    /\ IsReady(aim[c].unit)
    /\ Proceed(c)
    /\ UNCHANGED <<intentVars, serviceVars>>

\* rollbackQuiesce: the marker a stop found returns, the controller goes on.
Rollback(c) ==
    IF promise[c] # "none"
    THEN /\ marker' = IF aim[c].op = "stop" /\ promise[c] = "marked" THEN marker \cup {"controller"} ELSE marker
         /\ stopping' = FALSE
    ELSE UNCHANGED <<marker, stopping>>

\* A wait that runs out of time.
TimeOut(c) ==
    /\ \/ At(c, "gone") /\ unit[aim[c].unit] # "down" /\ Rollback(c)
       \/ At(c, "ready") /\ ~IsReady(aim[c].unit) /\ UNCHANGED <<marker, stopping>>
    /\ Fail(c)
    /\ UNCHANGED <<intent, unit, failed, ready, requested, busy>>

\* The service manager fails, or answers too late for the caller.
ManagerFails(c) ==
    /\ faults < FaultBound
    /\ \/ /\ At(c, "halt")
          /\ \/ Rollback(c) /\ UNCHANGED <<unit, failed, ready, busy>>
             \/ /\ unit' = [unit EXCEPT ![aim[c].unit] = "down"]
                /\ failed' = failed \ {aim[c].unit}
                /\ ready' = ready \ {aim[c].unit} /\ busy' = busy \ {aim[c].unit}
                /\ Rollback(c)
       \/ At(c, "launch") /\ UNCHANGED <<marker, unit, failed, ready, stopping, busy>>
    /\ Fail(c)
    /\ UNCHANGED <<intent, requested>>

\* worker_start and worker_stop, which only the controller performs; a start
\* may also find that the executor is not prepared.
Ask(c) ==
    /\ At(c, "ask")
    /\ \/ /\ Answering /\ (aim[c].op = "on" => ~stopping /\ "controller" \notin busy)
          /\ Proceed(c)
          /\ intent' = (aim[c].op = "on") /\ requested' = (aim[c].op = "on")
       \/ /\ aim[c].op = "off" => ~Answering
          /\ Fail(c)
          /\ UNCHANGED <<intent, requested>>
    /\ UNCHANGED <<marker, unit, failed, ready, stopping, busy>>

\* A command that is killed leaves everything as it is.
Killed(c) ==
    /\ todo[c] # {}
    /\ faults < FaultBound
    /\ Fail(c)
    /\ UNCHANGED <<intentVars, serviceVars>>

CommandStep(c) ==
    /\ \/ /\ \/ Lock(c) \/ Quiesce(c) \/ Unmark(c) \/ Vacant(c) \/ Mark(c) \/ Halt(c)
             \/ Gone(c) \/ Launch(c) \/ Await(c) \/ TimeOut(c) \/ Ask(c)
          /\ UNCHANGED faults
       \/ (ManagerFails(c) \/ Killed(c)) /\ faults' = faults + 1
    /\ disturbed' = {d \in disturbed : todo'[d] # {}}
    /\ UNCHANGED <<installed, guardRecord, changes, crashes>>

----------------------------------------------------------------------------
(* Services.                                                               *)

\* A service looks at its marker as it starts, and leaves without it.
Boot(u) ==
    /\ unit[u] # "down" /\ u \notin ready
    /\ IF u \in marker
       THEN /\ ready' = ready \cup {u}
            /\ requested' = IF u = "controller" THEN intent ELSE requested
            /\ UNCHANGED <<unit, busy, stopping>>
       ELSE Ends(u)
    /\ UNCHANGED failed

\* The supervisor of the chat and the monitor look at it again on every turn.
Resign(u) ==
    /\ u \in {"chat", "monitor"} \cap ready
    /\ u \notin marker
    /\ Ends(u)
    /\ UNCHANGED failed

TakeWork(u) ==
    /\ u \in ready \ busy
    /\ u = "controller" => requested /\ ~stopping
    /\ u = "chat" => ~guardRecord
    /\ u # "monitor"
    /\ busy' = busy \cup {u}
    /\ UNCHANGED <<unit, failed, ready, stopping, requested>>

EndWork(u) ==
    /\ u \in busy
    /\ busy' = busy \ {u}
    /\ UNCHANGED <<unit, failed, ready, stopping, requested>>

Crash(u) ==
    /\ unit[u] # "down"
    /\ crashes < CrashBound
    /\ Ends(u)
    /\ failed' = failed \cup {u}

\* Restart=on-failure, with whatever program is installed by then.
Restart(u) ==
    /\ u \in failed
    /\ unit' = [unit EXCEPT ![u] = installed]
    /\ failed' = failed \ {u}
    /\ UNCHANGED <<ready, stopping, requested, busy>>

ServiceStep(u) ==
    /\ \/ (Boot(u) \/ Resign(u) \/ TakeWork(u) \/ EndWork(u) \/ Restart(u))
          /\ UNCHANGED <<crashes, disturbed>>
       \/ /\ Crash(u)
          /\ crashes' = crashes + 1
          /\ disturbed' = IF u = "controller" THEN {c \in Client : todo[c] # {}} ELSE disturbed
    /\ UNCHANGED <<installed, guardRecord, intentVars, commandVars, changes, faults>>

----------------------------------------------------------------------------
LifecycleTypeOK ==
    /\ installed \in {"old", "new"}
    /\ {guardRecord, intent, stopping, requested} \subseteq BOOLEAN
    /\ unit \in [Unit -> {"down", "old", "new"}]
    /\ marker \subseteq Unit /\ failed \subseteq Unit /\ ready \subseteq Unit
    /\ busy \subseteq ready
    /\ \A c \in Client : /\ aim[c].unit \in Unit \cup {"worker"}
                         /\ outcome[c] \in {"none", "done", "failed"}
                         /\ promise[c] \in {"none", "marked", "unmarked"}
    /\ disturbed \subseteq Client
    /\ \A u \in ready : unit[u] # "down" /\ u \notin failed

\* A controller that promised to stop, for a stop or a restart, loses no job to
\* it: only when it crashed in the meantime may the one that the service manager
\* put in its place have taken one.
StopSparesWork ==
    [][\A c \in Client : At(c, "halt") /\ todo'[c] # todo[c] /\ promise[c] # "none"
                         /\ "controller" \in busy \ busy' => c \in disturbed]_lifecycleVars
=============================================================================
