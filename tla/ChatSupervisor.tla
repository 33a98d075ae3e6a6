--------------------------- MODULE ChatSupervisor ---------------------------
(***************************************************************************)
(* The supervisor of the chat, internal/chatsupervisor: it holds a lock,   *)
(* cleans up what an earlier life left, starts one receiver process and    *)
(* records it in steps (starting, running, exited) around the start,       *)
(* watches it, and begins again after a delay as long as the chat is       *)
(* enabled.  Supervisors and receivers may be killed at any step; the      *)
(* receiver of a killed supervisor lives on.  A person may run a second    *)
(* supervisor or a receiver in a terminal.  The record is the only thing   *)
(* a later life knows of the receivers of an earlier one.  The service     *)
(* manager is that of Linux, which restarts a unit only when it failed.    *)
(*                                                                         *)
(* A definition marked "Variant" is a plausible slip in the one after it.  *)
(***************************************************************************)
EXTENDS Naturals, FiniteSets

CONSTANTS
    Supervisor,     \* supervisor processes
    ServiceUnit,    \* the one the service manager runs and restarts on failure
    Receiver,       \* slots for receiver processes
    SwitchBound,    \* bound on enabling and disabling the chat
    MishapBound     \* bound on kills, signals, stalls and failed writes

ASSUME SupervisorAssumption ==
    /\ ServiceUnit \in Supervisor
    /\ {SwitchBound, MishapBound} \subseteq Nat

VARIABLES
    enabled,    \* the marker of the chat
    start,      \* how far the last "telegram start" has come
    halted,     \* the service manager was told to stop the unit, and not to start it since
    doing,      \* what a supervisor is at
    signalled,  \* supervisors that were told to end
    child,      \* the receivers a supervisor started in this life
    guardian,   \* who holds the lock of the supervisors
    record,     \* receiver.json: its state and, from "running" on, a process
    life,       \* of a receiver process
    supervised, \* the receivers a supervisor started
    transport,  \* who holds the lock of the channel
    switches, mishaps

intentVars == <<enabled, start, halted>>
processVars == <<life, supervised, transport>>
supervisorVars == <<intentVars, doing, signalled, child, guardian, record, processVars,
                    switches, mishaps>>

Cleaning == {"cleanup", "reap"}
Excluding == {"transport", "reconcile"}
Down == {"off", "failed", "unread"}    \* ended with 0, with an error, with 0 for want of the marker
Doing == {"lock", "check", "spawn", "start", "identify", "watch", "stop", "wait", "quit"}
         \cup Down \cup Cleaning \cup Excluding
Alive(r) == life[r] \in {"started", "serving"}

SupervisorInit ==
    /\ enabled = FALSE /\ start = "none" /\ halted = FALSE
    /\ doing = [s \in Supervisor |-> "off"]
    /\ signalled = {}
    /\ child = [s \in Supervisor |-> {}]
    /\ guardian = {}
    /\ record = [state |-> "none", of |-> {}]
    /\ life = [r \in Receiver |-> "gone"]
    /\ supervised = {} /\ transport = {}
    /\ switches = 0 /\ mishaps = 0

Goes(s, to) == doing' = [doing EXCEPT ![s] = to]
Mishap == mishaps < MishapBound /\ mishaps' = mishaps + 1
Note(state, of) == record' = [state |-> state, of |-> of]

\* The processes that end give back the lock of the channel.
Ended(gone) ==
    /\ life' = [r \in Receiver |-> IF r \in gone THEN "gone" ELSE life[r]]
    /\ transport' = transport \ gone
    /\ UNCHANGED supervised

----------------------------------------------------------------------------
(* The commands of the owner, one at a time; each may die between its      *)
(* steps.  "telegram start" sets the marker, has the unit started and      *)
(* waits until its receiver serves; "telegram stop" removes the marker and *)
(* then has the unit stopped.                                              *)

Commanding == start \in {"asked", "waiting"}

Enable ==
    /\ ~Commanding /\ switches < SwitchBound
    /\ enabled' = TRUE /\ start' = "asked" /\ switches' = switches + 1
    /\ UNCHANGED <<halted, doing, signalled, child, guardian, record, processVars, mishaps>>

\* A unit that is up is not started again, one that is told to end ends first.
StartUnit ==
    /\ start = "asked"
    /\ start' = "waiting" /\ halted' = FALSE
    /\ \/ doing[ServiceUnit] \in Down /\ Goes(ServiceUnit, "lock")
       \/ doing[ServiceUnit] \notin Down /\ ~halted /\ UNCHANGED doing
    /\ UNCHANGED <<enabled, signalled, child, guardian, record, processVars, switches, mishaps>>

\* Ready; or failed, timed out, dead, or ready by the receiver of another
\* supervisor: then the marker stays set, and of the unit nothing is known.
StartReturns ==
    /\ \/ start = "waiting" /\ transport # {} /\ transport \subseteq child[ServiceUnit] /\ start' = "made"
       \/ Commanding /\ start' = "unsure"
    /\ UNCHANGED <<enabled, halted, doing, signalled, child, guardian, record, processVars, switches, mishaps>>

Disable ==
    /\ enabled /\ ~Commanding /\ switches < SwitchBound
    /\ enabled' = FALSE /\ start' = "none" /\ switches' = switches + 1
    /\ UNCHANGED <<halted, doing, signalled, child, guardian, record, processVars, mishaps>>

\* After Disable; the updater stops the unit too, and leaves the marker.
StopUnit ==
    /\ ~Commanding /\ ~halted
    /\ start' = "none" /\ halted' = TRUE
    /\ signalled' = signalled \cup {s \in {ServiceUnit} : doing[s] \notin Down}
    /\ UNCHANGED <<enabled, doing, child, guardian, record, processVars, switches, mishaps>>

----------------------------------------------------------------------------
(* The life of a supervisor process.                                       *)

\* The service manager restarts a unit that failed, unless it was told to stop
\* it; a person starts another.
RestartUnit ==
    /\ doing[ServiceUnit] = "failed" /\ ~halted
    /\ Goes(ServiceUnit, "lock")
    /\ UNCHANGED <<intentVars, signalled, child, guardian, record, processVars, switches, mishaps>>

RunByHand(s) ==
    /\ s # ServiceUnit /\ doing[s] \in Down
    /\ Mishap
    /\ Goes(s, "lock")
    /\ UNCHANGED <<intentVars, signalled, child, guardian, record, processVars, switches>>

TakeLock(s) ==
    /\ doing[s] = "lock" /\ guardian = {}
    /\ guardian' = {s} /\ Goes(s, "check")
    /\ UNCHANGED <<intentVars, signalled, child, record, processVars, switches, mishaps>>

LockTimesOut(s) ==
    /\ doing[s] = "lock" /\ guardian # {}
    /\ Goes(s, "failed")
    /\ signalled' = signalled \ {s}
    /\ UNCHANGED <<intentVars, child, guardian, record, processVars, switches, mishaps>>

\* Run leaves its loop: a signal, or the chat is not enabled any more.
Quit(s) ==
    /\ doing[s] \in {"check", "wait"}
    /\ s \in signalled \/ ~enabled
    /\ Goes(s, "quit")
    /\ guardian' = {} /\ child' = [child EXCEPT ![s] = {}]
    /\ UNCHANGED <<intentVars, signalled, record, processVars, switches, mishaps>>

\* Last it reads the marker: a signal while the chat is enabled is a failure,
\* unless the marker cannot be read.
EndsAsVariant(s) == "off"

EndsAs(s) == IF s \in signalled /\ enabled THEN "failed" ELSE "off"

Ends(s) ==
    /\ doing[s] = "quit"
    /\ \/ Goes(s, EndsAs(s)) /\ UNCHANGED mishaps
       \/ s \in signalled /\ Mishap /\ Goes(s, "unread")
    /\ signalled' = signalled \ {s}
    /\ UNCHANGED <<intentVars, child, guardian, record, processVars, switches>>

Signal(s) ==
    /\ doing[s] \notin Down
    /\ Mishap
    /\ signalled' = signalled \cup {s}
    /\ UNCHANGED <<intentVars, doing, child, guardian, record, processVars, switches>>

\* Killed: the lock goes, the receiver may stay or be ended with its unit.
Kill(s) ==
    /\ doing[s] \notin Down
    /\ Mishap
    /\ Goes(s, "failed")
    /\ guardian' = guardian \ {s} /\ signalled' = signalled \ {s}
    /\ child' = [child EXCEPT ![s] = {}]
    /\ \E gone \in SUBSET child[s] : Ended(gone)
    /\ UNCHANGED <<intentVars, record, switches>>

----------------------------------------------------------------------------
(* The loop of Run.                                                        *)

\* After the delay, and at first, an enabled chat is cleaned up; it waits
\* again when the marker cannot be read.
Begin(s) ==
    /\ doing[s] \in {"check", "wait"} /\ s \notin signalled
    /\ \/ enabled /\ Goes(s, IF doing[s] = "wait" THEN "check" ELSE "cleanup") /\ UNCHANGED mishaps
       \/ doing[s] = "check" /\ Mishap /\ Goes(s, "wait")
    /\ UNCHANGED <<intentVars, signalled, child, guardian, record, processVars, switches>>

\* executor.Reconcile: "starting" may hide a process nobody can name.
Unknown == {"starting"}

\* First half of cleanup, before a start and after an end (then "reap").
CleanUp(s) ==
    /\ doing[s] \in Cleaning
    /\ LET orphans == {r \in record.of : Alive(r)}
           onward == IF doing[s] = "cleanup" THEN "transport" ELSE "reconcile"
       IN  \/ /\ record.state \in Unknown
              /\ Goes(s, "wait")
              /\ UNCHANGED <<record, processVars, mishaps>>
           \/ /\ record.state \notin Unknown
              /\ Ended(orphans)
              /\ IF record.state = "running" THEN Note("exited", record.of) ELSE UNCHANGED record
              /\ Goes(s, onward)
              /\ UNCHANGED mishaps
           \/ /\ record.state = "running" /\ Mishap     \* not confirmed, or not saved
              /\ \E gone \in SUBSET orphans : Ended(gone)
              /\ Goes(s, "wait")
              /\ UNCHANGED record
    /\ UNCHANGED <<intentVars, signalled, child, guardian, switches>>

\* Second half: the lock of the channel, and the assistants of its receiver.
Exclude(s) ==
    /\ doing[s] \in Excluding
    /\ \/ transport = {} /\ Goes(s, IF doing[s] = "transport" THEN "spawn" ELSE "wait") /\ UNCHANGED mishaps
       \/ transport # {} /\ Goes(s, "wait") /\ UNCHANGED mishaps
       \/ Mishap /\ Goes(s, "wait")
    /\ UNCHANGED <<intentVars, signalled, child, guardian, record, processVars, switches>>

AnnounceStart(s) ==
    /\ doing[s] = "spawn"
    /\ \/ Note("starting", {}) /\ Goes(s, "start") /\ UNCHANGED mishaps
       \/ Mishap /\ Goes(s, "wait") /\ UNCHANGED record
    /\ UNCHANGED <<intentVars, signalled, child, guardian, processVars, switches>>

StartChild(s) ==
    /\ doing[s] = "start"
    /\ \/ \E r \in Receiver \ record.of :
             /\ ~Alive(r)
             /\ life' = [life EXCEPT ![r] = "started"]
             /\ supervised' = supervised \cup {r}
             /\ child' = [child EXCEPT ![s] = {r}]
             /\ Goes(s, "identify")
             /\ UNCHANGED <<transport, record, mishaps>>
       \/ /\ Mishap             \* "not_started" may not be saved either
          /\ Note("not_started", {}) \/ UNCHANGED record
          /\ Goes(s, "wait")
          /\ UNCHANGED <<processVars, child>>
    /\ UNCHANGED <<intentVars, signalled, guardian, switches>>

\* Without an identity on disk the child is killed; the record stays "starting".
IdentifyChild(s) ==
    /\ doing[s] = "identify"
    /\ \/ Note("running", child[s]) /\ Goes(s, "watch") /\ UNCHANGED <<processVars, mishaps>>
       \/ Mishap /\ Ended(child[s]) /\ Goes(s, "wait") /\ UNCHANGED record
    /\ UNCHANGED <<intentVars, signalled, child, guardian, switches>>

\* A signal, the end of the child, the marker, or a heartbeat that is missing:
\* while another process has the channel it must be.
LeaveWatch(s) ==
    /\ doing[s] = "watch"
    /\ \/ /\ s \in signalled \/ ~enabled \/ (\E r \in child[s] : ~Alive(r)) \/ transport \ child[s] # {}
          /\ UNCHANGED mishaps
       \/ Mishap
    /\ Goes(s, "stop")
    /\ UNCHANGED <<intentVars, signalled, child, guardian, record, processVars, switches>>

\* Interrupted, then killed; "exited" only when its group is gone and it is saved.
StopChild(s) ==
    /\ doing[s] = "stop"
    /\ Ended(child[s])
    /\ \/ Note("exited", child[s]) /\ UNCHANGED mishaps
       \/ Mishap /\ UNCHANGED record
    /\ child' = [child EXCEPT ![s] = {}]
    /\ Goes(s, "reap")
    /\ UNCHANGED <<intentVars, signalled, guardian, switches>>

----------------------------------------------------------------------------
(* Receiver processes: "chunsu telegram" takes the lock of the channel.    *)

TakeTransport(r) ==
    /\ life[r] = "started" /\ transport = {}
    /\ transport' = {r} /\ life' = [life EXCEPT ![r] = "serving"]
    /\ UNCHANGED <<intentVars, doing, signalled, child, guardian, record, supervised, switches, mishaps>>

\* Its wait for the lock ends, or it fails.
ReceiverEnds(r) ==
    /\ Alive(r)
    /\ (life[r] = "started" /\ transport # {} /\ UNCHANGED mishaps) \/ Mishap
    /\ Ended({r})
    /\ UNCHANGED <<intentVars, doing, signalled, child, guardian, record, switches>>

InTerminal(r) ==
    /\ ~Alive(r) /\ r \notin record.of /\ \A s \in Supervisor : r \notin child[s]
    /\ Mishap
    /\ life' = [life EXCEPT ![r] = "started"]
    /\ supervised' = supervised \ {r}
    /\ UNCHANGED <<intentVars, doing, signalled, child, guardian, record, transport, switches>>

SupervisorStep(s) ==
    \/ TakeLock(s) \/ LockTimesOut(s) \/ Quit(s) \/ Ends(s) \/ Begin(s) \/ CleanUp(s) \/ Exclude(s)
    \/ AnnounceStart(s) \/ StartChild(s) \/ IdentifyChild(s) \/ LeaveWatch(s) \/ StopChild(s)

SupervisorNext ==
    \/ Enable \/ StartUnit \/ StartReturns \/ Disable \/ StopUnit \/ RestartUnit
    \/ \E s \in Supervisor : SupervisorStep(s) \/ RunByHand(s) \/ Signal(s) \/ Kill(s)
    \/ \E r \in Receiver : TakeTransport(r) \/ ReceiverEnds(r) \/ InTerminal(r)

----------------------------------------------------------------------------
SupervisorTypeOK ==
    /\ doing \in [Supervisor -> Doing]
    /\ signalled \subseteq Supervisor /\ supervised \subseteq Receiver
    /\ child \in [Supervisor -> {{}} \cup {{r} : r \in Receiver}]
    /\ record.state \in {"none", "starting", "running", "not_started", "exited"}
    /\ Cardinality(transport) <= 1 /\ \A r \in Receiver : life[r] = "serving" <=> transport = {r}
    /\ start \in {"none", "asked", "waiting", "made", "unsure"} /\ {enabled, halted} \subseteq BOOLEAN
    /\ \A s \in Supervisor : doing[s] \notin Down \cup {"lock", "quit"} <=> guardian = {s}

\* However supervisors and receivers are killed, at most one receiver process
\* that a supervisor started is alive: a later life ends the earlier one's
\* receiver, or starts none while it cannot name it.
OneSupervisedReceiver == Cardinality({r \in supervised : Alive(r)}) <= 1

\* A start whose process was never named holds up every later one: the record
\* stays "starting" and only a person can resolve it.
Stranded == record.state = "starting" /\ \A s \in Supervisor : doing[s] \notin {"start", "identify"}

\* The unit is down and nobody will start it: no start of it has been confirmed
\* since the marker was set, it was stopped without the marker, or its end could
\* not read the marker.
Unattended ==
    \/ start # "made" /\ (doing[ServiceUnit] = "off" \/ halted)
    \/ doing[ServiceUnit] = "unread"

\* An enabled chat is served again after kills, signals and stalls, unless it is
\* disabled, stranded or unattended: a start that was confirmed is never lost to
\* them, and one that was not may leave the chat enabled with no unit.
EnabledChatReturns == enabled ~> (~enabled \/ transport # {} \/ Stranded \/ Unattended)
=============================================================================
