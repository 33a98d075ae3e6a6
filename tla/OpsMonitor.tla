----------------------------- MODULE OpsMonitor -----------------------------
(***************************************************************************)
(* The operations monitor, internal/opsmonitor: it reads facts about the   *)
(* chat, its receiver and the controller, gives every diagnostic code an   *)
(* outcome, and keeps in one file the active diagnostics and a bounded log *)
(* of alerts, under a lock of its own.  What an observation cannot tell    *)
(* neither raises an alert nor resolves one.                               *)
(*                                                                         *)
(* A definition marked "Variant" is a plausible slip in the one after it.  *)
(***************************************************************************)
EXTENDS Naturals, Sequences, FiniteSets

CONSTANTS
    World,          \* the facts that are explored, records as in Facts
    Monitor,        \* monitor processes
    ManagedMonitor, \* the one the service manager runs while the monitor is enabled
    AlertLimit,     \* Limits.MaxMessages, the alerts that are kept
    ObserveBound,   \* bound on observations
    MarkerBound     \* bound on enabling and disabling the monitor, and on kills

Facts == [chatIntent : {"on", "off", "unreadable"},
          registration : {"unknown", "absent", "present"}, unitReadable : BOOLEAN,
          supervisor : {"alive", "dead", "unreadable"}, receiver : {"alive", "dead", "unreadable"},
          blocked : BOOLEAN, poll : {"fresh", "stale", "unknown"},
          request : {"none", "young", "stalled", "unknown"},
          controllerIntent : {"on", "off", "unreadable"},
          probe : {"responsive", "no_endpoint", "failed"},
          dispatch : {"unknown", "ready", "unavailable", "error", "both"}]

ASSUME MonitorAssumption ==
    /\ World \subseteq Facts /\ ManagedMonitor \in Monitor
    /\ AlertLimit \in Nat \ {0} /\ {ObserveBound, MarkerBound} \subseteq Nat

VARIABLES
    watching,   \* the marker of the monitor
    watch,         \* where a monitor process is
    watcher,    \* who holds the lock
    observed,   \* the facts of the observation under way
    diagnostics,    \* active_diagnostics of state.json
    alerts,         \* its alerts, oldest first
    lastKnown,      \* the last outcome of a code that an observation could tell
    latest,     \* latest, its newest observation
    observations, marks

monitorVars == <<watching, watch, watcher, observed, diagnostics, alerts, lastKnown, latest, observations, marks>>

\* Every code, in the order in which an observation is logged.
Logged == <<"active_request_stalled", "ai_recovery_required", "backend_dispatch_error",
            "backend_dispatch_status_unreadable", "backend_dispatch_unavailable",
            "chat_intent_unreadable", "chat_service_state_unreadable",
            "chat_service_status_unreadable", "chat_service_unregistered",
            "controller_intent_unreadable", "controller_probe_failed", "controller_unavailable",
            "poll_progress_stalled", "receiver_state_unreadable", "receiver_unavailable",
            "supervisor_state_unreadable", "supervisor_unavailable">>

Code == {Logged[i] : i \in DOMAIN Logged}
ServiceCodes == {"chat_service_state_unreadable", "chat_service_unregistered", "chat_service_status_unreadable"}
ProgressCodes == {"ai_recovery_required", "poll_progress_stalled", "active_request_stalled"}
DispatchCodes == {"backend_dispatch_status_unreadable", "backend_dispatch_unavailable", "backend_dispatch_error"}
BackendCodes == {"controller_unavailable", "controller_probe_failed"} \cup DispatchCodes
FrontendCodes == Code \ (BackendCodes \cup {"chat_intent_unreadable", "controller_intent_unreadable"})

----------------------------------------------------------------------------
(* Check: the outcome of every code.  A code that is not a problem and not *)
(* unknown is healthy, unless its part is disabled.                        *)

FrontendProblems(f) ==
    CASE f.chatIntent = "unreadable" -> {"chat_intent_unreadable"}
      [] f.chatIntent = "off" -> {}
      [] f.chatIntent = "on" ->
           (CASE f.registration = "unknown" -> {"chat_service_state_unreadable"}
              [] f.registration = "absent" -> {"chat_service_unregistered"}
              [] OTHER -> IF f.unitReadable THEN {} ELSE {"chat_service_status_unreadable"})
           \cup (CASE f.supervisor = "unreadable" -> {"supervisor_state_unreadable"}
                   [] f.supervisor = "dead" -> {"supervisor_unavailable"} [] OTHER -> {})
           \cup (CASE f.receiver = "unreadable" -> {"receiver_state_unreadable"}
                   [] f.receiver = "dead" -> {"receiver_unavailable"}
                   [] OTHER -> (IF f.blocked THEN {"ai_recovery_required"} ELSE {})
                               \cup (IF f.poll = "stale" THEN {"poll_progress_stalled"} ELSE {})
                               \cup (IF f.request = "stalled" THEN {"active_request_stalled"} ELSE {}))

FrontendUnknown(f) ==
    CASE f.chatIntent = "unreadable" -> FrontendCodes
      [] f.chatIntent = "off" -> {}
      [] f.chatIntent = "on" ->
           (CASE f.registration = "unknown" -> ServiceCodes \ {"chat_service_state_unreadable"}
              [] f.registration = "absent" -> {"chat_service_status_unreadable"} [] OTHER -> {})
           \cup (IF f.supervisor = "unreadable" THEN {"supervisor_unavailable"} ELSE {})
           \cup (IF f.receiver = "unreadable" THEN {"receiver_unavailable"} ELSE {})
           \cup (IF f.receiver # "alive" THEN ProgressCodes
                 ELSE (IF f.poll = "unknown" THEN {"poll_progress_stalled"} ELSE {})
                      \cup (IF f.request = "unknown" THEN {"active_request_stalled"} ELSE {}))

BackendProblems(f) ==
    CASE f.controllerIntent = "unreadable" -> {"controller_intent_unreadable"}
      [] f.controllerIntent = "off" -> {}
      [] f.probe = "no_endpoint" -> {"controller_unavailable"}
      [] f.probe = "failed" -> {"controller_probe_failed"}
      [] OTHER -> (IF f.dispatch \in {"unavailable", "both"} THEN {"backend_dispatch_unavailable"} ELSE {})
                  \cup (IF f.dispatch \in {"error", "both"} THEN {"backend_dispatch_error"} ELSE {})

BackendUnknown(f) ==
    CASE f.controllerIntent = "unreadable" -> BackendCodes
      [] f.controllerIntent = "off" -> {}
      [] f.probe = "no_endpoint" -> DispatchCodes
      [] f.probe = "failed" -> DispatchCodes \cup {"controller_unavailable"}
      [] OTHER -> IF f.dispatch = "unknown" THEN DispatchCodes ELSE {}

Problems(f) == FrontendProblems(f) \cup BackendProblems(f)
Unknowns(f) == FrontendUnknown(f) \cup BackendUnknown(f)
Disabled(f) == (IF f.chatIntent = "off" THEN FrontendCodes ELSE {})
               \cup (IF f.controllerIntent = "off" THEN BackendCodes ELSE {})
Healthy(f) == Code \ (Problems(f) \cup Unknowns(f) \cup Disabled(f))

\* classify: the health of one side from its codes.
Classified(f, codes, unavailable, disabled) ==
    CASE disabled -> "disabled"
      [] ~disabled /\ Problems(f) \cap unavailable # {} -> "unavailable"
      [] ~disabled /\ Problems(f) \cap unavailable = {} /\ Problems(f) \cap codes # {} -> "degraded"
      [] OTHER -> IF Unknowns(f) \cap codes # {} THEN "unknown" ELSE "ready"

FrontendHealth(f) ==
    Classified(f, FrontendCodes,
               {"chat_service_unregistered", "supervisor_unavailable", "receiver_unavailable"},
               f.chatIntent = "off")

BackendHealth(f) ==
    Classified(f, BackendCodes \cup {"controller_intent_unreadable"},
               {"controller_unavailable", "backend_dispatch_unavailable"}, f.controllerIntent = "off")

----------------------------------------------------------------------------
MonitorInit ==
    /\ watching = TRUE
    /\ watch = [m \in Monitor |-> "off"]
    /\ watcher = {} /\ observed = {}
    /\ diagnostics = {} /\ alerts = <<>>
    /\ lastKnown = [c \in Code |-> "healthy"]
    /\ latest = {} /\ observations = 0 /\ marks = 0

SwitchMonitor ==
    /\ marks < MarkerBound
    /\ watching' = ~watching /\ marks' = marks + 1
    /\ UNCHANGED <<watch, watcher, observed, diagnostics, alerts, lastKnown, latest, observations>>

\* Run: a managed monitor looks at the marker before and after the lock, and
\* before each further observation.
Wanted(m) == m = ManagedMonitor => watching

StartMonitor(m) ==
    /\ watch[m] = "off" /\ Wanted(m)
    /\ watch' = [watch EXCEPT ![m] = "waiting"]
    /\ UNCHANGED <<watching, watcher, observed, diagnostics, alerts, lastKnown, latest, observations, marks>>

LockMonitor(m) ==
    /\ watch[m] = "waiting" /\ watcher = {}
    /\ IF Wanted(m) THEN watcher' = {m} /\ watch' = [watch EXCEPT ![m] = "idle"]
       ELSE watch' = [watch EXCEPT ![m] = "off"] /\ UNCHANGED watcher
    /\ UNCHANGED <<watching, observed, diagnostics, alerts, lastKnown, latest, observations, marks>>

Observe(m) ==
    /\ watch[m] = "idle" /\ Wanted(m)
    /\ observations < ObserveBound
    /\ observations' = observations + 1
    /\ \E f \in World : observed' = {f}
    /\ watch' = [watch EXCEPT ![m] = "persist"]
    /\ UNCHANGED <<watching, watcher, diagnostics, alerts, lastKnown, latest, marks>>

\* The codes an observation can tell, in the order of the log.
KnownVariant(f) == Problems(f) \cup Healthy(f) \cup Unknowns(f)

Known(f) == Problems(f) \cup Healthy(f)

\* Some codes, in the order of the log.
InOrder(codes) ==
    LET at == {i \in DOMAIN Logged : Logged[i] \in codes}
    IN  [n \in 1..Cardinality(at) |-> Logged[CHOOSE i \in at : Cardinality({k \in at : k <= i}) = n]]

Newest(s, n) == IF Len(s) <= n THEN s ELSE SubSeq(s, Len(s) - n + 1, Len(s))

Persist(m) ==
    /\ watch[m] = "persist"
    /\ LET f == CHOOSE g \in observed : TRUE
           raised == Problems(f) \ diagnostics
           resolved == (Known(f) \ Problems(f)) \cap diagnostics
           new == InOrder(raised \cup resolved)
       IN  /\ diagnostics' = (diagnostics \ resolved) \cup raised
           /\ alerts' = Newest(alerts \o [i \in DOMAIN new |->
                              [code |-> new[i], raised |-> new[i] \in raised]], AlertLimit)
           /\ lastKnown' = [c \in Code |-> CASE c \in Problems(f) -> "problem"
                                             [] c \in Healthy(f) -> "healthy"
                                             [] OTHER -> lastKnown[c]]
    /\ latest' = observed /\ observed' = {} /\ watch' = [watch EXCEPT ![m] = "idle"]
    /\ UNCHANGED <<watching, watcher, observations, marks>>

\* It ends: told so, once, disabled, with an error, or killed at any point.
EndMonitor(m) ==
    /\ watch[m] # "off"
    /\ (watch[m] = "idle") \/ marks < MarkerBound
    /\ marks' = IF watch[m] = "idle" THEN marks ELSE marks + 1
    /\ watch' = [watch EXCEPT ![m] = "off"]
    /\ watcher' = watcher \ {m}
    /\ observed' = IF m \in watcher THEN {} ELSE observed
    /\ UNCHANGED <<watching, diagnostics, alerts, lastKnown, latest, observations>>

MonitorNext ==
    \/ SwitchMonitor
    \/ \E m \in Monitor : StartMonitor(m) \/ LockMonitor(m) \/ Observe(m) \/ Persist(m) \/ EndMonitor(m)

----------------------------------------------------------------------------
MonitorTypeOK ==
    /\ watch \in [Monitor -> {"off", "waiting", "idle", "persist"}]
    /\ Cardinality(watcher) <= 1 /\ Cardinality(observed) <= 1
    /\ diagnostics \subseteq Code /\ Len(alerts) <= AlertLimit

AlertsOf(c) == {i \in DOMAIN alerts : alerts[i].code = c}

\* Over any sequence of observations, of any number of monitors, a diagnostic is
\* active exactly while its last outcome that could be told was a problem; its
\* alerts alternate, the last one says what is active, and one that is active is
\* in the log unless newer alerts have pushed it out.  A side that is said to be
\* ready has no active diagnostic.
AlertsFollowOutcomes ==
    \A c \in Code :
        /\ (c \in diagnostics) <=> (lastKnown[c] = "problem")
        /\ \A i \in AlertsOf(c) :
              IF \E k \in AlertsOf(c) : k > i
              THEN \E k \in AlertsOf(c) : /\ k > i /\ alerts[k].raised # alerts[i].raised
                                          /\ \A n \in AlertsOf(c) : n <= i \/ n >= k
              ELSE alerts[i].raised <=> c \in diagnostics
        /\ c \in diagnostics /\ AlertsOf(c) = {} => Len(alerts) = AlertLimit
        /\ \A f \in latest : /\ FrontendHealth(f) = "ready" => c \notin diagnostics \cap FrontendCodes
                             /\ BackendHealth(f) = "ready" => c \notin diagnostics \cap BackendCodes
=============================================================================
