------------------------------ MODULE OpsLedger ------------------------------
(***************************************************************************)
(* The team operations ledger of internal/ops: work, release cycles and    *)
(* their targets, deployment evidence, and the incidents and notification  *)
(* plans that reconciled AI reports lead to.  The ledger is a chain of     *)
(* records that every load replays; its state is what the replay yields,   *)
(* and here the variables are that state.                                  *)
(*                                                                         *)
(* A caller names its operation and the revision it has read.  Its answer  *)
(* may be lost: it then asks again under the same name, with the revision  *)
(* of before or a newer one.  "informed" holds the callers whose revision  *)
(* is that of the ledger.  Actions are owner commands, one record each;    *)
(* evidence statements, owners and wording are left out.  A cycle is named *)
(* by its place in the order of the deployment deadlines.  Evidence of a   *)
(* deployment has a date of its own, past or future, and a report is for a *)
(* time that may be another than the one it is made or applied at.         *)
(*                                                                         *)
(* A definition marked "Variant" is a plausible slip in the one after it.  *)
(***************************************************************************)
EXTENDS Naturals, Sequences

CONSTANTS
    OpsCaller,          \* processes that send commands
    Work,               \* work items
    Cycle,              \* release cycles, a set of numbers
    Concern,            \* what risks are about, which identifies an incident
    Policy,             \* policies the owner may set
    EventBound,         \* max_evidence_bytes, as a number of records
    TimeBound           \* bound on the clock and on dates

ASSUME LedgerAssumption ==
    /\ Cycle \subseteq Nat
    /\ Concern \subseteq [kind : {"release_work_incomplete", "deployment_not_done", "deployment_unknown",
                                "deployed_unrecorded"}, on : Cycle]
                       \cup [kind : {"schedule_changed"}, on : Work]
    /\ Policy \subseteq [routed : BOOLEAN, quiet : SUBSET {"P0", "P2"}, cooldown : Nat, bypass : BOOLEAN]
    /\ EventBound \in Nat /\ TimeBound \in Nat

VARIABLES
    revision,       \* State.Revision
    informed,       \* callers whose ExpectedRevision is the revision
    recorded,       \* callers whose OperationID is in the ledger
    work,           \* WorkItem.State, "absent" before it is created
    moved,          \* work whose due time was revised
    commitment,     \* of a cycle and a work item: the current Commitment
    deployments,    \* of a cycle and a work item: ReleaseCycle.Deployments
    observations,   \* imported captures of what is said elsewhere
    policy,         \* State.Policy
    incident,       \* State.Incidents, by what they are about
    plans,          \* State.Notifications of each incident, oldest first
    headAt,         \* when the latest record was written
    report,         \* the latest validated report, the time it is for, and whether its
                    \* input is the ledger
    now             \* the clock

businessVars == <<work, moved, commitment, deployments, observations>>
incidentVars == <<policy, incident, plans>>
ledgerVars == <<revision, informed, recorded, businessVars, incidentVars, headAt, report, now>>

WorkState == {"ready", "inprogress", "waiting", "completed", "cancelled"}
Closed == {"completed", "cancelled"}
Severity == {"P0", "P2"}
Deployment == [at : 0..TimeBound, status : {"deployed", "not_deployed", "unknown"}]

\* What can be cited: the ledger itself, and what NormalizeObservation makes of a capture.
Observation == {"capture"}
Sources == {"ledger"} \cup observations

Risk == [concern : Concern, severity : Severity, citation : {"ledger"} \cup Observation]
NoIncident == [state |-> "none"]
NoReport == [risk |-> [severity |-> "none"], asOf |-> 0, current |-> FALSE]

\* No recipients, nothing quiet: DefaultPolicy without its digest modes.
DefaultPolicy == [routed |-> FALSE, quiet |-> {}, cooldown |-> 0, bypass |-> FALSE]

\* A scope with cycles and a policy, and perhaps with work that is a target.
LedgerInit ==
    /\ revision = 0 /\ informed = {} /\ recorded = {}
    /\ \E s \in {"absent", "ready"} :
          /\ work = [w \in Work |-> s]
          /\ commitment = [c \in Cycle |-> [w \in Work |->
                          IF s = "ready" /\ c = 1 THEN "included" ELSE "none"]]
    /\ moved = {}
    /\ deployments = [c \in Cycle |-> [w \in Work |-> {}]]
    /\ observations = {}
    /\ policy \in Policy \cup {DefaultPolicy}
    /\ incident = [c \in Concern |-> NoIncident]
    /\ plans = [c \in Concern |-> <<>>]
    /\ headAt = 0 /\ report = NoReport /\ now = 0

----------------------------------------------------------------------------
(* Work and releases.                                                      *)

CreateWork ==
    \E w \in Work : /\ work[w] = "absent" /\ work' = [work EXCEPT ![w] = "ready"]
                    /\ UNCHANGED <<moved, commitment, deployments, observations, incidentVars>>

MoveWork ==
    \E w \in Work, s \in WorkState :
        /\ work[w] \notin {"absent", s}
        /\ work[w] \in Closed => s \in {"ready", "inprogress"}
        /\ work' = [work EXCEPT ![w] = s]
        /\ UNCHANGED <<moved, commitment, deployments, observations, incidentVars>>

Reschedule ==
    \E w \in Work : /\ work[w] # "absent" /\ moved' = moved \cup {w}
                    /\ UNCHANGED <<work, commitment, deployments, observations, incidentVars>>

\* release.target: include, exclude, or carry to a later cycle.
SetTarget ==
    \E c \in Cycle, w \in Work :
        /\ work[w] # "absent"
        /\ \/ /\ commitment[c][w] # "included"
              /\ commitment' = [commitment EXCEPT ![c][w] = "included"]
           \/ /\ commitment[c][w] = "included"
              /\ commitment' = [commitment EXCEPT ![c][w] = "excluded"]
        /\ UNCHANGED <<work, moved, deployments, observations, incidentVars>>

Carry ==
    \E c, d \in Cycle, w \in Work :
        /\ commitment[c][w] = "included" /\ c < d /\ commitment[d][w] # "included"
        /\ commitment' = [commitment EXCEPT ![c][w] = "carried", ![d][w] = "included"]
        /\ UNCHANGED <<work, moved, deployments, observations, incidentVars>>

\* release.deployment: evidence of any date.
RecordDeployment ==
    \E c \in Cycle, w \in Work, d \in Deployment :
        /\ work[w] # "absent"
        /\ deployments' = [deployments EXCEPT ![c][w] = @ \cup {d}]
        /\ UNCHANGED <<work, moved, commitment, observations, incidentVars>>

\* observation.import: once, evidence that reports may cite.
ImportObservation ==
    \E o \in Observation \ observations :
        /\ observations' = observations \cup {o}
        /\ UNCHANGED <<work, moved, commitment, deployments, incidentVars>>

\* deploymentStatus: what the latest evidence that is in effect at a time agrees on.
DeploymentStatus(c, w, asOf) ==
    LET effective == {d \in deployments[c][w] : d.at <= asOf}
        latest == {d \in effective : \A e \in effective : e.at <= d.at}
        says == {d.status : d \in latest}
    IN CASE says = {"deployed"} -> "deployed"
         [] says = {"not_deployed"} -> "not_deployed"
         [] OTHER -> "unknown"

\* ProjectStatus: what became of a target, at a time.
Disposition(c, w, asOf) ==
    CASE commitment[c][w] # "included" -> commitment[c][w]
      [] DeploymentStatus(c, w, asOf) = "deployed" -> IF work[w] = "completed" THEN "complete" ELSE "deployed_unrecorded"
      [] OTHER -> IF work[w] # "completed" THEN "work_incomplete"
                  ELSE IF DeploymentStatus(c, w, asOf) = "not_deployed" THEN "deployment_not_done" ELSE "deployment_unknown"

\* groundedRiskKind, over what ProjectStatus computes.
Grounded(c, asOf) ==
    LET target(w) == commitment[c.on][w] = "included" IN
    CASE c.kind = "schedule_changed" -> c.on \in moved
      [] c.kind = "release_work_incomplete" -> \E w \in Work : target(w) /\ work[w] # "completed"
      [] c.kind = "deployed_unrecorded" -> \E w \in Work : Disposition(c.on, w, asOf) = "deployed_unrecorded"
      [] c.kind = "deployment_not_done" -> \E w \in Work : target(w) /\ DeploymentStatus(c.on, w, asOf) = "not_deployed"
      [] OTHER -> \E w \in Work : target(w) /\ DeploymentStatus(c.on, w, asOf) = "unknown"

----------------------------------------------------------------------------
(* Incidents and their notification plans.                                 *)

Unresolved(c) == incident[c].state \notin {"none", "resolved"}

\* severityRank
Rises(before, after) == before = "P2" /\ after = "P0"

\* notificationSnoozed
Snoozed(i) == now < i.until /\ ~(i.severity = "P0" /\ policy.bypass)

PlannedAt(log) == {log[n].at : n \in {m \in DOMAIN log : log[m].status = "planned"}}
InCooldown(log) == \E t \in PlannedAt(log) : now < t + policy.cooldown

\* planNotification: the plan for an incident, given its severity before.
PlanFor(c, i, before) ==
    LET rises == Rises(before, i.severity)
        status == IF i.severity \in policy.quiet THEN "kept_local"
                  ELSE IF ~policy.routed THEN "blocked"
                  ELSE IF Snoozed(i) /\ ~rises THEN "snoozed"
                  ELSE IF InCooldown(plans[c]) /\ ~rises THEN "cooldown" ELSE "planned"
    IN [severity |-> i.severity, status |-> status, at |-> now, policy |-> policy,
        until |-> IF status = "snoozed" THEN i.until ELSE 0]

\* riskFingerprint
Fingerprint(r) == <<r.severity, r.citation>>

Announce(c, i, before) ==
    /\ incident' = [incident EXCEPT ![c] = i]
    /\ plans' = [plans EXCEPT ![c] = Append(@, PlanFor(c, i, before))]

SetPolicy ==
    /\ policy' \in Policy
    /\ UNCHANGED <<businessVars, incident, plans>>

\* applyAssessment: a risk with the evidence and severity of the incident changes
\* nothing; another one makes, updates or reopens the incident and plans anew.
CurrentVariant == report.risk.severity # "none"

Current == report.current

Assess ==
    /\ Current
    /\ LET r == report.risk
           c == r.concern
           i == incident[c]
           fingerprint == Fingerprint(r)
           before == IF i = NoIncident THEN "none" ELSE i.severity
       IN IF i # NoIncident /\ i.fingerprint = fingerprint THEN UNCHANGED <<incident, plans>>
          ELSE Announce(c, [state |-> IF Unresolved(c) THEN i.state ELSE "open",
                            severity |-> r.severity, fingerprint |-> fingerprint,
                            until |-> IF i = NoIncident THEN 0 ELSE i.until], before)
    /\ UNCHANGED <<businessVars, policy>>

\* applyIncidentChange
ChangeIncident ==
    \E c \in Concern, s \in {"acknowledged", "responding", "resolved"} :
        /\ Unresolved(c)
        /\ incident' = [incident EXCEPT ![c].state = s]
        /\ UNCHANGED <<businessVars, policy, plans>>

Snooze ==
    \E c \in Concern, t \in (now + 1)..TimeBound :
        /\ Unresolved(c)
        /\ incident' = [incident EXCEPT ![c].until = t]
        /\ UNCHANGED <<businessVars, policy, plans>>

Reopen ==
    \E c \in Concern :
        /\ incident[c].state = "resolved"
        /\ Announce(c, [incident[c] EXCEPT !.state = "open", !.until = 0], "none")
        /\ UNCHANGED <<businessVars, policy>>

\* ReviewNotifications: what was suppressed is planned anew once that would differ.
Reviewed(c) ==
    LET log == plans[c]
        last == log[Len(log)]
        next == PlanFor(c, incident[c], "none")
        settled == last.status = "planned" /\ last.policy = policy /\ ~Snoozed(incident[c])
        same == next.status = last.status /\ next.until = last.until /\ next.policy = last.policy
    IN IF ~Unresolved(c) \/ settled \/ same THEN log ELSE Append(log, next)

ReviewNotifications ==
    /\ plans' = [c \in Concern |-> Reviewed(c)]
    /\ UNCHANGED <<businessVars, policy, incident>>

----------------------------------------------------------------------------
(* Callers, reports and time.                                              *)

\* A new operation, or a retry after a lost answer that reads the revision again.
BeginOperation(p) ==
    /\ informed' = informed \cup {p} /\ recorded' = recorded \ {p}
    /\ UNCHANGED <<revision, businessVars, incidentVars, headAt, report, now>>

ReadAgain(p) ==
    /\ informed' = informed \cup {p}
    /\ UNCHANGED <<revision, recorded, businessVars, incidentVars, headAt, report, now>>

\* An operation that is in the ledger is answered from it, or refused if it asks for
\* something else; the revision must be the one that was read.
Accepts(p) == p \notin recorded /\ p \in informed

\* Execute refuses assessments, that come from reconciled reports only.
OwnerCommand ==
    \/ CreateWork \/ MoveWork \/ Reschedule \/ SetTarget \/ Carry \/ RecordDeployment
    \/ ImportObservation
    \/ SetPolicy \/ ChangeIncident \/ Snooze \/ Reopen \/ ReviewNotifications

Command == OwnerCommand \/ Assess

Execute(p) ==
    /\ Accepts(p) /\ revision < EventBound
    /\ Command
    /\ revision' = revision + 1 /\ headAt' = now
    /\ informed' = {} /\ recorded' = recorded \cup {p}
    /\ report' = [report EXCEPT !.current = FALSE]
    /\ UNCHANGED now

\* ValidateReport: facts of the pinned ledger, and citations of its sources.
Validated(r, asOf) == Grounded(r.concern, asOf) /\ r.citation \in Sources

\* A FLOW job pins the ledger, and its report is validated against that, for a time
\* that is asked for and not before the latest record.
MakeReport ==
    /\ \E r \in Risk, t \in headAt..TimeBound :
          Validated(r, t) /\ report' = [risk |-> r, asOf |-> t, current |-> TRUE]
    /\ UNCHANGED <<revision, informed, recorded, businessVars, incidentVars, headAt, now>>

TimePasses ==
    /\ now < TimeBound /\ now' = now + 1
    /\ UNCHANGED <<revision, informed, recorded, businessVars, incidentVars, headAt, report>>

LedgerNext ==
    \/ \E p \in OpsCaller : BeginOperation(p) \/ ReadAgain(p) \/ Execute(p)
    \/ MakeReport \/ TimePasses

----------------------------------------------------------------------------
LedgerTypeOK ==
    /\ revision \in 0..EventBound /\ informed \subseteq OpsCaller /\ recorded \subseteq OpsCaller
    /\ \A w \in Work : work[w] \in WorkState \cup {"absent"}
    /\ moved \subseteq Work
    /\ commitment \in [Cycle -> [Work -> {"none", "included", "excluded", "carried"}]]
    /\ deployments \in [Cycle -> [Work -> SUBSET Deployment]]
    /\ observations \subseteq Observation
    /\ \A c \in Concern : incident[c] # NoIncident =>
          /\ incident[c].state \in {"open", "acknowledged", "responding", "resolved"}
          /\ incident[c].severity \in Severity

\* Work is not carried out of sight: a later cycle has it as a target, or had it until
\* the owner took it out there.
CarriedWorkIsFollowed ==
    \A c \in Cycle, w \in Work : commitment[c][w] = "carried" =>
        \E d \in Cycle : c < d /\ commitment[d][w] \in {"included", "excluded"}

\* Two calls about an incident are a cooldown apart, unless it got worse.
CooldownIsKept ==
    \A c \in Concern : \A m, n \in DOMAIN plans[c] :
        LET a == plans[c][m]
            b == plans[c][n]
        IN m < n /\ a.status = "planned" /\ b.status = "planned" /\ b.at < a.at + b.policy.cooldown =>
              Rises(plans[c][n - 1].severity, b.severity)

\* riskFingerprint of what the incident rests on.
Evidence(i) == IF i = NoIncident THEN <<>> ELSE i.fingerprint

\* Whatever callers repeat and however reports and commands interleave: one record is the
\* first effect of one operation, made against the revision its caller read; an incident
\* that comes up or gets worse is planned for; and it gets new evidence only for what the
\* ledger of that moment says at the time the report is for, which is not before the latest
\* record, and citing what it has.  (What time alone has changed since is not seen.)
LedgerIsAccountable ==
    [][/\ CarriedWorkIsFollowed' /\ CooldownIsKept'
       /\ revision' # revision => \E p \in informed : p \notin recorded /\ p \in recorded'
       /\ \A c \in Concern :
             LET i == incident[c]
             IN /\ Unresolved(c)' /\ (~Unresolved(c) \/ i.severity # i'.severity) =>
                      /\ Len(plans'[c]) > Len(plans[c])
                      /\ plans'[c][Len(plans'[c])].severity = i'.severity
                /\ Evidence(i') # Evidence(i) =>
                      /\ Grounded(c, report.asOf) /\ headAt <= report.asOf
                      /\ Evidence(i')[2] \in Sources
      ]_ledgerVars
=============================================================================
