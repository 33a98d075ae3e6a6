----------------------------- MODULE Retention -----------------------------
(***************************************************************************)
(* Retention, internal/retention: a person plans the removal of a closed   *)
(* job's run directory, reviews the plan, and applies it.  Applying marks  *)
(* the job as retiring in one transaction, removes the files one after the *)
(* other, and marks it as purged in a second transaction; the process may  *)
(* end at any point, and applying the same plan again goes on.  Between    *)
(* commands the job may be retried, run, and closed again.  Commands hold  *)
(* the writer's lock, so two of them never overlap.                        *)
(*                                                                         *)
(* A definition marked "Variant" is a plausible slip in the one after it.  *)
(***************************************************************************)
EXTENDS Naturals

CONSTANTS
    Kept,           \* jobs with a run directory
    RunFile,        \* the files of a run directory
    PlanBound,      \* bound on plans
    RewriteBound,   \* bound on what happens to jobs between commands
    BreakBound      \* bound on failures and ends of the process

ASSUME RetentionAssumption == {PlanBound, RewriteBound, BreakBound} \subseteq Nat

VARIABLES
    closing,    \* of a job: its status and updated_at, as a number of changes
    content,    \* the version of each of its files; 0 when it is gone
    artifactState,  \* artifacts.content_state
    request,  \* what is left of its request: "whole" or "minimal"
    plans,      \* retention_operations with their plan files
    removing,   \* the plan whose application is under way; 0
    approved,   \* the content a person reviewed, once its removal began
    rewrites, breaks

retentionVars == <<closing, content, artifactState, request, plans, removing, approved, rewrites, breaks>>

ClosedStatus == {"completed", "failed"}     \* partial and cancelled are alike
NoContent == [f \in RunFile |-> 0]
Plan == 1..PlanBound
NoPlan == [status |-> "none", job |-> CHOOSE j \in Kept : TRUE, as |-> <<"completed", 0>>, files |-> NoContent]
Break == breaks < BreakBound /\ breaks' = breaks + 1
Quiet == removing = 0

RetentionInit ==
    /\ closing = [j \in Kept |-> <<"failed", 1>>]
    /\ content = [j \in Kept |-> [f \in RunFile |-> 1]]
    /\ artifactState = [j \in Kept |-> "present"]
    /\ request = [j \in Kept |-> "whole"]
    /\ plans = [p \in Plan |-> NoPlan]
    /\ removing = 0
    /\ approved = [j \in Kept |-> NoContent]
    /\ rewrites = 0 /\ breaks = 0

\* A failed job is retried, or runs and is closed again with files it wrote.
JobChanges ==
    /\ Quiet /\ rewrites < RewriteBound
    /\ rewrites' = rewrites + 1
    /\ \E j \in Kept, status \in ClosedStatus \cup {"queued"}, wrote \in SUBSET RunFile :
          /\ closing[j][1] \in {"failed", "queued"}
          /\ status = "queued" => wrote = {}
          /\ closing' = [closing EXCEPT ![j] = <<status, @[2] + 1>>]
          /\ content' = [content EXCEPT ![j] = [f \in RunFile |-> IF f \in wrote THEN content[j][f] + 1 ELSE content[j][f]]]
    /\ UNCHANGED <<artifactState, request, plans, removing, approved, breaks>>

\* A file is written with no trace in the job: a publication saved an
\* artifact and failed.  It refuses a job that is retiring or purged.
ContentChanges ==
    /\ Quiet /\ rewrites < RewriteBound
    /\ rewrites' = rewrites + 1
    /\ \E j \in Kept, f \in RunFile :
          /\ request[j] = "whole" /\ artifactState[j] = "present"
          /\ content' = [content EXCEPT ![j][f] = @ + 1]
    /\ UNCHANGED <<closing, artifactState, request, plans, removing, approved, breaks>>

----------------------------------------------------------------------------
\* Create: an inventory of a closed job; the plan is a file, then a row.
CreatePlan ==
    /\ Quiet
    /\ \E p \in Plan, j \in Kept :
          /\ plans[p] = NoPlan /\ \A q \in Plan : q < p => plans[q] # NoPlan
          /\ closing[j][1] \in ClosedStatus
          /\ plans' = [plans EXCEPT ![p] = [status |-> "planned", job |-> j, as |-> closing[j],
                                            files |-> content[j]]]
    /\ UNCHANGED <<closing, content, artifactState, request, removing, approved, rewrites, breaks>>

\* Apply a plan that was never begun: what was reviewed must be what is there.
Reviewed(p) ==
    /\ closing[plans[p].job] = plans[p].as
    /\ content[plans[p].job] = plans[p].files

BeginRemoval ==
    /\ Quiet
    /\ \E p \in Plan :
          /\ plans[p].status = "planned" /\ Reviewed(p)
          /\ closing' = [closing EXCEPT ![plans[p].job] = <<"retiring", @[2] + 1>>]
          /\ artifactState' = [artifactState EXCEPT ![plans[p].job] = "retiring"]
          /\ plans' = [plans EXCEPT ![p].status = "applying"]
          /\ approved' = [approved EXCEPT ![plans[p].job] = plans[p].files]
          /\ removing' = p
    /\ UNCHANGED <<content, request, rewrites, breaks>>

\* Apply again after an end in between.
ResumesVariant(p) == plans[p].status \in {"planned", "applying"}

Resumes(p) == plans[p].status = "applying" /\ closing[plans[p].job][1] = "retiring"

ResumeRemoval ==
    /\ Quiet
    /\ \E p \in Plan : Resumes(p) /\ removing' = p
    /\ UNCHANGED <<closing, content, artifactState, request, plans, approved, rewrites, breaks>>

Removed == plans[removing].job

RemoveFile ==
    /\ ~Quiet
    /\ \E f \in RunFile : content[Removed][f] # 0 /\ content' = [content EXCEPT ![Removed][f] = 0]
    /\ UNCHANGED <<closing, artifactState, request, plans, removing, approved, rewrites, breaks>>

\* The identity of the acquisition stays in the request.
Purge ==
    /\ ~Quiet /\ content[Removed] = NoContent
    /\ closing' = [closing EXCEPT ![Removed] = <<"purged", @[2] + 1>>]
    /\ artifactState' = [artifactState EXCEPT ![Removed] = "purged"]
    /\ request' = [request EXCEPT ![Removed] = "minimal"]
    /\ plans' = [plans EXCEPT ![removing].status = "completed"]
    /\ removing' = 0
    /\ UNCHANGED <<content, approved, rewrites, breaks>>

\* A file that cannot be removed, or the end of the process.
RemovalStops ==
    /\ ~Quiet /\ Break
    /\ removing' = 0
    /\ UNCHANGED <<closing, content, artifactState, request, plans, approved, rewrites>>

RetentionNext ==
    \/ JobChanges \/ ContentChanges
    \/ CreatePlan \/ BeginRemoval \/ ResumeRemoval \/ RemoveFile \/ Purge \/ RemovalStops

----------------------------------------------------------------------------
RetentionTypeOK ==
    /\ closing \in [Kept -> (ClosedStatus \cup {"queued", "retiring", "purged"}) \X Nat]
    /\ content \in [Kept -> [RunFile -> Nat]] /\ approved \in [Kept -> [RunFile -> Nat]]
    /\ artifactState \in [Kept -> {"present", "retiring", "purged"}]
    /\ request \in [Kept -> {"whole", "minimal"}]
    /\ removing \in {0} \cup Plan

Of(j, status) == {p \in Plan : plans[p].job = j /\ plans[p].status = status}

\* What was removed of a job was in the plan a person approved, in exactly that
\* version, and the job says so itself.
RemovedAsReviewed(j) ==
    /\ (\E f \in RunFile : content[j][f] = 0) => approved[j] # NoContent
    /\ approved[j] # NoContent =>
          /\ \A f \in RunFile : content[j][f] \in {0, approved[j][f]}
          /\ \E p \in Of(j, "applying") \cup Of(j, "completed") : plans[p].files = approved[j]
    /\ (closing[j][1] = "retiring") <=> (Of(j, "applying") # {})
    /\ (closing[j][1] = "purged") <=> (Of(j, "completed") # {})
    /\ \A p, q \in Of(j, "applying") \cup Of(j, "completed") : p = q
    /\ closing[j][1] = "purged" => content[j] = NoContent /\ artifactState[j] = "purged" /\ request[j] = "minimal"

\* However applying is interrupted and repeated, and whatever happened since the
\* plan was reviewed: what is missing of a job was in the plan a person approved
\* in exactly that version; a job that is retiring has one plan that can go on,
\* a purged job has one that is complete, nothing of its content and no details.
OnlyReviewedContentIsRemoved == \A j \in Kept : RemovedAsReviewed(j)
=============================================================================
