------------------------------ MODULE Feedback ------------------------------
(***************************************************************************)
(* Which instructions a workgroup runs under, internal/feedback,           *)
(* internal/skills and internal/workgroup.  A bundle of instructions is    *)
(* selected for the workgroup as a whole, "domain", and in a scope of its  *)
(* own once that was initialised.  A run pins a bundle; runs are evaluated *)
(* by a person or by an isolated reviewer; two evaluated runs are          *)
(* compared; a comparison, a reviewed policy and a check let a person      *)
(* adopt a proposed bundle, and later roll it back.  Records never change; *)
(* a decision is recorded first and takes effect with the write of the     *)
(* pointer.  Commands hold the writer's lock against the controller, which *)
(* runs the jobs; a command may die after any step and its reviewer live   *)
(* on.  Records that change nothing later - assessments, rejections, failed *)
(* checks, comparisons that are not comparable, evaluations that cannot be *)
(* part of one, decisions once in effect or abandoned - leave no trace.    *)
(*                                                                         *)
(* A definition marked "Variant" is a plausible slip in the one after it.  *)
(***************************************************************************)
EXTENDS Naturals, Sequences, FiniteSets

CONSTANTS
    BuiltIn, Plain,     \* domain instructions: the installed ones, others
    Skill,              \* registered scoped Skills: [name, scope, value], the value
                        \* being what they say for the one review rule
    AllowedStatus,      \* ReleasePolicy.AllowedJobStatuses
    AllowedOutcome,     \* ReleasePolicy.AllowedOutcomes
    RunBound, AttemptBound, EvaluationBound, ComparisonBound,
    ProposalBound, ReviewBound, DisturbanceBound      \* bounds on each

\* ReleasePolicy.Validate
ValidPolicy(statuses, outcomes) ==
    /\ statuses # {} /\ statuses \subseteq {"completed", "partial", "waiting_input"}
    /\ outcomes # {} /\ outcomes \subseteq {"pass", "fail", "mixed"}

ASSUME FeedbackAssumption ==
    /\ BuiltIn # Plain
    /\ \A s \in Skill : s.scope \in {"common", "team", "project"}
    /\ ValidPolicy(AllowedStatus, AllowedOutcome)
    /\ {RunBound, AttemptBound, EvaluationBound, ComparisonBound, ProposalBound, ReviewBound,
        DisturbanceBound} \subseteq Nat

VARIABLES
    engine,         \* how the runs of the workgroup execute: "legacy" or "flow"
    selected,       \* active.json of an application: a bundle
    runs,           \* jobs, oldest first
    evaluations,    \* evaluation records
    comparisons,    \* comparison records that are comparable
    proposals,      \* proposal records
    checked,        \* proposals with a passing result of their required check
    reviews,        \* review_request records, with their execution and process
    command,        \* what the command that holds the lock has left to do; the
                    \* decision record that it wrote is part of it
    everSelected,   \* of an application: the bundles it ever ran under
    disturbances    \* runs resumed and commands that died, so far

evidenceVars == <<evaluations, comparisons, proposals, checked>>
feedbackVars == <<engine, selected, runs, evidenceVars, reviews, command,
                  everSelected, disturbances>>

Application == {"domain", "team"}
NoCommand == [op |-> "none"]

\* A bundle: the instructions of the domain, and the Skills composed with them.
Domain(instructions) == [base |-> instructions, parts |-> {}]
NoBundle == Domain("none")

\* SkillScope.Includes, of the scope of the team.
Includes(scope) == scope \in {"common", "team"}

\* SkillComposition.Validate: nothing of another scope, no Skill in two versions, and
\* no two values for a review rule.
ValidParts(parts) ==
    /\ parts # {} /\ \A s \in parts : Includes(s.scope)
    /\ \A s, t \in parts : /\ <<s.scope, s.name>> = <<t.scope, t.name>> => s = t
                           /\ s.value = t.value

Compositions == {parts \in SUBSET Skill : ValidParts(parts)}

\* ComposeSkills: always from the instructions of the domain, never from a composition.
Compose(bundle, parts) == [base |-> bundle.base, parts |-> parts]

Bundles == {Domain(b) : b \in {BuiltIn, Plain}} \cup
           {Compose(Domain(b), parts) : b \in {BuiltIn, Plain}, parts \in Compositions}

\* ValidateScopeBundle, and the refusal of a composition without a scope.
Fits(bundle, app) == bundle.parts # {} => app = "team"

\* ActiveInScope
Active(app) == selected[app]

\* The candidates tried before they are adopted: skills compose takes what is active
\* in the scope.
Experiments(app) == IF app = "team" THEN {Compose(Active(app), parts) : parts \in Compositions}
                    ELSE {Domain(Plain)}

FeedbackInit ==
    /\ engine \in {"legacy", "flow"}
    /\ selected = [a \in Application |->
                      IF a = "domain" THEN Domain(BuiltIn) ELSE NoBundle]
    /\ runs = <<>> /\ evaluations = {} /\ comparisons = {}
    /\ proposals = <<>> /\ checked = {} /\ reviews = <<>>
    /\ command = NoCommand
    /\ everSelected = [a \in Application |-> {Active(a)} \ {NoBundle}]
    /\ disturbances = 0

Free == command = NoCommand

----------------------------------------------------------------------------
(* Runs, while the controller has the lock.                                *)

\* A new job for the active bundle, or an experiment with a stored candidate.
\* A scoped job and a flow pin their bundle here, a legacy job when it starts.
SubmitRun ==
    /\ Free /\ Len(runs) < RunBound
    /\ \E app \in Application : \E wish \in {NoBundle} \cup Experiments(app) :
          LET now == IF wish = NoBundle THEN Active(app) ELSE wish
              early == app # "domain" \/ engine = "flow"
          IN /\ Active(app) # NoBundle
             /\ runs' = Append(runs, [app |-> app, wish |-> IF early THEN now ELSE wish,
                                      pin |-> IF early THEN now ELSE NoBundle,
                                      attempt |-> 0, status |-> "queued", made |-> {}])
    /\ UNCHANGED <<engine, selected, evidenceVars, reviews, command, everSelected, disturbances>>

\* The controller runs a job to the end of an attempt, or recovers it.  Prepare:
\* an attempt of an unpinned job takes what is active now.  A report leaves a
\* job completed or waiting for an answer; an interruption leaves it waiting too.
RunAttempt(r) ==
    /\ Free /\ runs[r].status = "queued" /\ runs[r].attempt < AttemptBound
    /\ \E status \in {"completed", "waiting_input"}, report \in BOOLEAN :
          /\ status = "completed" => report
          /\ runs' = [runs EXCEPT ![r] =
                [runs[r] EXCEPT !.status = status, !.attempt = @ + 1,
                    !.made = IF report THEN @ \cup {runs[r].attempt + 1} ELSE @,
                    !.pin = IF runs[r].wish = NoBundle THEN Active(runs[r].app) ELSE runs[r].wish]]
    /\ UNCHANGED <<engine, selected, evidenceVars, reviews, command, everSelected, disturbances>>

ResumeRun(r) ==
    /\ Free /\ runs[r].status = "waiting_input" /\ disturbances < DisturbanceBound
    /\ runs' = [runs EXCEPT ![r].status = "queued"]
    /\ disturbances' = disturbances + 1
    /\ UNCHANGED <<engine, selected, evidenceVars, reviews, command, everSelected>>

----------------------------------------------------------------------------
(* Evaluations.                                                            *)

\* inspectFlow: the chain to the validated report is complete and current.
Ready(r) == runs[r].attempt \in runs[r].made /\ runs[r].status # "queued"

\* Add, kind evaluation: of an attempt that made a result; a flow offers only
\* its present one.
Judges(e) ==
    /\ e.attempt \in runs[e.run].made
    /\ engine = "flow" => Ready(e.run) /\ e.attempt = runs[e.run].attempt

\* verifyReviewExecution
Verified(e) ==
    /\ e.execution \in DOMAIN reviews
    /\ LET v == reviews[e.execution]
       IN v.purpose = "evaluation" /\ v.outcome = "generated" /\ v.run = e.run /\ v.attempt = e.attempt /\ v.verdict = e.outcome

Outcomes == {"pass", "fail"}
\* execution 0: a person's, otherwise the reviewer's.
Evaluation == [run : 1..RunBound, attempt : 1..AttemptBound, outcome : Outcomes,
               execution : 0..ReviewBound]

ByPerson(e) == e.execution = 0

\* feedback import evaluation
ImportEvaluation ==
    /\ Free /\ Cardinality(evaluations) < EvaluationBound
    /\ \E e \in Evaluation :
          /\ e.run \in DOMAIN runs /\ Judges(e)
          /\ ByPerson(e) \/ Verified(e)
          /\ evaluations' = evaluations \cup {e}
    /\ UNCHANGED <<engine, selected, runs, comparisons, proposals, checked, reviews, command, everSelected, disturbances>>

\* RecoverReviews: what has no execution gets one, and its process is ended.
Interrupted(all) ==
    [k \in DOMAIN all |-> IF all[k].outcome = "pending"
                          THEN [all[k] EXCEPT !.outcome = "interrupted", !.process = "gone"]
                          ELSE all[k]]

RecoverReviews ==
    /\ Free
    /\ reviews' = Interrupted(reviews)
    /\ UNCHANGED <<engine, selected, runs, evidenceVars, command, everSelected, disturbances>>

\* runReview: recovery, and the request before the process.
RequestReview(r, purpose) ==
    /\ Free /\ Len(reviews) < ReviewBound
    /\ reviews' = Append(Interrupted(reviews),
                         [purpose |-> purpose, run |-> r, attempt |-> runs[r].attempt,
                          outcome |-> "pending", process |-> "none", verdict |-> "none"])
    /\ command' = [op |-> "review", of |-> Len(reviews) + 1]
    /\ UNCHANGED <<engine, selected, runs, evidenceVars, everSelected, disturbances>>

\* review evaluate: of an attempt.
BeginReview(r) == runs[r].attempt > 0 /\ RequestReview(r, "evaluation")

\* review analyze: of a run in any state, for advice only.
Analyze(r) == RequestReview(r, "analysis")

StartReviewer ==
    /\ command.op = "review" /\ reviews[command.of].process = "none"
    /\ reviews' = [reviews EXCEPT ![command.of].process = "live"]
    /\ UNCHANGED <<engine, selected, runs, evidenceVars, command, everSelected, disturbances>>

\* The reviewer answers, or fails; the execution is recorded.
EndReviewer ==
    /\ command.op = "review" /\ reviews[command.of].process = "live"
    /\ \E verdict \in Outcomes \cup {"none"} :
       LET outcome == IF verdict = "none" THEN "failed" ELSE "generated" IN
          /\ reviews' = [reviews EXCEPT ![command.of] =
                [reviews[command.of] EXCEPT !.process = "gone", !.outcome = outcome, !.verdict = verdict]]
          /\ command' = IF outcome = "failed" \/ reviews[command.of].purpose = "analysis"
                        THEN NoCommand ELSE [command EXCEPT !.op = "judge"]
    /\ UNCHANGED <<engine, selected, runs, evidenceVars, everSelected, disturbances>>

\* The answer becomes an evaluation, unless Add refuses it.
JudgeReview ==
    /\ command.op = "judge"
    /\ LET v == reviews[command.of]
           e == [run |-> v.run, attempt |-> v.attempt, outcome |-> v.verdict,
                 execution |-> command.of]
       IN evaluations' = evaluations \cup IF Judges(e) /\ Verified(e) THEN {e} ELSE {}
    /\ command' = NoCommand
    /\ UNCHANGED <<engine, selected, runs, comparisons, proposals, checked, reviews,
                   everSelected, disturbances>>

\* A reviewer whose command died ends by itself.
OrphanEnds ==
    /\ Free
    /\ \E k \in DOMAIN reviews : /\ reviews[k].process = "live"
                                 /\ reviews' = [reviews EXCEPT ![k].process = "gone"]
    /\ UNCHANGED <<engine, selected, runs, evidenceVars, command, everSelected, disturbances>>

----------------------------------------------------------------------------
(* Comparisons, proposals and decisions.                                   *)

Snapshot(r, e) == [run |-> r, app |-> runs[r].app, pin |-> runs[r].pin,
                   attempt |-> runs[r].attempt, status |-> runs[r].status, evaluation |-> e]

\* compareFlows: complete chains, in the same application.  The runs here share their
\* input, their objective and the model that they request.
SameFlow(a, b) == a.app = b.app /\ (engine = "flow" => Ready(a.run) /\ Ready(b.run))

\* CompareSelected: an evaluation of the current attempt of each run, by the
\* same reviewer, of runs that have the same flow.
Comparable(a, b) ==
    /\ a.evaluation.run = a.run /\ b.evaluation.run = b.run
    /\ a.evaluation.attempt = a.attempt /\ b.evaluation.attempt = b.attempt
    /\ ByPerson(a.evaluation) <=> ByPerson(b.evaluation)
    /\ SameFlow(a, b)

Compare ==
    /\ Free /\ Cardinality(comparisons) < ComparisonBound
    /\ \E e, f \in evaluations :
          /\ e.run < f.run
          /\ LET a == Snapshot(e.run, e)
                 b == Snapshot(f.run, f)
             IN Comparable(a, b) /\ comparisons' = comparisons \cup {<<a, b>>}
    /\ UNCHANGED <<engine, selected, runs, evaluations, proposals, checked, reviews,
                   command, everSelected, disturbances>>

\* The composition of a bundle says where it is proposed.
Propose ==
    /\ Free /\ Len(proposals) < ProposalBound
    /\ \E instructions \in {BuiltIn, Plain}, parts \in {{}} \cup Compositions :
          LET app == IF parts = {} THEN "domain" ELSE "team"
              bundle == IF parts = {} THEN Domain(instructions) ELSE Compose(Active(app), parts)
          IN /\ Active(app) \notin {NoBundle, bundle}
             /\ proposals' = Append(proposals, [app |-> app, base |-> Active(app), candidate |-> bundle])
    /\ UNCHANGED <<engine, selected, runs, evaluations, comparisons, checked, reviews,
                   command, everSelected, disturbances>>

PassCheck(p) ==
    /\ Free /\ checked' = checked \cup {p}
    /\ UNCHANGED <<engine, selected, runs, evaluations, comparisons, proposals, reviews,
                   command, everSelected, disturbances>>

\* The compared job is as it was compared.
AsComparedVariant(s) == TRUE

AsCompared(s) == runs[s.run].attempt = s.attempt /\ runs[s.run].status = s.status

\* Assess: the comparison covers baseline and candidate, neither has changed,
\* the candidate satisfies the policy, and the required check has passed.
Eligible(p, c) ==
    LET proposal == proposals[p]
        covers(s, bundle) == s.app = proposal.app /\ s.pin = bundle
    IN /\ Active(proposal.app) = proposal.base
       /\ \E base, candidate \in {c[1], c[2]} :
             /\ covers(base, proposal.base) /\ covers(candidate, proposal.candidate)
             /\ AsCompared(base) /\ AsCompared(candidate)
             /\ \A s \in {base, candidate} : ByPerson(s.evaluation) \/ Verified(s.evaluation)
             /\ candidate.status \in AllowedStatus
             /\ candidate.evaluation.outcome \in AllowedOutcome
       /\ p \in checked

\* Decide: the record, which is a request; then the pointer.
Decide(action, app, base, bundle) ==
    /\ Free
    /\ command' = [op |-> "select", action |-> action, app |-> app, base |-> base, selects |-> bundle]
    /\ UNCHANGED <<engine, selected, runs, evidenceVars, reviews, everSelected, disturbances>>

Adopt(p) ==
    /\ \E c \in comparisons : Eligible(p, c)
    /\ Decide("adopt", proposals[p].app, proposals[p].base, proposals[p].candidate)

RollbackProposal(p) ==
    /\ Active(proposals[p].app) = proposals[p].candidate
    /\ Decide("rollback", proposals[p].app, proposals[p].candidate, proposals[p].base)

\* skills initialize: once, with what the workgroup runs under.
InitializeScope ==
    /\ Active("team") = NoBundle /\ Fits(Active("domain"), "domain")
    /\ Decide("initialize", "team", NoBundle, Active("domain"))

\* The pointer: from now on the decision is in effect.
Select ==
    /\ command.op = "select"
    /\ selected' = [selected EXCEPT ![command.app] = command.selects]
    /\ everSelected' = [everSelected EXCEPT ![command.app] = @ \cup {command.selects}]
    /\ command' = NoCommand
    /\ UNCHANGED <<engine, runs, evidenceVars, reviews, disturbances>>

CommandDies ==
    /\ ~Free /\ disturbances < DisturbanceBound
    /\ command' = NoCommand
    /\ disturbances' = disturbances + 1
    /\ UNCHANGED <<engine, selected, runs, evidenceVars, reviews, everSelected>>

\* What happens to runs, to reviews, and to selections.
RunNext == SubmitRun \/ ImportEvaluation \/ \E r \in DOMAIN runs : RunAttempt(r) \/ ResumeRun(r)

ReviewNext ==
    \/ \E r \in DOMAIN runs : BeginReview(r) \/ Analyze(r)
    \/ RecoverReviews \/ StartReviewer \/ EndReviewer \/ JudgeReview \/ OrphanEnds

SelectionNext ==
    \/ Compare \/ Propose \/ InitializeScope \/ Select
    \/ \E p \in DOMAIN proposals : PassCheck(p) \/ Adopt(p) \/ RollbackProposal(p)

FeedbackNext == RunNext \/ ReviewNext \/ SelectionNext \/ CommandDies

----------------------------------------------------------------------------
FeedbackTypeOK ==
    /\ \A a \in Application : /\ Active(a) \in Bundles \cup {NoBundle}
                              /\ Active(a) # NoBundle => Fits(Active(a), a)
    /\ \A r \in DOMAIN runs : /\ runs[r].pin \in Bundles \cup {NoBundle}
                              /\ runs[r].made \subseteq 1..runs[r].attempt
    /\ evaluations \subseteq Evaluation /\ checked \subseteq DOMAIN proposals
    /\ command.op \in {"none", "review", "judge", "select"}

\* However commands die: at most one reviewer works, for a request that has no
\* execution yet, and what an evaluation says of a review is what that review said
\* of that attempt.
ReviewsAreAccountedFor ==
    /\ \A k \in DOMAIN reviews : reviews[k].process = "live" =>
          reviews[k].outcome = "pending" /\ k = Len(reviews)
    /\ \A e \in evaluations : e.execution # 0 => Verified(e)

\* What the present results say for a bundle: some run of the application that was
\* pinned to it has as its latest word a result that was judged good enough.
Proven(bundle, app) ==
    \E r \in DOMAIN runs, e \in evaluations :
        /\ runs[r].app = app /\ runs[r].pin = bundle /\ runs[r].status \in AllowedStatus
        /\ e.run = r /\ e.attempt = runs[r].attempt /\ runs[r].attempt \in runs[r].made
        /\ e.outcome \in AllowedOutcome

\* Whatever happens to runs, selections and commands between a comparison and the
\* decision: a bundle comes into use because present results speak for it and it was
\* proposed against what was in use, or as the start of a scope, or again after it
\* had been in use there.
SelectionsRestOnEvidence ==
    [][/\ ReviewsAreAccountedFor'
       /\ \A a \in Application : selected'[a] # selected[a] =>
             /\ command.app = a /\ command.base = Active(a)
             /\ CASE command.action = "adopt" -> Proven(Active(a)', a)
                  [] command.action = "initialize" -> Active(a) = NoBundle
                  [] OTHER -> Active(a)' \in everSelected[a]
      ]_feedbackVars
=============================================================================
