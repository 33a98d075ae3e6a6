------------------------------ MODULE MCRecords ------------------------------
(***************************************************************************)
(* What the owner and the team work with, in one run: conversations, the   *)
(* instructions a workgroup runs under, the operations ledger, accounts    *)
(* and the store of their credentials.  They share no variable, so their   *)
(* steps commute and a behaviour has one subject.  Instructions have two:  *)
(* what reviews leave behind, where every run uses the active bundle, and  *)
(* what the selection of a bundle may rest on, where persons judge.        *)
(***************************************************************************)
EXTENDS Conversations, Feedback, OpsLedger, Accounts, SecretStore

VARIABLE subject    \* the component this behaviour is about

recordsVars == <<subject, convVars, feedbackVars, ledgerVars, accountVars, secretVars>>

Subjects == {"conversations", "reviews", "selections", "ledger", "accounts", "secrets"}

\* Two risks to a release - work that is not done, or was released and not recorded -
\* and one to the date of the work.
MCConcern == [kind : {"release_work_incomplete", "deployed_unrecorded"}, on : {1}]
             \cup {[kind |-> "schedule_changed", on |-> "w1"]}

\* A common Skill, and one of the team that contradicts it.
MCSkill == {[name |-> "tests", scope |-> "common", value |-> "required"],
            [name |-> "tests", scope |-> "team", value |-> "advised"]}

\* A policy that announces everything but not too often, and one that keeps what is
\* not urgent and lets what is urgent through.
MCPolicy == {[routed |-> TRUE, quiet |-> {}, cooldown |-> 1, bypass |-> FALSE],
             [routed |-> TRUE, quiet |-> {"P2"}, cooldown |-> 0, bypass |-> TRUE]}

RecordsInit ==
    /\ subject \in Subjects
    /\ ConversationInit /\ FeedbackInit /\ LedgerInit
    /\ AccountInit /\ SecretInit
    /\ subject \notin {"reviews", "selections"} => engine = "flow"
    \* A scope begins empty and unset, or with its first target and the first policy.
    /\ policy.quiet = {}
    /\ (policy = DefaultPolicy) <=> \A w \in Work : work[w] = "absent"
    /\ subject # "ledger" => policy = DefaultPolicy

RecordsNext ==
    \/ /\ subject = "conversations" /\ ConversationNext
       /\ UNCHANGED <<subject, feedbackVars, ledgerVars, accountVars, secretVars>>
    \/ /\ subject \in {"reviews", "selections"} /\ (RunNext \/ CommandDies)
       /\ subject = "reviews" => \A r \in DOMAIN runs' : runs'[r].wish # Domain(Plain)
       /\ UNCHANGED <<subject, convVars, ledgerVars, accountVars, secretVars>>
    \/ /\ subject = "reviews" /\ ReviewNext
       /\ UNCHANGED <<subject, convVars, ledgerVars, accountVars, secretVars>>
    \/ /\ subject = "selections" /\ SelectionNext
       /\ UNCHANGED <<subject, convVars, ledgerVars, accountVars, secretVars>>
    \* The risks are to the first cycle, and so is the evidence.
    \/ /\ subject = "ledger" /\ LedgerNext /\ \A w \in Work : deployments'[2][w] = {}
       /\ UNCHANGED <<subject, convVars, feedbackVars, accountVars, secretVars>>
    \/ /\ subject = "accounts" /\ AccountNext
       /\ UNCHANGED <<subject, convVars, feedbackVars, ledgerVars, secretVars>>
    \/ /\ subject = "secrets" /\ SecretNext
       /\ UNCHANGED <<subject, convVars, feedbackVars, ledgerVars, accountVars>>

RecordsSpec == RecordsInit /\ [][RecordsNext]_recordsVars

\* The state of every component stays well typed.
AllRecordsTypeOK ==
    RecordsTypeOK /\ FeedbackTypeOK /\ LedgerTypeOK /\ AccountTypeOK /\ SecretTypeOK

\* Credentials are there for what uses them, are named until they are deleted, and are
\* sealed with the key in place; and a sign-in ended as it is told.
CredentialsAreKept ==
    NothingIsUsedWithout /\ NothingIsForgotten /\ SetupTellsTheTruth /\ KeyOpensTheStore
=============================================================================
