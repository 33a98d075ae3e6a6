---------------------------- MODULE MCOperations ----------------------------
(***************************************************************************)
(* The components that keep an installation going, in one run.  They share *)
(* no variable, so their steps commute and nothing is learnt from mixing   *)
(* them: a behaviour has one subject, the component that takes steps.      *)
(***************************************************************************)
EXTENDS SelfUpdate, Retention, Schedules, GmailAcquisition, JiraAcquisition,
        Backup

VARIABLE subject    \* the component this behaviour is about

operationsVars == <<subject, updateVars, retentionVars, scheduleVars, mailboxVars, jiraVars, archiveVars>>

Subjects == {"update", "retention", "schedules", "gmail", "jira", "backup"}

\* The services that may be enabled when the update begins.
MCMarkers == {Unit, {"controller"}}

\* One schedule of Gmail every second tick, one of Jira every tick.
MCInterval == <<2, 1>>

\* A message that moves to the next page, where there is another, while the first is read.
MCPages == <<<<"m1">>, <<"m1", "m2">>>>

\* Three pages of Jira, of which the last may repeat a cursor, be empty, or end
\* with or without saying so; or a single page, within the budget or over it.
Page(next, complete, rows) == [next |-> next, complete |-> complete, rows |-> rows]
ThreePages == {<<Page(1, FALSE, 2), Page(2, FALSE, 1), Page(n, end, rows)>> :
                   n \in {0, 1}, end \in BOOLEAN, rows \in {0, 2}}
FromZero(pages) == [c \in 0..2 |-> pages[c + 1]]
MCIssues == {FromZero(p) : p \in {q \in ThreePages : q[3].complete => q[3].next = 0}}
            \cup {[c \in 0..2 |-> Page(0, end, rows)] : end \in BOOLEAN, rows \in {0, 4}}

OperationsInit ==
    /\ subject \in Subjects
    /\ UpdateInit /\ RetentionInit /\ ScheduleInit /\ MailboxInit /\ JiraInit /\ BackupInit
    /\ subject # "update" => marker = Unit /\ intent
    /\ subject # "backup" => switches = {}
    /\ subject # "jira" => source = FromZero(<<Page(1, FALSE, 2), Page(2, FALSE, 1), Page(0, TRUE, 2)>>)

OperationsNext ==
    \/ /\ subject = "update" /\ UpdateNext
       /\ UNCHANGED <<subject, retentionVars, scheduleVars, mailboxVars, jiraVars, archiveVars>>
    \/ /\ subject = "retention" /\ RetentionNext
       /\ UNCHANGED <<subject, updateVars, scheduleVars, mailboxVars, jiraVars, archiveVars>>
    \/ /\ subject = "schedules" /\ ScheduleNext
       /\ UNCHANGED <<subject, updateVars, retentionVars, mailboxVars, jiraVars, archiveVars>>
    \/ /\ subject = "gmail" /\ MailboxNext
       /\ UNCHANGED <<subject, updateVars, retentionVars, scheduleVars, jiraVars, archiveVars>>
    \/ /\ subject = "jira" /\ JiraNext
       /\ UNCHANGED <<subject, updateVars, retentionVars, scheduleVars, mailboxVars, archiveVars>>
    \/ /\ subject = "backup" /\ BackupNext
       /\ UNCHANGED <<subject, updateVars, retentionVars, scheduleVars, mailboxVars, jiraVars>>

OperationsSpec == OperationsInit /\ [][OperationsNext]_operationsVars

\* The state of every component stays well typed.
OperationsTypeOK ==
    /\ UpdateTypeOK /\ RetentionTypeOK /\ ScheduleTypeOK /\ MailboxTypeOK /\ JiraTypeOK
    /\ BackupTypeOK

\* Collecting goes on where it stopped: nothing of a mailbox is passed over, and a
\* checkpoint of Jira can always be loaded again.
CollectionsResume == NoMessageIsPassedOver /\ CheckpointsLoad
=============================================================================
