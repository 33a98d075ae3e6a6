-------------------------- MODULE GmailAcquisition --------------------------
(***************************************************************************)
(* What a Gmail acquisition has read, internal/gmail/acquire.go: a page of *)
(* message identities is listed, then the messages are read one by one,    *)
(* each with a save of the whole state, then the history of their threads, *)
(* then the snapshot is made.  A failure or the end of the process leaves  *)
(* the last save, from which a later call goes on; a further page is taken *)
(* by a continuation, an acquisition of its own.  A message that is        *)
(* covered, which is to say that an available report resolved it as it is  *)
(* now, is read as reference and not as a target.  Messages change, and    *)
(* reports become available and advance the coverage, at any time.         *)
(*                                                                         *)
(* A definition marked "Variant" is a plausible slip in the one after it.  *)
(***************************************************************************)
EXTENDS Naturals, Sequences, FiniteSets

CONSTANTS
    MailPages,      \* the pages of the query, each a sequence of message identities
    MailBound,      \* bound on acquisitions
    EditBound,      \* bound on changes of messages
    MailFaultBound  \* bound on failures and ends of the process

Mail == UNION {{MailPages[k][i] : i \in DOMAIN MailPages[k]} : k \in DOMAIN MailPages}

\* A query has a first page, which may be empty.
ASSUME MailAssumption ==
    /\ {MailBound, EditBound, MailFaultBound} \subseteq Nat
    /\ MailPages \in Seq(Seq(Mail)) /\ MailPages # <<>>

MailId == 1..MailBound

VARIABLES
    version,    \* of a message at the provider; 0 once it is gone
    mail,       \* the saved state of an acquisition
    reading,    \* the acquisition a call works on; 0
    covered,    \* source_coverage: the version of a message that was reported; 0
    reported,   \* the acquisitions with an available report, and what each resolved
    edits, mailFaults

mailboxVars == <<version, mail, reading, covered, reported, edits, mailFaults>>

NoMail == [status |-> "none", parent |-> 0, page |-> 1, more |-> FALSE, listed |-> FALSE,
           unread |-> <<>>, sources |-> <<>>, errors |-> FALSE, snapshot |-> FALSE]

MailboxInit ==
    /\ version = [m \in Mail |-> 1]
    /\ mail = [a \in MailId |-> NoMail]
    /\ reading = 0
    /\ covered = [m \in Mail |-> 0]
    /\ reported = [a \in MailId |-> {}]
    /\ edits = 0 /\ mailFaults = 0

Edit ==
    /\ edits < EditBound
    /\ edits' = edits + 1
    /\ \E m \in Mail : /\ version[m] # 0
                       /\ \E v \in {0, version[m] + 1} : version' = [version EXCEPT ![m] = v]
    /\ UNCHANGED <<mail, reading, covered, reported, mailFaults>>

----------------------------------------------------------------------------
(* Collect.                                                                *)

Keep(record) == mail' = [mail EXCEPT ![reading] = record]

\* A new acquisition, of the first page or of the one its parent left.
OpenAcquisition(page, parent) ==
    \E a \in MailId :
        /\ mail[a] = NoMail /\ \A b \in MailId : b < a => mail[b] # NoMail
        /\ mail' = [mail EXCEPT ![a] = [NoMail EXCEPT !.status = "collecting", !.parent = parent,
                                                      !.page = page]]
        /\ reading' = a

CollectNew ==
    /\ reading = 0
    /\ OpenAcquisition(1, 0)
    /\ UNCHANGED <<version, covered, reported, edits, mailFaults>>

CollectMore ==
    /\ reading = 0
    /\ \E p \in MailId :
          /\ mail[p].snapshot /\ mail[p].more /\ \A a \in MailId : mail[a].parent # p
          /\ OpenAcquisition(mail[p].page + 1, p)
    /\ UNCHANGED <<version, covered, reported, edits, mailFaults>>

ResumeMail ==
    /\ reading = 0
    /\ \E a \in MailId : mail[a] # NoMail /\ ~mail[a].snapshot /\ reading' = a
    /\ UNCHANGED <<version, mail, covered, reported, edits, mailFaults>>

List ==
    /\ reading # 0 /\ ~mail[reading].listed
    /\ Keep([mail[reading] EXCEPT !.status = "collecting", !.listed = TRUE,
                                  !.unread = MailPages[mail[reading].page],
                                  !.more = mail[reading].page < Len(MailPages)])
    /\ UNCHANGED <<version, reading, covered, reported, edits, mailFaults>>

\* Targets, unless they are covered as they are now; one that is gone, or that
\* cannot be normalized, is kept as unavailable.
ScopeVariant(m) == IF covered[m] # 0 THEN "reference" ELSE "target"

Scope(m) == IF covered[m] = version[m] THEN "reference" ELSE "target"

ReadMessage ==
    /\ reading # 0 /\ mail[reading].listed /\ mail[reading].unread # <<>>
    /\ LET m == Head(mail[reading].unread)
           source(scope) == [of |-> m, version |-> version[m], scope |-> scope]
       IN  \E taken \in {source("unavailable")} \cup IF version[m] = 0 THEN {} ELSE {source(Scope(m))} :
             Keep([mail[reading] EXCEPT !.unread = Tail(@), !.sources = Append(@, taken),
                                        !.errors = @ \/ taken.scope = "unavailable"])
    /\ UNCHANGED <<version, reading, covered, reported, edits, mailFaults>>

\* The threads, of which a message may be missing, and the snapshot.
MakeSnapshot ==
    /\ reading # 0 /\ mail[reading].listed /\ mail[reading].unread = <<>>
    /\ \E errors \in {mail[reading].errors, TRUE} :
          Keep([mail[reading] EXCEPT
                   !.errors = errors, !.snapshot = TRUE,
                   !.status = IF errors \/ mail[reading].more THEN "partial" ELSE "collected"])
    /\ reading' = 0
    /\ UNCHANGED <<version, covered, reported, edits, mailFaults>>

\* The provider fails (the status failed, retry_wait or waiting_auth), the state
\* is not saved, or the process ends.
MailFails ==
    /\ reading # 0 /\ mailFaults < MailFaultBound
    /\ mailFaults' = mailFaults + 1
    /\ \/ Keep([mail[reading] EXCEPT !.status = "stopped"])
       \/ UNCHANGED mail
    /\ reading' = 0
    /\ UNCHANGED <<version, covered, reported, edits>>

----------------------------------------------------------------------------
(* The job of an acquisition, as far as it is about coverage.              *)

Targets(a) == {s \in {mail[a].sources[i] : i \in DOMAIN mail[a].sources} : s.scope = "target"}

\* A report is available: it resolves some of the targets.
Report ==
    /\ \E a \in MailId :
          /\ mail[a].snapshot /\ reported[a] = {}
          /\ \E resolved \in SUBSET Targets(a) : reported' = [reported EXCEPT ![a] = resolved]
    /\ UNCHANGED <<version, mail, reading, covered, edits, mailFaults>>

\* RecordCoverage: after the report, or later when it is published again.
Cover ==
    /\ \E a \in MailId :
          /\ reported[a] # {}
          /\ covered' = [m \in Mail |-> IF \E s \in reported[a] : s.of = m
                                        THEN (CHOOSE s \in reported[a] : s.of = m).version ELSE covered[m]]
    /\ UNCHANGED <<version, mail, reading, reported, edits, mailFaults>>

MailboxNext ==
    \/ Edit \/ CollectNew \/ CollectMore \/ ResumeMail \/ List \/ ReadMessage \/ MakeSnapshot \/ MailFails
    \/ Report \/ Cover

MailboxSpec == MailboxInit /\ [][MailboxNext]_mailboxVars

----------------------------------------------------------------------------
MailboxTypeOK ==
    /\ reading \in 0..MailBound
    /\ \A a \in MailId : /\ mail[a].status \in {"none", "collecting", "stopped", "collected", "partial"}
                         /\ mail[a].snapshot <=> mail[a].status \in {"collected", "partial"}

\* Wherever a call ends and whatever changes meanwhile: an acquisition has every
\* message of its page once, read or still to be read; a message is left out as
\* reference only when a report resolved that very version of it; and what is
\* not the whole page, or not the last page, is not said to be complete.
NoMessageIsPassedOver ==
    \A a \in MailId :
        LET page == MailPages[mail[a].page]
        IN  /\ mail[a].listed =>
                 page = [i \in DOMAIN mail[a].sources |-> mail[a].sources[i].of] \o mail[a].unread
            /\ \A i \in DOMAIN mail[a].sources :
                  mail[a].sources[i].scope = "reference" =>
                     \E b \in MailId \ {a} : [mail[a].sources[i] EXCEPT !.scope = "target"] \in reported[b]
            /\ mail[a].snapshot => mail[a].listed /\ mail[a].unread = <<>>
            /\ mail[a].status = "collected" => /\ mail[a].page = Len(MailPages)
                                               /\ \A i \in DOMAIN mail[a].sources :
                                                    mail[a].sources[i].scope # "unavailable"
            /\ mail[a].parent # 0 => /\ mail[mail[a].parent].snapshot
                                     /\ mail[a].page = mail[mail[a].parent].page + 1
=============================================================================
