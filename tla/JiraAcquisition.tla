-------------------------- MODULE JiraAcquisition --------------------------
(***************************************************************************)
(* What a live Jira acquisition has read, internal/jira/acquire.go.  Each  *)
(* page is preserved as it came and the checkpoint saved, then normalized  *)
(* into the snapshot and the checkpoint saved again; a call that stops     *)
(* anywhere leaves the last checkpoint.  A later call verifies it (Load),  *)
(* takes up a page that is preserved but not normalized, and goes on       *)
(* behind the last one, within the budgets that were pinned at the start.  *)
(* The provider may repeat a cursor, or end without saying so.             *)
(*                                                                         *)
(* A definition marked "Variant" is a plausible slip in the one after it.  *)
(***************************************************************************)
EXTENDS Naturals, Sequences

CONSTANTS
    IssueSource,    \* what is explored of the provider: to a cursor, the page it has
    MaxPages, MaxIssues,    \* the pinned budgets
    JiraFaultBound  \* bound on failures and ends of the process

\* What a reader answers; a page that ends the source has no continuation.
Answers(cursors) == {p \in [next : cursors, complete : BOOLEAN, rows : Nat] : p.complete => p.next = 0}

ASSUME JiraAssumption ==
    /\ \A s \in IssueSource : 0 \in DOMAIN s /\ s \in [DOMAIN s -> Answers(DOMAIN s)]
    /\ {MaxPages, MaxIssues} \subseteq Nat \ {0} /\ JiraFaultBound \in Nat

VARIABLES
    source,     \* the provider: cursor to page; cursor 0 is the start, next 0 none
    issues,     \* the checkpoint: the saved state and its snapshot
    calling,    \* whether a call is under way
    granted,    \* the pages it may still normalize
    jiraFaults

jiraVars == <<source, issues, calling, granted, jiraFaults>>

Unsaved == [status |-> "none", stop |-> "none", pages |-> <<>>, cursor |-> 0, rows |-> 0,
            complete |-> FALSE, exhausted |-> FALSE, normalized |-> <<>>]

JiraInit ==
    /\ source \in IssueSource
    /\ issues = Unsaved
    /\ calling = FALSE /\ granted = 0 /\ jiraFaults = 0

Pages == issues.pages
Pending == Pages # <<>> /\ ~Pages[Len(Pages)].processed

\* Only the last page may be preserved and not processed.
Processed(pages) ==
    IF pages # <<>> /\ ~pages[Len(pages)].processed THEN SubSeq(pages, 1, Len(pages) - 1) ELSE pages

\* The rows of the first pages, counted page by page, within the budget of issues.
RunningTotals(pages) ==
    {t \in [0..Len(pages) -> 0..MaxIssues] : t[0] = 0 /\ \A i \in DOMAIN pages : t[i] = t[i - 1] + pages[i].rows}

----------------------------------------------------------------------------
(* Load: what a checkpoint must be for anything to go on from it.          *)

Loads(r) ==
    LET done == Processed(r.pages)
    IN  /\ \A i \in DOMAIN r.pages :
              /\ r.pages[i].cursor = IF i = 1 THEN 0 ELSE r.pages[i - 1].next
              /\ \A k \in 1..(i - 1) : /\ r.pages[k].cursor # r.pages[i].cursor
                                       /\ r.pages[k].processed /\ ~r.pages[k].complete
        /\ \E t \in RunningTotals(done) : r.rows = t[Len(done)] /\ Len(r.normalized) = r.rows
        /\ r.cursor = IF done = <<>> THEN 0 ELSE done[Len(done)].next
        /\ r.complete => done # <<>> /\ done[Len(done)].complete /\ ~r.exhausted
        /\ (r.status = "collected") <=> r.complete

----------------------------------------------------------------------------
(* CollectLive and ResumeLive, then run.                                   *)

CollectLive ==
    /\ ~calling /\ issues.status = "none"
    /\ issues' = [issues EXCEPT !.status = "collecting"]
    /\ calling' = TRUE /\ granted' = MaxPages
    /\ UNCHANGED <<source, jiraFaults>>

Bounds == {"issue_budget_exhausted", "page_budget_reached", "continuation_unavailable"}

ResumeLive ==
    /\ ~calling /\ issues.status # "none"
    /\ Loads(issues) /\ ~issues.complete
    /\ issues.rows < MaxIssues /\ issues.stop \notin Bounds
    /\ \A i \in DOMAIN Pages : ~(Pages[i].processed /\ Pages[i].complete)
    /\ IF MaxPages > Len(Processed(Pages))
       THEN calling' = TRUE /\ granted' = MaxPages - Len(Processed(Pages)) /\ UNCHANGED issues
       ELSE /\ issues' = [issues EXCEPT !.status = "failed", !.stop = "page_budget_exhausted"]
            /\ UNCHANGED <<calling, granted>>
    /\ UNCHANGED <<source, jiraFaults>>

Stops(status, reason) ==
    /\ issues' = [issues EXCEPT !.status = status, !.stop = reason]
    /\ calling' = FALSE /\ granted' = 0

\* A page is preserved before it is used.  The record in memory, and with it
\* the status, is saved with it.
Preserve ==
    /\ calling /\ ~Pending
    /\ \A i \in DOMAIN Pages : Pages[i].cursor # issues.cursor
    /\ issues' = [issues EXCEPT !.status = "collecting", !.stop = "none",
                     !.pages = Append(@, [cursor |-> issues.cursor, next |-> source[issues.cursor].next,
                                          complete |-> source[issues.cursor].complete,
                                          processed |-> FALSE, rows |-> 0])]
    /\ UNCHANGED <<source, calling, granted, jiraFaults>>

RepeatedCursor ==
    /\ calling /\ ~Pending
    /\ \E i \in DOMAIN Pages : Pages[i].cursor = issues.cursor
    /\ Stops("failed", "repeated_cursor")
    /\ UNCHANGED <<source, jiraFaults>>

\* NormalizePage: a page is cut at the budget of issues, which leaves a gap.
NormalizePage(page) ==
    LET offered == source[page.cursor].rows
        left == MaxIssues - issues.rows
    IN  [rows |-> IF offered > left THEN left ELSE offered, cut |-> offered > left]

Normalize ==
    /\ calling /\ Pending
    /\ LET page == Pages[Len(Pages)]
           rows == NormalizePage(page).rows
           exhausted == issues.exhausted \/ NormalizePage(page).cut
           complete == page.complete /\ ~exhausted
           full == issues.rows + rows >= MaxIssues
           stop == CASE complete -> "end_of_source"
                     [] ~complete /\ full -> "issue_budget_exhausted"
                     [] ~complete /\ ~full /\ page.next = 0 -> "continuation_unavailable"
                     [] ~complete /\ ~full /\ page.next # 0 /\ granted = 1 -> "page_budget_reached"
                     [] OTHER -> "none"
       IN  /\ issues' = [status |-> CASE complete -> "collected" [] ~complete /\ stop # "none" -> "partial"
                                      [] OTHER -> "collecting",
                         stop |-> stop,
                         pages |-> [Pages EXCEPT ![Len(Pages)] = [page EXCEPT !.processed = TRUE, !.rows = rows]],
                         normalized |-> issues.normalized \o [i \in 1..rows |-> <<page.cursor, i>>],
                         rows |-> issues.rows + rows, cursor |-> page.next, complete |-> complete,
                         exhausted |-> exhausted]
           /\ calling' = (stop = "none") /\ granted' = IF stop = "none" THEN granted - 1 ELSE 0
    /\ UNCHANGED <<source, jiraFaults>>

\* A failure that is saved, or one that is not, or the end of the process.
JiraFails ==
    /\ calling /\ jiraFaults < JiraFaultBound
    /\ jiraFaults' = jiraFaults + 1
    /\ \/ ~Pending /\ Stops("retry_wait", "retry_wait")
       \/ Stops("failed", IF Pending THEN "normalization_failed" ELSE "reader_failed")
       \/ calling' = FALSE /\ granted' = 0 /\ UNCHANGED issues
    /\ UNCHANGED source

JiraNext ==
    CollectLive \/ ResumeLive \/ Preserve \/ RepeatedCursor \/ Normalize \/ JiraFails

----------------------------------------------------------------------------
JiraTypeOK ==
    /\ issues.status \in {"none", "collecting", "collected", "partial", "failed", "retry_wait"}
    /\ granted \in 0..MaxPages /\ (calling <=> granted > 0)

\* Wherever a call stops: what it left can be loaded; the rows that were taken of each
\* page are normalized once and in order, page after page; no more than the pinned pages
\* are read; and it is complete only when every page to the end is in it, whole.
CheckpointsLoad ==
    /\ Loads(issues)
    /\ \E t \in RunningTotals(Processed(Pages)) :
          \A k \in DOMAIN Processed(Pages) : \A n \in 1..Pages[k].rows :
             issues.normalized[t[k - 1] + n] = <<Pages[k].cursor, n>>
    /\ Len(Pages) <= MaxPages
    /\ issues.complete =>
          /\ \A i \in DOMAIN Pages : Pages[i].rows = source[Pages[i].cursor].rows
          /\ source[Pages[Len(Pages)].cursor].complete
=============================================================================
