---------------------------- MODULE ResultHandoff ----------------------------
(***************************************************************************)
(* The way of a result from its row in result_events to the owner: the     *)
(* sessions of module Conversations between their turns, the owner's       *)
(* commands "flow result recover" and "flow result resolve", and the       *)
(* controller, which applies their requests one transaction at a time.     *)
(*                                                                         *)
(* A staged job has one result, so a job also names its result.  The       *)
(* request revision does not change here (StagedWorkflow has it).  Every   *)
(* request to the controller may time out: the caller then gives up, and   *)
(* the controller may still apply the request later, or never.  Results    *)
(* are handed over in any order.                                           *)
(***************************************************************************)
EXTENDS Conversations

CONSTANTS
    RetryBound,     \* bound on the owner's decisions to send a result again
    LateBound       \* bound on the abandoned requests that are still on their way

ASSUME HandoffAssumption ==
    /\ RetryBound \in Nat /\ LateBound \in Nat
    /\ "owner" \notin Session \cup {NoOne}

VARIABLES
    delivery,       \* result_events.delivery_status, "none" before the row exists
    version,        \* result_events.updated_at: every transition takes a later one
    noted,          \* Conversation.ProcessedEvents
    deliveryLease,  \* holder of state/deliveries/<conversation>.lock
    listed,         \* the results a session lists, with the version it saw
    owner,          \* the owner's command: its job, the version it saw and its aim
    late,           \* requests whose caller has given up
    sent,           \* how often the transport may have shown the result
    retried,        \* "result.resolved" rows with resolution retry
    attested        \* "result.resolved" rows with resolution sent

resultVars == <<delivery, version, late, retried, attested>>
handoffVars == <<resultVars, noted, deliveryLease, listed, owner, sent>>
vars == <<convVars, handoffVars>>

DeliveryStatus == {"none", "available", "sending", "delivered", "unconfirmed"}
Aim == {"recover", "sent", "retry"}

\* A session inside the GuardAction of a delivery.
SenderPc == {"marking", "noting", "emitting", "confirming", "unsure"}
ConsumerPc == {"reconciling", "pending", "reading", "read"} \cup SenderPc

NoCommand == [op |-> "none"]
Owner == "owner"

Init ==
    /\ ConversationInit
    /\ delivery = [j \in Job |-> "none"]
    /\ version = [j \in Job |-> 0]
    /\ noted = [c \in Conversation |-> {}]
    /\ deliveryLease = [c \in Conversation |-> NoOne]
    /\ listed = [p \in Session |-> {}]
    /\ owner = NoCommand
    /\ late = {}
    /\ sent = [j \in Job |-> 0]
    /\ retried = [j \in Job |-> 0]
    /\ attested = {}

-----------------------------------------------------------------------------
(***************************************************************************)
(* The controller's side                                                   *)
(***************************************************************************)

\* Results a conversation may see: its own, and those of jobs that both the conversation
\* of origin and this one are linked to.
Visible(c, j) ==
    \/ origin[j] = c
    \/ origin[j] \in Conversation /\ j \in linked[c] \cap linked[origin[j]]

\* Variant: the versions are not kept.
ListedNames(c, d) == {k \in Job : delivery[k] = d /\ Visible(c, k)}

Listed(c, d) == {<<j, version[j]>> : j \in {k \in Job : delivery[k] = d /\ Visible(c, k)}}

\* The result of an admitted job is published.
Publish(j) ==
    /\ origin[j] # NoOne
    /\ delivery[j] = "none"
    /\ delivery' = [delivery EXCEPT ![j] = "available"]
    /\ version' = [version EXCEPT ![j] = 1]
    /\ UNCHANGED <<convVars, noted, deliveryLease, listed, owner, late, sent, retried, attested>>

\* allowedDeliveryTransition, for the statuses a caller asks for.
Allowed(from, to) ==
    \/ from = "available" /\ to \in {"sending", "delivered"}
    \/ from = "sending" /\ to \in {"delivered", "unconfirmed"}

\* MarkResultDelivery succeeds, possibly as a repetition that changes nothing.
Mark(j, to) ==
    /\ to = delivery[j] \/ Allowed(delivery[j], to)
    /\ delivery' = [delivery EXCEPT ![j] = to]
    /\ version' = [version EXCEPT ![j] = IF to = delivery[j] THEN @ ELSE @ + 1]
    /\ UNCHANGED <<retried, attested>>

\* Variant: an abandoned send is offered again.
ReconciledAgain == "available"

Reconciled == "unconfirmed"

\* ReconcileAbandonedResultSend.
Reconcile(j, v) ==
    /\ delivery[j] = "sending"
    /\ version[j] = v
    /\ delivery' = [delivery EXCEPT ![j] = Reconciled]
    /\ version' = [version EXCEPT ![j] = @ + 1]
    /\ UNCHANGED <<retried, attested>>

\* ResolveUnconfirmedResult.
Resolve(j, v, aim) ==
    /\ delivery[j] = "unconfirmed"
    /\ version[j] = v
    /\ delivery' = [delivery EXCEPT ![j] = IF aim = "sent" THEN "delivered" ELSE "available"]
    /\ version' = [version EXCEPT ![j] = @ + 1]
    /\ retried' = [retried EXCEPT ![j] = IF aim = "retry" THEN @ + 1 ELSE @]
    /\ attested' = IF aim = "sent" THEN attested \cup {j} ELSE attested

Apply(r) ==
    CASE r.op = "mark" -> Mark(r.job, r.to)
      [] r.op = "recover" -> Reconcile(r.job, r.version)
      [] OTHER -> Resolve(r.job, r.version, r.op)

MarkRequest(j, to) == [op |-> "mark", job |-> j, to |-> to]
CommandRequest(op, j, v) == [op |-> op, job |-> j, version |-> v]

\* The controller serves a request whose caller has given up.
ServeLate(r) ==
    /\ late' = late \ {r}
    /\ Apply(r)
    /\ UNCHANGED <<convVars, noted, deliveryLease, listed, owner, sent>>

-----------------------------------------------------------------------------
(***************************************************************************)
(* ConsumeResults, one session between two turns                           *)
(***************************************************************************)

Goto(p, from, to) == pc[p] = from /\ pc' = [pc EXCEPT ![p] = to]

\* Leaves everything of Conversations but the label of the session alone.
OnlyLabels == UNCHANGED <<recordVars, origin, lockVars, conv, fresh, job, target, boundVars>>

\* result_sending and result_pending refuse an archived conversation.
List(p, from, to, d) ==
    /\ Goto(p, from, to)
    /\ conv[p] \in open
    /\ listed' = [listed EXCEPT ![p] = Listed(conv[p], d)]
    /\ OnlyLabels
    /\ UNCHANGED <<resultVars, noted, owner, sent>>

\* Variant: the lease is not exclusive.
SharedLease(c) == TRUE

FreeLease(c) == deliveryLease[c] = NoOne

\* The delivery lease is taken and the results that are being sent are listed.
BeginDelivery(p) ==
    /\ FreeLease(conv[p])
    /\ deliveryLease' = [deliveryLease EXCEPT ![conv[p]] = p]
    /\ List(p, "idle", "reconciling", "sending")

\* Everything the lease holder lists as being sent was abandoned by its sender.
ReconcileListed(p, x) ==
    /\ pc[p] = "reconciling"
    /\ x \in listed[p]
    /\ listed' = [listed EXCEPT ![p] = @ \ {x}]
    /\ Reconcile(x[1], x[2])
    /\ UNCHANGED <<convVars, late, noted, deliveryLease, owner, sent>>

\* result_pending, once nothing is left to reconcile.
ListPending(p) ==
    /\ listed[p] = {}
    /\ List(p, "reconciling", "pending", "available")
    /\ UNCHANGED deliveryLease

MayDeliver(j, c) == delivery[j] = "available" /\ Visible(c, j) /\ (origin[j] # c => c \in open)

ReadResult(p, x) ==
    /\ Goto(p, "pending", "reading")
    /\ x \in listed[p]
    /\ MayDeliver(x[1], conv[p])
    /\ listed' = [listed EXCEPT ![p] = @ \ {x}]
    /\ job' = [job EXCEPT ![p] = x[1]]
    /\ UNCHANGED <<recordVars, origin, lockVars, conv, fresh, target, boundVars, resultVars, noted, deliveryLease, owner, sent>>

BetweenTurns(c) == c \in open /\ turn[c] # "running"

\* The session takes over the present revision, unless a turn is running.
Refresh(p) ==
    /\ Goto(p, "reading", "read")
    /\ BetweenTurns(conv[p])
    /\ fresh' = fresh \cup {p}
    /\ UNCHANGED <<recordVars, origin, lockVars, conv, job, target, boundVars, handoffVars>>

EnterSend(p) ==
    /\ EnterGuard(p, "read", "marking")
    /\ UNCHANGED <<recordVars, origin, storeLock, conv, fresh, job, target, boundVars, handoffVars>>

MarkSending(p) ==
    /\ Goto(p, "marking", IF job[p] \in noted[conv[p]] THEN "emitting" ELSE "noting")
    /\ Mark(job[p], "sending")
    /\ OnlyLabels
    /\ UNCHANGED <<late, noted, deliveryLease, listed, owner, sent>>

\* The result is recorded in the conversation before it is shown.
NoteResult(p) ==
    /\ Change(p, "noting", "emitting")
    /\ noted' = [noted EXCEPT ![conv[p]] = @ \cup {job[p]}]
    /\ UNCHANGED <<recordVars, origin, lockVars, conv, job, target, boundVars>>
    /\ UNCHANGED <<resultVars, deliveryLease, listed, owner, sent>>

NoteFails(p) ==
    /\ Goto(p, "noting", "unsure")
    /\ OnlyLabels /\ UNCHANGED handoffVars

Emit(p) ==
    /\ Goto(p, "emitting", "confirming")
    /\ sent' = [sent EXCEPT ![job[p]] = @ + 1]
    /\ OnlyLabels
    /\ UNCHANGED <<resultVars, noted, deliveryLease, listed, owner>>

AfterFailedSend == "unsure"

\* A failed send may have reached the owner.
EmitFails(p) ==
    /\ Goto(p, "emitting", AfterFailedSend)
    /\ \E n \in {0, 1} : sent' = [sent EXCEPT ![job[p]] = @ + n]
    /\ OnlyLabels
    /\ UNCHANGED <<resultVars, noted, deliveryLease, listed, owner>>

Delivered(p) ==
    /\ Goto(p, "confirming", "pending")
    /\ Mark(job[p], "delivered")
    /\ actionLease' = Released(actionLease, p)
    /\ UNCHANGED <<recordVars, origin, storeLock, conv, fresh, job, target, boundVars>>
    /\ UNCHANGED <<late, noted, deliveryLease, listed, owner, sent>>

\* The end of ConsumeResults, whatever it got done: both leases are released.
Leave(p) ==
    /\ pc' = [pc EXCEPT ![p] = "idle"]
    /\ actionLease' = Released(actionLease, p)
    /\ deliveryLease' = Released(deliveryLease, p)
    /\ listed' = [listed EXCEPT ![p] = {}]
    /\ UNCHANGED <<recordVars, origin, storeLock, conv, fresh, job, target, boundVars>>

MarkUnsure(p) ==
    /\ pc[p] = "unsure"
    /\ Mark(job[p], "unconfirmed")
    /\ Leave(p)
    /\ UNCHANGED <<late, noted, owner, sent>>

\* The list is worked off, or a request, a check or a lock fails.
EndDelivery(p) ==
    /\ pc[p] \in ConsumerPc \ {"noting", "emitting"}
    /\ Leave(p)
    /\ UNCHANGED <<resultVars, noted, owner, sent>>

\* A request that changes the result times out.
GiveUp(p) ==
    /\ Cardinality(late) < LateBound
    /\ \/ pc[p] = "marking" /\ late' = late \cup {MarkRequest(job[p], "sending")}
       \/ pc[p] = "confirming" /\ late' = late \cup {MarkRequest(job[p], "delivered")}
       \/ pc[p] = "unsure" /\ late' = late \cup {MarkRequest(job[p], "unconfirmed")}
       \/ /\ pc[p] = "reconciling"
          /\ \E x \in listed[p] : late' = late \cup {CommandRequest("recover", x[1], x[2])}
    /\ Leave(p)
    /\ UNCHANGED <<delivery, version, retried, attested, noted, owner, sent>>

-----------------------------------------------------------------------------
(***************************************************************************)
(* "flow result recover" and "flow result resolve"                         *)
(***************************************************************************)

\* The command holds the delivery lease of the conversation the result came from.
OwnerLooks(j, aim) ==
    /\ owner = NoCommand
    /\ delivery[j] = IF aim = "recover" THEN "sending" ELSE "unconfirmed"
    /\ aim = "retry" => retried[j] < RetryBound
    /\ FreeLease(origin[j])
    /\ deliveryLease' = [deliveryLease EXCEPT ![origin[j]] = Owner]
    /\ owner' = CommandRequest(aim, j, version[j])
    /\ UNCHANGED <<convVars, resultVars, noted, listed, sent>>

OwnerDone ==
    /\ owner' = NoCommand
    /\ deliveryLease' = Released(deliveryLease, Owner)
    /\ UNCHANGED <<convVars, noted, listed, sent>>

OwnerApplies ==
    /\ owner # NoCommand
    /\ Apply(owner)
    /\ OwnerDone
    /\ UNCHANGED late

\* The request is refused, the command is stopped, or its request times out.
OwnerGivesUp ==
    /\ owner # NoCommand
    /\ \/ UNCHANGED late
       \/ Cardinality(late) < LateBound /\ late' = late \cup {owner}
    /\ OwnerDone
    /\ UNCHANGED <<delivery, version, retried, attested>>

-----------------------------------------------------------------------------
\* A process that dies also leaves its delivery lease.
Die(p) ==
    /\ Crash(p)
    /\ deliveryLease' = Released(deliveryLease, p)
    /\ listed' = [listed EXCEPT ![p] = {}]
    /\ UNCHANGED <<resultVars, noted, owner, sent>>

ConsumerStep(p) ==
    \/ BeginDelivery(p)
    \/ \E x \in listed[p] : ReconcileListed(p, x) \/ ReadResult(p, x)
    \/ ListPending(p)
    \/ Refresh(p) \/ EnterSend(p) \/ MarkSending(p)
    \/ NoteResult(p) \/ NoteFails(p) \/ Emit(p) \/ EmitFails(p)
    \/ Delivered(p) \/ MarkUnsure(p) \/ EndDelivery(p) \/ GiveUp(p)

OwnerStep ==
    \/ \E j \in Job, aim \in Aim : OwnerLooks(j, aim)
    \/ OwnerApplies \/ OwnerGivesUp

Next ==
    \/ \E p \in Session :
          \/ ConversationStep(p) /\ UNCHANGED handoffVars
          \/ ConsumerStep(p)
          \/ Die(p)
    \/ \E j \in Job : Publish(j)
    \/ \E r \in late : ServeLate(r)
    \/ OwnerStep

Spec == Init /\ [][Next]_vars

-----------------------------------------------------------------------------
(***************************************************************************)
(* Properties                                                              *)
(***************************************************************************)

HandoffTypeOK ==
    /\ RecordsTypeOK
    /\ pc \in [Session -> SessionPc \cup ConsumerPc]
    /\ delivery \in [Job -> DeliveryStatus]
    /\ version \in [Job -> Nat]
    /\ noted \in [Conversation -> SUBSET Job]
    /\ deliveryLease \in [Conversation -> Session \cup {NoOne, Owner}]
    /\ listed \in [Session -> SUBSET (Job \X Nat)]
    /\ sent \in [Job -> Nat] /\ retried \in [Job -> Nat] /\ attested \subseteq Job

\* An uncertain send is never replayed blindly: the owner sees a result at most once, and
\* once more for each time the owner asked for it to be sent again.
SentOnceUnlessRetried == \A j \in Job : ~Torn => sent[j] <= 1 + retried[j]

\* The result of j is seen from the conversation that submitted it and from no other.
Undivided(j) == \A c \in Conversation : Visible(c, j) => c = origin[j]

\* The same for a result that one conversation sees: one lease covers all its sends.
SentOnceByOneConversation == \A j \in Job : Undivided(j) => sent[j] <= 1 + retried[j]

\* What counts as delivered was shown to the owner, or the owner said so.
DeliveredWasSent == \A j \in Job : delivery[j] = "delivered" => sent[j] > 0 \/ j \in attested

\* A result is never shown in the middle of a turn, and never in an archived conversation.
ResultsBetweenTurns ==
    \A p \in Session : pc[p] \in {"emitting", "confirming"} =>
        turn[conv[p]] # "running" /\ conv[p] \in open

\* A live process is about to send the result of j, or has sent it and waits to say so.
HasSender(j) == \E p \in Session : pc[p] \in {"noting", "emitting", "confirming"} /\ job[p] = j

AbandonsSend(j) == delivery[j] = "sending" /\ delivery'[j] = "unconfirmed"

\* A session that takes over a delivery only reconciles sends whose sender is gone, also
\* when the sends were listed long before and others have taken the conversation over.
ReconciledSendIsAbandoned ==
    [][\A p \in Session, j \in Job :
          pc[p] = "reconciling" /\ listed'[p] # listed[p] /\ AbandonsSend(j) /\ Undivided(j)
              => ~HasSender(j)]_vars

\* The same for the reconciliation by the owner's command.
AbandonedSendHasNoSender ==
    [][\A j \in Job : owner' # owner /\ AbandonsSend(j) /\ ~Torn => ~HasSender(j)]_vars

\* Sends and receipts agree: nothing is shown twice unasked, nothing counts as shown that
\* was not, whoever died between the send and its receipt, and nothing is shown in a turn.
ReceiptsMatchSends == SentOnceByOneConversation /\ DeliveredWasSent /\ ResultsBetweenTurns
=============================================================================
