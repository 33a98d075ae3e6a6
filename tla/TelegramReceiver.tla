-------------------------- MODULE TelegramReceiver --------------------------
(***************************************************************************)
(* The receiver of the Telegram channel, internal/telegramchat: a poller   *)
(* that hands over one update at a time, a loop that claims, records and   *)
(* answers it, one turn of the assistant, and a queue of commands that     *)
(* wait for the runtime.  The cursor and one receipt per update are on     *)
(* disk; the process may end between any two writes and is started again.  *)
(* The receiver lock keeps a second process out (module ChatSupervisor).   *)
(*                                                                         *)
(* Updates are numbered in the order Telegram has them.  A definition      *)
(* marked "Variant" is a plausible slip in the one after it.               *)
(***************************************************************************)
EXTENDS Naturals, Sequences, FiniteSets

CONSTANTS
    UpdateBound,    \* bound on the updates
    Kinds,          \* the assignments of kinds to updates that are explored
    QueueSize,      \* Limits.MaxMessages: the room for waiting commands
    FileFaultBound, \* bound on writes that fail
    ExitBound       \* bound on the ends of the process

ASSUME ReceiverAssumption ==
    /\ {UpdateBound, FileFaultBound, ExitBound} \subseteq Nat
    /\ QueueSize \in Nat \ {0}

VARIABLES
    kind,       \* what an update asks for
    arrived,    \* the number of updates Telegram has
    cursor,     \* next_update in cursor.json
    receipt,    \* the state of the receipt of an update
    effects,    \* how often an update was acted on
    survivors,  \* updates whose assistant process may be alive without a turn
    next,       \* the poller's offset; 0 while the process is down
    hand, stage,        \* the update the loop works on, and how far it is
    active, turn, ended,    \* the update of the turn, its state and its result
    pending,    \* the update of a /cancel or /reset that waits for the turn
    waiting, running, answers,  \* commands queued, under way and done
    aiBlocked,  \* Health.AIBlocked
    fileFaults, exits   \* failed writes and ends so far

diskVars == <<cursor, receipt>>
loopVars == <<next, hand, stage, pending, aiBlocked>>
turnVars == <<active, turn, ended>>
commandQueueVars == <<waiting, running, answers>>
historyVars == <<kind, arrived, effects>>
receiverVars == <<diskVars, loopVars, turnVars, commandQueueVars, historyVars, survivors,
                  fileFaults, exits>>

Update == 1..UpdateBound
ReceiptState == {"none", "claimed", "reply_sending", "reply_sent", "reply_unconfirmed",
                 "completed", "failed", "uncertain", "cancelled", "interrupted"}
Ahead == {"claimed", "reply_sending", "reply_sent"}
Up == next > 0
Free == Up /\ stage = "none"

Set(u, state) == receipt' = [receipt EXCEPT ![u] = state]
Acts(u) == effects' = [effects EXCEPT ![u] = @ + 1]
To(u, s) == hand' = u /\ stage' = s
Rest == To(0, "none")

ReceiverInit ==
    /\ kind \in Kinds
    /\ arrived = 0 /\ cursor = 1
    /\ receipt = [u \in Update |-> "none"]
    /\ effects = [u \in Update |-> 0]
    /\ survivors = {}
    /\ next = 0 /\ hand = 0 /\ stage = "none" /\ pending = 0 /\ aiBlocked = FALSE
    /\ active = 0 /\ turn = "none" /\ ended = "none"
    /\ waiting = <<>> /\ running = 0 /\ answers = <<>>
    /\ fileFaults = 0 /\ exits = 0

Arrive ==
    /\ arrived < UpdateBound
    /\ arrived' = arrived + 1
    /\ UNCHANGED <<diskVars, loopVars, turnVars, commandQueueVars, kind, effects, survivors,
                   fileFaults, exits>>

\* Reconcile ends the processes that are left, or cannot tell.
Reconciled(ok) == survivors' = IF ok THEN {} ELSE survivors

\* Serve: a receipt that was not settled is marked, never taken up again.
Start ==
    /\ ~Up
    /\ next' = cursor
    /\ \E ok \in BOOLEAN : Reconciled(ok) /\ aiBlocked' = ~ok
    /\ receipt' = [u \in Update |-> IF receipt[u] \in Ahead THEN "interrupted" ELSE receipt[u]]
    /\ UNCHANGED <<cursor, hand, stage, pending, turnVars, commandQueueVars, historyVars,
                   fileFaults, exits>>

\* The process ends; what it held in memory is gone, an assistant may go on.
Exit ==
    /\ Up /\ exits < ExitBound
    /\ exits' = exits + 1
    /\ next' = 0 /\ Rest /\ pending' = 0 /\ aiBlocked' = FALSE
    /\ active' = 0 /\ turn' = "none" /\ ended' = "none"
    /\ waiting' = <<>> /\ running' = 0 /\ answers' = <<>>
    /\ survivors' \in {survivors, survivors \cup ({active} \ {0})}
    /\ UNCHANGED <<diskVars, historyVars, fileFaults>>

----------------------------------------------------------------------------
(* Taking an update: poll, and the head of the loop's case for an event.   *)

HandOver ==
    /\ Free
    /\ next <= arrived
    /\ To(next, IF kind[next] = "foreign" THEN "advance" ELSE "claim")
    /\ UNCHANGED <<diskVars, next, pending, aiBlocked, turnVars, commandQueueVars, historyVars,
                   survivors, fileFaults, exits>>

\* A receipt that exists is a duplicate, whatever is in it.
Claim ==
    /\ stage = "claim"
    /\ IF receipt[hand] = "none" THEN Set(hand, "claimed") /\ To(hand, "advance")
       ELSE To(hand, "duplicate") /\ UNCHANGED receipt
    /\ UNCHANGED <<cursor, next, pending, aiBlocked, turnVars, commandQueueVars, historyVars,
                   survivors, fileFaults, exits>>

\* The poller goes on behind the update as soon as the cursor is saved.
AdvanceCursorVariant ==
    /\ stage \in {"advance", "duplicate"}
    /\ \/ cursor' = hand + 1 /\ UNCHANGED fileFaults
       \/ fileFaults < FileFaultBound /\ fileFaults' = fileFaults + 1 /\ UNCHANGED cursor
    /\ next' = hand + 1
    /\ IF stage = "duplicate" \/ kind[hand] = "foreign" THEN Rest ELSE To(hand, "dispatch")
    /\ UNCHANGED <<receipt, pending, aiBlocked, turnVars, commandQueueVars, historyVars, survivors,
                   exits>>

AdvanceCursor ==
    /\ stage \in {"advance", "duplicate"}
    /\ cursor' = hand + 1 /\ next' = hand + 1
    /\ IF stage = "duplicate" \/ kind[hand] = "foreign" THEN Rest ELSE To(hand, "dispatch")
    /\ UNCHANGED <<receipt, pending, aiBlocked, turnVars, commandQueueVars, historyVars, survivors,
                   fileFaults, exits>>

\* The receipt or the cursor cannot be saved: the poller fetches it again.
TakeFails ==
    /\ stage \in {"claim", "advance", "duplicate"}
    /\ fileFaults < FileFaultBound
    /\ fileFaults' = fileFaults + 1
    /\ Rest
    /\ UNCHANGED <<diskVars, next, pending, aiBlocked, turnVars, commandQueueVars, historyVars,
                   survivors, exits>>

----------------------------------------------------------------------------
(* Dispatching it.                                                         *)

Asks(k) == stage = "dispatch" /\ kind[hand] = k

\* A command answered at once, or any update during the activation of a new
\* program, which is answered without an action.
Inline ==
    /\ Asks("inline")
    /\ Acts(hand) \/ UNCHANGED effects
    /\ To(hand, "reply")
    /\ UNCHANGED <<diskVars, next, pending, aiBlocked, turnVars, commandQueueVars, kind, arrived,
                   survivors, fileFaults, exits>>

\* RequiresRuntimeWait: into the queue, or turned away when it is full.
Enqueue ==
    /\ Asks("command")
    /\ IF Len(waiting) < QueueSize THEN waiting' = Append(waiting, hand) /\ Rest
       ELSE To(hand, "reply") /\ UNCHANGED waiting
    /\ UNCHANGED <<diskVars, next, pending, aiBlocked, turnVars, running, answers, historyVars,
                   survivors, fileFaults, exits>>

\* "/update": accepted first, recorded as completed, launched then.
Accept ==
    /\ Asks("update")
    /\ To(hand, "accept")
    /\ UNCHANGED <<diskVars, next, pending, aiBlocked, turnVars, commandQueueVars, historyVars,
                   survivors, fileFaults, exits>>

LaunchUpdate ==
    /\ stage = "launch"
    /\ Acts(hand)
    /\ \/ Rest
       \/ To(hand, "reply")
    /\ UNCHANGED <<diskVars, next, pending, aiBlocked, turnVars, commandQueueVars, kind, arrived,
                   survivors, fileFaults, exits>>

\* A message for the assistant: one turn at a time, none before recovery.  The
\* reaction is sent first; without it the message is dropped.
BeginTurn ==
    /\ Asks("turn")
    /\ IF active # 0 \/ aiBlocked
       THEN To(hand, "reply") /\ UNCHANGED <<turnVars, effects>>
       ELSE \/ /\ active' = hand /\ turn' = "running"
               /\ Acts(hand) /\ Rest
               /\ UNCHANGED ended
            \/ Rest /\ UNCHANGED <<turnVars, effects>>
    /\ UNCHANGED <<diskVars, next, pending, aiBlocked, commandQueueVars, kind, arrived, survivors,
                   fileFaults, exits>>

\* "/cancel" and "/reset" during a turn: the first one waits for its end.
CancelTurn ==
    /\ Asks("cancel") \/ Asks("reset")
    /\ active # 0 /\ turn # "done"
    /\ Acts(hand)
    /\ IF pending = 0 THEN pending' = hand /\ Rest ELSE To(hand, "reply") /\ UNCHANGED pending
    /\ UNCHANGED <<diskVars, next, aiBlocked, turnVars, commandQueueVars, kind, arrived, survivors,
                   fileFaults, exits>>

\* Without a turn, /reset is the way out of a blocked recovery.
ControlAlone ==
    /\ Asks("cancel") \/ Asks("reset")
    /\ active = 0
    /\ Acts(hand)
    /\ \/ kind[hand] = "cancel" /\ UNCHANGED <<survivors, aiBlocked>>
       \/ kind[hand] = "reset" /\ \E ok \in BOOLEAN : Reconciled(ok) /\ aiBlocked' = ~ok
    /\ To(hand, "reply")
    /\ UNCHANGED <<diskVars, next, pending, turnVars, commandQueueVars, kind, arrived, fileFaults,
                   exits>>

----------------------------------------------------------------------------
(* Replies of the loop: reply and send.                                    *)

BeginReply ==
    /\ stage \in {"reply", "accept"}
    /\ \/ /\ Set(hand, "reply_sending")
          /\ To(hand, IF stage = "accept" THEN "accepting" ELSE "sending")
          /\ UNCHANGED fileFaults
       \/ /\ fileFaults < FileFaultBound
          /\ fileFaults' = fileFaults + 1
          /\ Rest /\ UNCHANGED receipt
    /\ UNCHANGED <<cursor, next, pending, aiBlocked, turnVars, commandQueueVars, historyVars,
                   survivors, exits>>

\* An unconfirmed reply is never sent again.
EndReply ==
    /\ stage \in {"sending", "accepting"}
    /\ \/ Set(hand, "reply_sent") /\ To(hand, IF stage = "accepting" THEN "accepted" ELSE "sent")
       \/ Set(hand, "reply_unconfirmed") /\ Rest
    /\ UNCHANGED <<cursor, next, pending, aiBlocked, turnVars, commandQueueVars, historyVars,
                   survivors, fileFaults, exits>>

CompleteReply ==
    /\ stage \in {"sent", "accepted"}
    /\ \/ /\ Set(hand, "completed")
          /\ IF stage = "accepted" THEN To(hand, "launch") ELSE Rest
          /\ UNCHANGED fileFaults
       \/ /\ fileFaults < FileFaultBound
          /\ fileFaults' = fileFaults + 1
          /\ Rest /\ UNCHANGED receipt
    /\ UNCHANGED <<cursor, next, pending, aiBlocked, turnVars, commandQueueVars, historyVars,
                   survivors, exits>>

----------------------------------------------------------------------------
(* The goroutine of the commands.                                          *)

RunCommand ==
    /\ Up /\ running = 0 /\ waiting # <<>>
    /\ running' = Head(waiting) /\ waiting' = Tail(waiting)
    /\ Acts(Head(waiting))
    /\ UNCHANGED <<diskVars, loopVars, turnVars, answers, kind, arrived, survivors, fileFaults, exits>>

EndCommand ==
    /\ running # 0 /\ Len(answers) < QueueSize
    /\ answers' = Append(answers, running) /\ running' = 0
    /\ UNCHANGED <<diskVars, loopVars, turnVars, waiting, historyVars, survivors, fileFaults, exits>>

AnswerCommand ==
    /\ Free /\ answers # <<>>
    /\ To(Head(answers), "reply") /\ answers' = Tail(answers)
    /\ UNCHANGED <<diskVars, next, pending, aiBlocked, turnVars, waiting, running, historyVars,
                   survivors, fileFaults, exits>>

----------------------------------------------------------------------------
(* The goroutine of the turn, and finishTurn in the loop.                  *)

TurnSends ==
    /\ \/ turn = "running" /\ Set(active, "reply_sending") /\ turn' = "sending"
       \/ turn = "sending" /\ Set(active, "reply_sent") /\ turn' = "running"
       \/ turn = "sending" /\ Set(active, "reply_unconfirmed") /\ turn' = "broken"
    /\ UNCHANGED <<cursor, loopVars, active, ended, commandQueueVars, historyVars, survivors,
                   fileFaults, exits>>

\* The result of a turn; one that is not certain may leave its process behind,
\* and so may a receipt that cannot be written.
TurnEnds ==
    /\ turn \in {"running", "broken"}
    /\ turn' = "done"
    /\ \E result \in {"completed", "failed", "uncertain"} \cup (IF pending # 0 THEN {"cancelled"} ELSE {}) :
          /\ turn = "broken" => result # "completed"
          /\ ended' = result
          /\ survivors' \in IF result = "uncertain" THEN {survivors, survivors \cup {active}} ELSE {survivors}
          /\ receipt' \in {[receipt EXCEPT ![active] = IF turn = "broken" THEN @ ELSE result]}
                          \cup (IF result = "uncertain" THEN {receipt} ELSE {})
    /\ UNCHANGED <<cursor, loopVars, active, commandQueueVars, historyVars, fileFaults, exits>>

FinishTurnVariant ==
    /\ turn = "done"
    /\ Free \/ (stage = "dispatch" /\ kind[hand] \in {"cancel", "reset"})
    /\ UNCHANGED <<survivors, aiBlocked>>
    /\ active' = 0 /\ turn' = "none" /\ ended' = "none"
    /\ pending' = 0
    /\ IF pending # 0 /\ Free THEN To(pending, "reply") ELSE UNCHANGED <<hand, stage>>
    /\ UNCHANGED <<diskVars, next, commandQueueVars, historyVars, fileFaults, exits>>

\* Also first thing in a /cancel or /reset, which then finds no turn; one that
\* waited is answered in that same step.
FinishTurn ==
    /\ turn = "done"
    /\ Free \/ (stage = "dispatch" /\ kind[hand] \in {"cancel", "reset"})
    /\ IF ended = "uncertain" \/ pending # 0
       THEN \E ok \in BOOLEAN : Reconciled(ok) /\ aiBlocked' = (aiBlocked \/ ~ok)
       ELSE UNCHANGED <<survivors, aiBlocked>>
    /\ active' = 0 /\ turn' = "none" /\ ended' = "none"
    /\ pending' = 0
    /\ CASE pending # 0 /\ Free -> To(pending, "reply") /\ UNCHANGED receipt
         [] pending # 0 /\ ~Free -> /\ \E state \in {"completed", "reply_unconfirmed"} : Set(pending, state)
                                    /\ UNCHANGED <<hand, stage>>
         [] OTHER -> UNCHANGED <<receipt, hand, stage>>
    /\ UNCHANGED <<cursor, next, commandQueueVars, historyVars, fileFaults, exits>>

LoopStep ==
    \/ HandOver \/ Claim \/ AdvanceCursor \/ TakeFails
    \/ Inline \/ Enqueue \/ Accept \/ LaunchUpdate \/ BeginTurn \/ CancelTurn \/ ControlAlone
    \/ BeginReply \/ EndReply \/ CompleteReply \/ AnswerCommand \/ FinishTurn

ReceiverNext ==
    \/ Arrive \/ Start \/ Exit
    \/ LoopStep
    \/ RunCommand \/ EndCommand
    \/ TurnSends \/ TurnEnds

----------------------------------------------------------------------------
ReceiverTypeOK ==
    /\ receipt \in [Update -> ReceiptState]
    /\ cursor \in 1..UpdateBound + 1 /\ next \in 0..UpdateBound + 1
    /\ hand \in 0..UpdateBound /\ active \in 0..UpdateBound /\ pending \in 0..UpdateBound
    /\ survivors \subseteq Update
    /\ Up => next = cursor
    /\ (active = 0) <=> (turn = "none")
    /\ Len(waiting) <= QueueSize /\ Len(answers) <= QueueSize

\* The updates the process still may act on.
Held == (IF stage \in {"dispatch", "accept", "accepting", "accepted", "launch"} THEN {hand} ELSE {})
        \cup {waiting[i] : i \in DOMAIN waiting}

\* A turn never works beside the assistant process of an earlier one, which a
\* crash or an uncertain end may have left: neither a restart nor /cancel nor
\* /reset lets a turn begin before that process is known to be gone.
TurnRunsAlone == turn \in {"running", "sending"} => survivors = {}

\* Whatever ends in between: every update is taken once and in order, sooner or
\* later, and acted on at most once; it may be lost, and is not taken up again.
Promised == INSTANCE Mailbox WITH taken <- cursor - 1, held <- Held

ImplementsMailbox == Promised!MailSpec
=============================================================================
