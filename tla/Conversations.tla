---------------------------- MODULE Conversations ----------------------------
(***************************************************************************)
(* The conversations of one owner on one channel: the records, binding and *)
(* locks of internal/conversationstate, and the turn protocol of           *)
(* internal/reception over them.                                           *)
(*                                                                         *)
(* A session is one attached reader and writer: a chat process, an idle    *)
(* tick of the Telegram receiver, or one "flow submit" command.  Several   *)
(* may be attached to the same conversation.  Revisions only grow and are  *)
(* only compared for equality, so the module keeps the set "fresh" of the  *)
(* sessions whose Revision is still the one of their conversation.         *)
(* flock releases every lock of a process that dies.  A definition marked  *)
(* "Variant" is a plausible slip in the definition after it.               *)
(***************************************************************************)
EXTENDS Naturals, FiniteSets

CONSTANTS
    Session,        \* sessions, one per process
    Conversation,   \* identities of conversations
    First,          \* the conversation Ensure created
    Job,            \* identities of jobs that turns may admit
    NoOne,          \* the holder of a free lock, the origin of no job
    TurnBound,      \* bound on the requests recorded
    SwitchBound,    \* bound on the resets and selections
    CrashBound,     \* bound on the processes that die outside a switch
    TearBound       \* bound on the switches that stop half-way

ASSUME ConversationAssumption ==
    /\ First \in Conversation
    /\ NoOne \notin Session \cup Conversation
    /\ TurnBound \in Nat /\ SwitchBound \in Nat /\ CrashBound \in Nat /\ TearBound \in Nat

VARIABLES
    active,         \* the conversation named in the binding
    open,           \* conversations whose record exists and is not archived
    archived,       \* conversations whose record is archived
    turn,           \* Conversation.TurnState
    asked,          \* the session that recorded the latest user message
    linked,         \* Conversation.JobIDs
    origin,         \* workflow_jobs.origin_conversation_id of an admitted job
    actionLease,    \* holder of state/actions/<conversation>.lock
    storeLock,      \* holder of state/conversation.lock across several writes
    pc,             \* what a session is doing
    conv,           \* Session.ConversationID
    fresh,          \* sessions whose Revision is that of their conversation
    job,            \* the job a session is about to link or deliver
    target,         \* the conversation a switch leads to
    tears,          \* switches that stopped half-way so far
    turns, switches, crashes    \* requests, switches and other deaths so far

recordVars == <<active, open, archived, turn, asked, linked>>
lockVars == <<actionLease, storeLock>>
sessionVars == <<pc, conv, fresh, job, target>>
boundVars == <<tears, turns, switches, crashes>>
convVars == <<recordVars, origin, lockVars, sessionVars, boundVars>>

TurnPc == {"turn", "guard", "admitted", "linked", "refused", "failing"}
FlowPc == {"flow asked", "flow admitted", "flow linked"}
SwitchPc == {"moving", "archiving"}
SessionPc == {"off", "idle", "selected"} \cup TurnPc \cup FlowPc \cup SwitchPc

\* A session between EnterGuard and the release of its lease.
GuardPc == {"guard", "admitted", "linked", "refused"}

Released(lease, p) == [c \in Conversation |-> IF lease[c] = p THEN NoOne ELSE lease[c]]

ConversationInit ==
    /\ active = First
    /\ open = {First}
    /\ archived = {}
    /\ turn = [c \in Conversation |-> "idle"]
    /\ asked = [c \in Conversation |-> NoOne]
    /\ linked = [c \in Conversation |-> {}]
    /\ origin = [j \in Job |-> NoOne]
    /\ actionLease = [c \in Conversation |-> NoOne]
    /\ storeLock = NoOne
    /\ pc = [p \in Session |-> "off"]
    /\ conv = [p \in Session |-> First]
    /\ fresh = {}
    /\ job \in [Session -> Job]
    /\ target = [p \in Session |-> First]
    /\ tears = 0 /\ turns = 0 /\ switches = 0 /\ crashes = 0

-----------------------------------------------------------------------------
(***************************************************************************)
(* Store.Change and Store.GuardAction                                      *)
(***************************************************************************)

\* Variant: the revision is not compared.
StillOpen(p) == conv[p] \in open

\* The optimistic guard: nobody has changed the conversation since p read it.
Unchanged(p) == conv[p] \in open /\ p \in fresh

\* Change and GuardAction wait for the actions lease of their conversation, unless the
\* caller is inside its own GuardAction.
LeaseFree(p) == actionLease[conv[p]] \in {NoOne, p}

\* p may write its conversation; the write moves p from one label to another.
Change(p, from, to) ==
    /\ pc[p] = from
    /\ storeLock = NoOne
    /\ LeaseFree(p)
    /\ Unchanged(p)
    /\ fresh' = fresh \ {q \in Session \ {p} : conv[q] = conv[p]}
    /\ pc' = [pc EXCEPT ![p] = to]

\* GuardAction up to the call of the action.
EnterGuard(p, from, to) ==
    /\ pc[p] = from
    /\ actionLease[conv[p]] = NoOne
    /\ Unchanged(p)
    /\ actionLease' = [actionLease EXCEPT ![conv[p]] = p]
    /\ pc' = [pc EXCEPT ![p] = to]

-----------------------------------------------------------------------------
(***************************************************************************)
(* Attaching, and a turn of a session                                      *)
(***************************************************************************)

\* Ensure and, for a turn that is recorded as running, Mark.  A session may attach
\* again at any time between its turns.
Attach(p) ==
    /\ pc[p] \in {"off", "idle"}
    /\ storeLock = NoOne
    /\ active \in open
    /\ turn[active] = "running" => actionLease[active] = NoOne
    /\ turn' = [turn EXCEPT ![active] = IF @ = "running" THEN "uncertain" ELSE @]
    /\ fresh' = (fresh \ {q \in Session : turn[active] = "running" /\ conv[q] = active}) \cup {p}
    /\ conv' = [conv EXCEPT ![p] = active]
    /\ pc' = [pc EXCEPT ![p] = "idle"]
    /\ UNCHANGED <<active, open, archived, asked, linked, origin, lockVars, job, target, boundVars>>

\* Turn records the request before anything else.
BeginTurn(p) ==
    /\ turns < TurnBound
    /\ Change(p, "idle", "turn")
    /\ turn' = [turn EXCEPT ![conv[p]] = "running"]
    /\ asked' = [asked EXCEPT ![conv[p]] = p]
    /\ turns' = turns + 1
    /\ UNCHANGED <<active, open, archived, linked, origin, lockVars, conv, job, target, tears, switches, crashes>>

\* The model proposed no action: its message is recorded and the turn ends, as a failed
\* one if the message cannot be shown.
Reply(p) ==
    /\ \E to \in {"idle", "failing"} : Change(p, "turn", to)
    /\ turn' = [turn EXCEPT ![conv[p]] = "idle"]
    /\ UNCHANGED <<active, open, archived, asked, linked, origin, lockVars, conv, job, target, boundVars>>

\* The model proposed an action, which the host applies under the guard.
ProposeAction(p) ==
    /\ EnterGuard(p, "turn", "guard")
    /\ UNCHANGED <<recordVars, origin, storeLock, conv, fresh, job, target, boundVars>>

\* Host.Dispatch admits job j for the conversation of the session.
Admit(p, j, from, to) ==
    /\ pc[p] = from
    /\ origin[j] = NoOne
    /\ origin' = [origin EXCEPT ![j] = conv[p]]
    /\ job' = [job EXCEPT ![p] = j]
    /\ pc' = [pc EXCEPT ![p] = to]
    /\ UNCHANGED <<recordVars, lockVars, conv, fresh, target, boundVars>>

\* Host.Dispatch reports a failure.  A request whose answer was lost may have been
\* admitted all the same.
DispatchFails(p) ==
    /\ pc[p] = "guard"
    /\ \/ UNCHANGED origin
       \/ \E j \in Job : origin[j] = NoOne /\ origin' = [origin EXCEPT ![j] = conv[p]]
    /\ pc' = [pc EXCEPT ![p] = "refused"]
    /\ UNCHANGED <<recordVars, lockVars, conv, fresh, job, target, boundVars>>

\* Store.LinkJob, inside the guard, in "flow submit" and in SelectPriorJob.
Link(p, from, to) ==
    /\ Change(p, from, to)
    /\ linked' = [linked EXCEPT ![conv[p]] = @ \cup {job[p]}]
    /\ UNCHANGED <<active, open, archived, turn, asked, origin, lockVars, conv, job, target, boundVars>>

\* recordAction ingests the host event of the action and the guard is left.
RecordAction(p, from, to) ==
    /\ Change(p, from, to)
    /\ actionLease' = Released(actionLease, p)
    /\ UNCHANGED <<recordVars, origin, storeLock, conv, job, target, boundVars>>

\* Any step of a turn may fail: a cancelled or failed generation, a revision that has
\* moved, a lock that stays busy, a record that cannot be written.
TurnFails(p) ==
    /\ pc[p] \in TurnPc \ {"failing"}
    /\ actionLease' = Released(actionLease, p)
    /\ pc' = [pc EXCEPT ![p] = "failing"]
    /\ UNCHANGED <<recordVars, origin, storeLock, conv, fresh, job, target, boundVars>>

\* The deferred Mark of Turn, whose own failure is ignored.
MarkUncertain(p) ==
    /\ \/ /\ Change(p, "failing", "idle")
          /\ turn' = [turn EXCEPT ![conv[p]] = "uncertain"]
       \/ /\ pc[p] = "failing"
          /\ pc' = [pc EXCEPT ![p] = "idle"]
          /\ UNCHANGED <<fresh, turn>>
    /\ UNCHANGED <<active, open, archived, asked, linked, origin, lockVars, conv, job, target, boundVars>>

\* SelectPriorJob makes a job of an earlier conversation known to the present one: a
\* link, then a host event (NoteSelection).
SelectPriorJob(p, prior, j) ==
    /\ j \in linked[prior]
    /\ Change(p, "idle", "selected")
    /\ linked' = [linked EXCEPT ![conv[p]] = @ \cup {j}]
    /\ UNCHANGED <<active, open, archived, turn, asked, origin, lockVars, conv, job, target, boundVars>>

NoteSelection(p) ==
    /\ \/ Change(p, "selected", "idle")
       \/ /\ pc[p] = "selected"
          /\ pc' = [pc EXCEPT ![p] = "idle"]
          /\ UNCHANGED fresh
    /\ UNCHANGED <<recordVars, origin, lockVars, conv, job, target, boundVars>>

-----------------------------------------------------------------------------
(***************************************************************************)
(* "flow submit": a request without a model or a guard                     *)
(***************************************************************************)

FlowAsk(p) ==
    /\ turns < TurnBound
    /\ pc[p] = "off"
    /\ storeLock = NoOne
    /\ active \in open
    /\ actionLease[active] = NoOne
    /\ conv' = [conv EXCEPT ![p] = active]
    /\ fresh' = (fresh \ {q \in Session : conv[q] = active}) \cup {p}
    /\ turn' = [turn EXCEPT ![active] = "running"]
    /\ asked' = [asked EXCEPT ![active] = p]
    /\ turns' = turns + 1
    /\ pc' = [pc EXCEPT ![p] = "flow asked"]
    /\ UNCHANGED <<active, open, archived, linked, origin, lockVars, job, target, tears, switches, crashes>>

FlowEnds(p) ==
    /\ Change(p, "flow linked", "off")
    /\ turn' = [turn EXCEPT ![conv[p]] = "idle"]
    /\ UNCHANGED <<active, open, archived, asked, linked, origin, lockVars, conv, job, target, boundVars>>

\* A failing command marks nothing: the turn stays recorded as running.
FlowFails(p) ==
    /\ pc[p] \in FlowPc
    /\ pc' = [pc EXCEPT ![p] = "off"]
    /\ fresh' = fresh \ {p}
    /\ UNCHANGED <<recordVars, origin, lockVars, conv, job, target, boundVars>>

-----------------------------------------------------------------------------
(***************************************************************************)
(* Reset and Select: three records are written, one after the other, under *)
(* the actions lease of the active conversation and the store lock         *)
(***************************************************************************)

\* Variant: a switch does not wait for an action in progress.
SwitchAtAnyTime(p) == storeLock = NoOne

MaySwitch(p) == storeLock = NoOne /\ actionLease[active] = NoOne

\* Variant: the target keeps its archive mark.
KeepsArchiveMark(c) == archived

Unarchived(c) == archived \ {c}

\* The record of the target is written: a new one by Reset, the unarchived one by Select.
BeginSwitch(p, c) ==
    /\ switches < SwitchBound
    /\ pc[p] = "idle"
    /\ c # active
    /\ MaySwitch(p)
    /\ open' = open \cup {c}
    /\ archived' = Unarchived(c)
    /\ fresh' = fresh \ {q \in Session : conv[q] = c}
    /\ actionLease' = [actionLease EXCEPT ![active] = p]
    /\ storeLock' = p
    /\ target' = [target EXCEPT ![p] = c]
    /\ pc' = [pc EXCEPT ![p] = "moving"]
    /\ switches' = switches + 1
    /\ UNCHANGED <<active, turn, asked, linked, origin, conv, job, tears, turns, crashes>>

MovePointer(p) ==
    /\ pc[p] = "moving"
    /\ active' = target[p]
    /\ pc' = [pc EXCEPT ![p] = "archiving"]
    /\ UNCHANGED <<open, archived, turn, asked, linked, origin, lockVars, conv, fresh, job, target, boundVars>>

\* Variant: no conversation is archived.
NoConversation(p) == {}

\* The conversation that was active when the switch began.
PriorConversation(p) == {c \in Conversation : actionLease[c] = p}

\* The session leaves both locks and attaches again.
ArchivePrior(p) ==
    /\ pc[p] = "archiving"
    /\ archived' = archived \cup PriorConversation(p)
    /\ open' = open \ PriorConversation(p)
    /\ fresh' = fresh \ ({p} \cup {q \in Session : conv[q] \in PriorConversation(p)})
    /\ actionLease' = Released(actionLease, p)
    /\ storeLock' = NoOne
    /\ pc' = [pc EXCEPT ![p] = "off"]
    /\ UNCHANGED <<active, turn, asked, linked, origin, conv, job, target, boundVars>>

\* A write of a switch fails or the process dies: the locks are released, the records stay
\* as they are, and a session that goes on has not switched.
SwitchFails(p) ==
    /\ tears < TearBound
    /\ pc[p] \in SwitchPc
    /\ actionLease' = Released(actionLease, p)
    /\ storeLock' = NoOne
    /\ \/ pc' = [pc EXCEPT ![p] = "idle"] /\ UNCHANGED fresh
       \/ pc' = [pc EXCEPT ![p] = "off"] /\ fresh' = fresh \ {p}
    /\ tears' = tears + 1
    /\ UNCHANGED <<recordVars, origin, conv, job, target, turns, switches, crashes>>

\* The process dies; its lease is released, its records stay as they are.
Crash(p) ==
    /\ crashes < CrashBound
    /\ pc[p] \notin {"off"} \cup SwitchPc
    /\ actionLease' = Released(actionLease, p)
    /\ pc' = [pc EXCEPT ![p] = "off"]
    /\ fresh' = fresh \ {p}
    /\ crashes' = crashes + 1
    /\ UNCHANGED <<recordVars, origin, storeLock, conv, job, target, tears, turns, switches>>

-----------------------------------------------------------------------------
TurnStep(p) ==
    \/ BeginTurn(p) \/ Reply(p) \/ ProposeAction(p)
    \/ \E j \in Job : Admit(p, j, "guard", "admitted")
    \/ DispatchFails(p)
    \/ Link(p, "admitted", "linked")
    \/ RecordAction(p, "linked", "turn")
    \/ RecordAction(p, "refused", "failing")
    \/ TurnFails(p) \/ MarkUncertain(p)

FlowStep(p) ==
    \/ FlowAsk(p)
    \/ \E j \in Job : Admit(p, j, "flow asked", "flow admitted")
    \/ Link(p, "flow admitted", "flow linked")
    \/ FlowEnds(p) \/ FlowFails(p)

SwitchStep(p) ==
    \/ \E c \in Conversation : BeginSwitch(p, c)
    \/ MovePointer(p) \/ ArchivePrior(p) \/ SwitchFails(p)

SelectionStep(p) ==
    \/ \E c \in Conversation, j \in Job : SelectPriorJob(p, c, j)
    \/ NoteSelection(p)

ConversationStep(p) == Attach(p) \/ TurnStep(p) \/ FlowStep(p) \/ SelectionStep(p) \/ SwitchStep(p)

ConversationNext == \E p \in Session : ConversationStep(p) \/ Crash(p)

ConversationSpec == ConversationInit /\ [][ConversationNext]_convVars

-----------------------------------------------------------------------------
(***************************************************************************)
(* Properties                                                              *)
(***************************************************************************)

\* A switch has stopped half-way: both its conversations may be open.
Torn == tears > 0

RecordsTypeOK ==
    /\ active \in Conversation
    /\ open \cap archived = {} /\ open \cup archived \subseteq Conversation
    /\ turn \in [Conversation -> {"idle", "running", "uncertain"}]
    /\ asked \in [Conversation -> Session \cup {NoOne}]
    /\ linked \in [Conversation -> SUBSET Job]
    /\ origin \in [Job -> Conversation \cup {NoOne}]
    /\ actionLease \in [Conversation -> Session \cup {NoOne}]
    /\ storeLock \in Session \cup {NoOne}
    /\ conv \in [Session -> Conversation] /\ target \in [Session -> Conversation]
    /\ fresh \subseteq Session /\ job \in [Session -> Job]

\* The binding always names a conversation that takes messages, also after a process died
\* between the three writes of a switch: the owner is never locked out of the chat.
ActiveIsOpen == active \in open

\* While the host applies an action a turn has proposed, nothing was said in its
\* conversation since the proposal, and the conversation is still open: it is not reset,
\* selected or answered by another session in between.
GuardedConversationIsSettled ==
    \A p \in Session : pc[p] \in GuardPc /\ ~Torn =>
        actionLease[conv[p]] = p /\ conv[p] \in open /\ p \in fresh

\* No switch leaves two conversations open, so that two sessions could act for the same
\* owner at once.
OneOpenConversation == storeLock = NoOne /\ ~Torn => open = {active}

\* A reply is recorded only under the request it was generated for, and while its turn is
\* still the running one: not after another request, and not after another session of the
\* owner has told that the turn was interrupted.
RepliesAnswerTheirRequest ==
    [][\A p \in Session :
          pc[p] = "turn" /\ pc'[p] # "turn" /\ turn' # turn =>
              asked[conv[p]] = p /\ turn[conv[p]] = "running"]_convVars

\* The owner always has exactly one conversation to talk in: one that takes messages, also
\* after a process died inside a switch, and never two.
OwnerHasOneConversation == ActiveIsOpen /\ OneOpenConversation

\* Both: where the owner talks is one place, and it holds still while the host acts in it.
ConversationHoldsStill == OwnerHasOneConversation /\ GuardedConversationIsSettled
=============================================================================
