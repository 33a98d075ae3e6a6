---------------------------- MODULE RecordsProofs ----------------------------
(***************************************************************************)
(* The owner has one conversation, an action is applied to a conversation  *)
(* that holds still, and a reply answers its own request: for any number   *)
(* of sessions, conversations and jobs, and wherever a process dies.       *)
(* Credentials are there for what uses them, are named until they are      *)
(* deleted and are sealed with the key in place: for any number of grants, *)
(* setup tasks, processes, failing writes and losses.                      *)
(* A ledger accounts for every record, incident and notification, for any  *)
(* number of items, cycles, incidents and callers; and what a workgroup    *)
(* runs under rests on present evidence, for any number of runs, reviews   *)
(* and bundles and wherever a command dies.                                *)
(***************************************************************************)
EXTENDS MCRecords, SequenceTheorems, TLAPS

-----------------------------------------------------------------------------
(***************************************************************************)
(* The conversations                                                       *)
(***************************************************************************)

\* A lease is held by a session inside its guard, on its conversation, or by a switch.
LeaseInv ==
    /\ \A c \in Conversation, p \in Session :
          actionLease[c] = p => (pc[p] \in GuardPc /\ conv[p] = c) \/ pc[p] \in SwitchPc
    /\ \A p \in Session : pc[p] \in GuardPc => actionLease[conv[p]] = p
    /\ \A p \in Session : pc[p] \in SwitchPc <=> storeLock = p

\* A switch holds the lease of the conversation it leaves and no other; nobody has read
\* the conversation it leads to since it was written.
SwitchInv ==
    \A p \in Session :
        /\ pc[p] = "moving" =>
              /\ target[p] \in open \ {active}
              /\ \A c \in Conversation : actionLease[c] = p <=> c = active
        /\ pc[p] = "archiving" =>
              /\ active = target[p]
              /\ \E prior \in Conversation \ {active} :
                    /\ \A c \in Conversation : actionLease[c] = p <=> c = prior
                    /\ ~Torn => open = {prior, active}
        /\ pc[p] \in SwitchPc => \A q \in fresh : conv[q] # target[p]

\* Which conversations are open, as long as no switch stopped half-way.
OpenInv ==
    /\ active \in open
    /\ ~Torn /\ storeLock = NoOne => open = {active}
    /\ ~Torn => \A p \in Session : pc[p] = "moving" => open = {active, target[p]}

\* A session in a turn that has read the latest record is the one that asked, and its turn
\* is the running one.
RequestInv ==
    \A p \in Session :
        pc[p] \in {"turn"} \cup GuardPc /\ p \in fresh => asked[conv[p]] = p /\ turn[conv[p]] = "running"

ConversationTypes == RecordsTypeOK /\ pc \in [Session -> SessionPc] /\ tears \in Nat

ConversationInv ==
    /\ ConversationTypes /\ LeaseInv /\ SwitchInv /\ OpenInv /\ RequestInv
    /\ GuardedConversationIsSettled

-----------------------------------------------------------------------------
LEMMA Places ==
    /\ {"off", "idle", "selected"} \cup TurnPc \cup FlowPc \cup SwitchPc = SessionPc
    /\ GuardPc \cap SwitchPc = {} /\ GuardPc \subseteq TurnPc
    /\ SessionPc \cap {"turn", "guard", "admitted", "linked", "refused", "failing", "idle", "off", "selected",
                       "flow asked", "flow admitted", "flow linked", "moving", "archiving"}
       = {"turn", "guard", "admitted", "linked", "refused", "failing", "idle", "off", "selected",
          "flow asked", "flow admitted", "flow linked", "moving", "archiving"}
    /\ NoOne \notin Session /\ NoOne \notin Conversation
BY ConversationAssumption DEF SessionPc, GuardPc, SwitchPc, TurnPc, FlowPc

\* What happens to the leases when p leaves its guard, stays on its side of it, or enters it.
LeaseStep(p, to) ==
    \/ actionLease' = actionLease /\ (pc[p] \in GuardPc <=> to \in GuardPc)
    \/ actionLease' = Released(actionLease, p) /\ to \notin GuardPc
    \/ /\ actionLease[conv[p]] = NoOne /\ actionLease' = [actionLease EXCEPT ![conv[p]] = p]
       /\ pc[p] \notin GuardPc /\ to \in GuardPc

LEMMA LeaseStepInv ==
    ASSUME ConversationTypes, LeaseInv, NEW p \in Session, NEW to \in SessionPc \ SwitchPc, pc[p] \notin SwitchPc,
           pc' = [pc EXCEPT ![p] = to], LeaseStep(p, to), UNCHANGED <<conv, storeLock>>
    PROVE  /\ LeaseInv'
           /\ actionLease' \in [Conversation -> Session \cup {NoOne}]
           /\ \A s \in Session \ {p}, c \in Conversation : actionLease'[c] = s <=> actionLease[c] = s
<1>1. /\ actionLease \in [Conversation -> Session \cup {NoOne}] /\ conv[p] \in Conversation
      /\ \A s \in Session : pc'[s] = IF s = p THEN to ELSE pc[s]
      /\ conv \in [Session -> Conversation] /\ NoOne \notin Session
      /\ GuardPc \cap SwitchPc = {}
  BY Places DEF ConversationTypes, RecordsTypeOK
<1>2. CASE actionLease' = actionLease /\ (pc[p] \in GuardPc <=> to \in GuardPc)
  BY <1>1, <1>2 DEF LeaseInv
<1>3. CASE actionLease' = Released(actionLease, p) /\ to \notin GuardPc
  <2>1. /\ actionLease' \in [Conversation -> Session \cup {NoOne}]
        /\ \A c \in Conversation : actionLease'[c] = IF actionLease[c] = p THEN NoOne ELSE actionLease[c]
    BY <1>1, <1>3 DEF Released
  <2>2. \A s \in Session \ {p}, c \in Conversation : actionLease'[c] = s <=> actionLease[c] = s
    BY <1>1, <2>1
  <2>3. \A c \in Conversation : actionLease'[c] # p
    BY <1>1, <2>1
  <2> QED BY <1>1, <1>3, <2>1, <2>2, <2>3 DEF LeaseInv
<1>4. CASE /\ actionLease[conv[p]] = NoOne /\ actionLease' = [actionLease EXCEPT ![conv[p]] = p]
           /\ pc[p] \notin GuardPc /\ to \in GuardPc
  <2>1. /\ actionLease' \in [Conversation -> Session \cup {NoOne}]
        /\ \A c \in Conversation : actionLease'[c] = IF c = conv[p] THEN p ELSE actionLease[c]
    BY <1>1, <1>4
  <2>2. \A s \in Session \ {p}, c \in Conversation : actionLease'[c] = s <=> actionLease[c] = s
    BY <1>1, <1>4, <2>1
  <2>3. \A c \in Conversation : actionLease[c] # p
    BY <1>1, <1>4 DEF LeaseInv
  <2> QED BY <1>1, <1>4, <2>1, <2>2, <2>3 DEF LeaseInv
<1> QED BY <1>2, <1>3, <1>4 DEF LeaseStep

\* A step of p that is no switch and does not attach it: what the sessions that act on the
\* conversations they have read rely on stays as it is.
LEMMA SessionStep ==
    ASSUME ConversationInv, NEW p \in Session, NEW to \in SessionPc \ SwitchPc, pc[p] \notin SwitchPc,
           pc' = [pc EXCEPT ![p] = to], LeaseStep(p, to), RecordsTypeOK',
           UNCHANGED <<active, open, storeLock, conv, target, tears>>,
           fresh' \subseteq fresh,
           \A q \in fresh' \ {p} : turn'[conv[q]] = turn[conv[q]] /\ asked'[conv[q]] = asked[conv[q]],
           \A q \in fresh \ {p} : pc[q] \in GuardPc => q \in fresh',
           to \in {"turn"} \cup GuardPc /\ p \in fresh' => asked'[conv[p]] = p /\ turn'[conv[p]] = "running",
           to \in GuardPc => pc[p] \in GuardPc \/ (conv[p] \in open /\ p \in fresh),
           to \in GuardPc /\ p \in fresh => p \in fresh'
    PROVE  ConversationInv'
<1>1. /\ ConversationTypes /\ LeaseInv /\ SwitchInv /\ OpenInv /\ RequestInv /\ GuardedConversationIsSettled
      /\ \A s \in Session : pc'[s] = IF s = p THEN to ELSE pc[s]
      /\ fresh \subseteq Session /\ to \notin SwitchPc
      /\ {"moving", "archiving"} = SwitchPc
  BY DEF ConversationInv, ConversationTypes, RecordsTypeOK, SwitchPc
<1>2. /\ LeaseInv'
      /\ \A s \in Session \ {p}, c \in Conversation : actionLease'[c] = s <=> actionLease[c] = s
  BY <1>1, LeaseStepInv
<1>3. ConversationTypes'
  BY <1>1 DEF ConversationTypes
<1>4. SwitchInv'
  <2>1. \A s \in Session : pc'[s] \in SwitchPc => s # p /\ pc'[s] = pc[s]
    BY <1>1
  <2> QED BY <1>1, <1>2, <2>1 DEF SwitchInv, Torn
<1>5. OpenInv'
  BY <1>1 DEF OpenInv, Torn
<1>6. RequestInv'
  BY <1>1 DEF RequestInv
<1>7. GuardedConversationIsSettled'
  BY <1>1, <1>2 DEF GuardedConversationIsSettled, LeaseInv, Torn
<1> QED BY <1>2, <1>3, <1>4, <1>5, <1>6, <1>7 DEF ConversationInv

\* A change by p: it has read the conversation last, and nobody else is in a guard on it.
LEMMA ChangeFacts ==
    ASSUME ConversationInv, NEW p \in Session, NEW from, NEW to, Change(p, from, to)
    PROVE  /\ pc[p] = from /\ pc' = [pc EXCEPT ![p] = to]
           /\ p \in fresh /\ p \in fresh' /\ fresh' \subseteq fresh /\ conv[p] \in open
           /\ \A q \in fresh' \ {p} : conv[q] # conv[p]
           /\ \A q \in fresh \ {p} : pc[q] \in GuardPc => q \in fresh'
<1>1. /\ LeaseInv /\ NoOne \notin Session /\ fresh \subseteq Session
      /\ actionLease[conv[p]] \in {NoOne, p}
  BY Places DEF ConversationInv, ConversationTypes, RecordsTypeOK, Change, LeaseFree
<1>2. \A q \in Session \ {p} : pc[q] \in GuardPc => conv[q] # conv[p]
  BY <1>1 DEF LeaseInv
<1> QED BY <1>1, <1>2 DEF Change, Unchanged

\* The steps of a turn that record something in the conversation.
LEMMA RecordingSteps ==
    ASSUME ConversationInv, NEW p \in Session,
           \/ BeginTurn(p) \/ Reply(p) \/ FlowEnds(p) \/ RecordAction(p, "linked", "turn")
           \/ RecordAction(p, "refused", "failing") \/ Link(p, "admitted", "linked")
           \/ Link(p, "flow admitted", "flow linked")
           \/ \E c \in Conversation, j \in Job : SelectPriorJob(p, c, j)
    PROVE  ConversationInv'
<1>1. /\ ConversationTypes /\ LeaseInv /\ RequestInv /\ RecordsTypeOK /\ conv[p] \in Conversation
      /\ job[p] \in Job /\ pc[p] \in SessionPc
  BY DEF ConversationInv, ConversationTypes, RecordsTypeOK
<1>2. UNCHANGED <<active, open, archived, origin, storeLock, conv, job, target, tears>>
  BY DEF BeginTurn, Reply, FlowEnds, RecordAction, Link, SelectPriorJob, boundVars, lockVars, recordVars
<1>3. ASSUME NEW from \in SessionPc \ SwitchPc, NEW to \in SessionPc \ SwitchPc, Change(p, from, to),
             LeaseStep(p, to), actionLease' \in [Conversation -> Session \cup {NoOne}],
             turn' = turn \/ \E t \in {"idle", "running", "uncertain"} : turn' = [turn EXCEPT ![conv[p]] = t],
             asked' = asked \/ asked' = [asked EXCEPT ![conv[p]] = p],
             linked' \in [Conversation -> SUBSET Job],
             to \in {"turn"} \cup GuardPc => asked'[conv[p]] = p /\ turn'[conv[p]] = "running"
      PROVE  ConversationInv'
  <2>1. /\ pc[p] = from /\ pc' = [pc EXCEPT ![p] = to]
        /\ p \in fresh /\ p \in fresh' /\ fresh' \subseteq fresh /\ conv[p] \in open
        /\ \A q \in fresh' \ {p} : conv[q] # conv[p]
        /\ \A q \in fresh \ {p} : pc[q] \in GuardPc => q \in fresh'
    BY <1>3, ChangeFacts
  <2>2. /\ turn' \in [Conversation -> {"idle", "running", "uncertain"}]
        /\ asked' \in [Conversation -> Session \cup {NoOne}]
        /\ \A c \in Conversation \ {conv[p]} : turn'[c] = turn[c] /\ asked'[c] = asked[c]
    <3>1. /\ turn \in [Conversation -> {"idle", "running", "uncertain"}]
          /\ asked \in [Conversation -> Session \cup {NoOne}]
      BY <1>1 DEF RecordsTypeOK
    <3>2. /\ turn' \in [Conversation -> {"idle", "running", "uncertain"}]
          /\ \A c \in Conversation \ {conv[p]} : turn'[c] = turn[c]
      BY <1>3, <3>1
    <3>3. /\ asked' \in [Conversation -> Session \cup {NoOne}]
          /\ \A c \in Conversation \ {conv[p]} : asked'[c] = asked[c]
      BY <1>3, <3>1
    <3> QED BY <3>2, <3>3
  <2>3. RecordsTypeOK'
    BY <1>1, <1>2, <1>3, <2>1, <2>2 DEF RecordsTypeOK
  <2>4. \A q \in fresh' \ {p} : turn'[conv[q]] = turn[conv[q]] /\ asked'[conv[q]] = asked[conv[q]]
    BY <1>1, <2>1, <2>2 DEF RecordsTypeOK
  <2> QED BY <1>2, <1>3, <2>1, <2>3, <2>4, SessionStep
<1>4. CASE BeginTurn(p)
  <2>1. /\ Change(p, "idle", "turn") /\ turn' = [turn EXCEPT ![conv[p]] = "running"]
        /\ asked' = [asked EXCEPT ![conv[p]] = p] /\ linked' = linked /\ actionLease' = actionLease
        /\ pc[p] = "idle"
    BY <1>4 DEF BeginTurn, lockVars, Change
  <2>2. /\ LeaseStep(p, "turn") /\ "idle" \in SessionPc \ SwitchPc /\ "turn" \in SessionPc \ SwitchPc
        /\ actionLease' \in [Conversation -> Session \cup {NoOne}]
    BY <1>1, <2>1 DEF LeaseStep, GuardPc, SessionPc, SwitchPc, TurnPc, RecordsTypeOK
  <2>3. linked' \in [Conversation -> SUBSET Job] /\ asked'[conv[p]] = p /\ turn'[conv[p]] = "running"
    BY <1>1, <2>1 DEF RecordsTypeOK
  <2> QED BY <1>3, <2>1, <2>2, <2>3
<1>5. CASE Reply(p) \/ FlowEnds(p)
  <2>1. PICK from \in {"turn", "flow linked"}, to \in {"idle", "failing", "off"} :
            /\ Change(p, from, to) /\ turn' = [turn EXCEPT ![conv[p]] = "idle"]
            /\ UNCHANGED <<asked, linked, actionLease>> /\ pc[p] = from
    BY <1>5 DEF Reply, FlowEnds, Change, lockVars
  <2>2. /\ LeaseStep(p, to) /\ from \in SessionPc \ SwitchPc /\ to \in SessionPc \ SwitchPc
        /\ to \notin {"turn"} \cup GuardPc
    BY <2>1 DEF LeaseStep, GuardPc, SessionPc, SwitchPc, TurnPc, FlowPc
  <2>3. linked' \in [Conversation -> SUBSET Job] /\ actionLease' \in [Conversation -> Session \cup {NoOne}]
    BY <1>1, <2>1 DEF RecordsTypeOK
  <2> QED BY <1>3, <2>1, <2>2, <2>3
<1>6. CASE RecordAction(p, "linked", "turn") \/ RecordAction(p, "refused", "failing")
  <2>1. PICK from \in {"linked", "refused"}, to \in {"turn", "failing"} :
            /\ Change(p, from, to) /\ actionLease' = Released(actionLease, p)
            /\ UNCHANGED <<turn, asked, linked>> /\ pc[p] = from /\ p \in fresh
    BY <1>6 DEF RecordAction, Change, recordVars, Unchanged
  <2>2. /\ LeaseStep(p, to) /\ from \in SessionPc \ SwitchPc /\ to \in SessionPc \ SwitchPc /\ from \in GuardPc
    BY <2>1 DEF LeaseStep, GuardPc, SessionPc, SwitchPc, TurnPc
  <2>3. linked' \in [Conversation -> SUBSET Job] /\ actionLease' \in [Conversation -> Session \cup {NoOne}]
    BY <1>1, <2>1 DEF RecordsTypeOK, Released
  <2>4. asked'[conv[p]] = p /\ turn'[conv[p]] = "running"
    BY <1>1, <2>1, <2>2 DEF RequestInv
  <2> QED BY <1>3, <2>1, <2>2, <2>3, <2>4
<1>7. CASE \/ Link(p, "admitted", "linked") \/ Link(p, "flow admitted", "flow linked")
           \/ \E c \in Conversation, j \in Job : SelectPriorJob(p, c, j)
  <2>1. PICK from \in {"admitted", "flow admitted", "idle"}, to \in {"linked", "flow linked", "selected"}, j \in Job :
            /\ Change(p, from, to) /\ linked' = [linked EXCEPT ![conv[p]] = @ \cup {j}]
            /\ (from = "admitted" <=> to = "linked")
            /\ UNCHANGED <<turn, asked, actionLease>> /\ pc[p] = from /\ p \in fresh
    BY <1>1, <1>7 DEF Link, SelectPriorJob, Change, Unchanged, lockVars
  <2>2. /\ LeaseStep(p, to) /\ from \in SessionPc \ SwitchPc /\ to \in SessionPc \ SwitchPc
        /\ to \in {"turn"} \cup GuardPc => from \in GuardPc
    BY <2>1 DEF LeaseStep, GuardPc, SessionPc, SwitchPc, TurnPc, FlowPc
  <2>3. linked' \in [Conversation -> SUBSET Job] /\ actionLease' \in [Conversation -> Session \cup {NoOne}]
    BY <1>1, <2>1 DEF RecordsTypeOK
  <2>4. to \in {"turn"} \cup GuardPc => asked'[conv[p]] = p /\ turn'[conv[p]] = "running"
    BY <1>1, <2>1, <2>2 DEF RequestInv
  <2> QED BY <1>3, <2>1, <2>2, <2>3, <2>4
<1> QED BY <1>4, <1>5, <1>6, <1>7

\* The steps of a session that record nothing in a conversation, or only that it is uncertain.
LEMMA QuietSteps ==
    ASSUME ConversationInv, NEW p \in Session,
           \/ ProposeAction(p) \/ DispatchFails(p) \/ TurnFails(p) \/ MarkUncertain(p) \/ NoteSelection(p)
           \/ FlowFails(p) \/ Crash(p)
           \/ \E j \in Job : Admit(p, j, "guard", "admitted") \/ Admit(p, j, "flow asked", "flow admitted")
    PROVE  ConversationInv'
<1>1. /\ ConversationTypes /\ LeaseInv /\ RequestInv /\ RecordsTypeOK /\ conv[p] \in Conversation
      /\ pc[p] \in SessionPc
  BY DEF ConversationInv, ConversationTypes, RecordsTypeOK
<1>2. UNCHANGED <<active, open, archived, asked, linked, storeLock, conv, target, tears>>
  BY DEF ProposeAction, DispatchFails, TurnFails, MarkUncertain, NoteSelection, FlowFails, Crash, Admit, boundVars,
         lockVars, recordVars
<1>3. ASSUME NEW to \in SessionPc \ SwitchPc, pc[p] \notin SwitchPc, pc' = [pc EXCEPT ![p] = to], LeaseStep(p, to),
             actionLease' \in [Conversation -> Session \cup {NoOne}], fresh' \subseteq fresh, turn' = turn,
             origin' \in [Job -> Conversation \cup {NoOne}], job' \in [Session -> Job],
             \A q \in fresh \ {p} : pc[q] \in GuardPc => q \in fresh',
             to \in GuardPc => fresh' = fresh /\ (pc[p] \in GuardPc \/ (conv[p] \in open /\ p \in fresh)),
             to \in {"turn"} \cup GuardPc => pc[p] \in {"turn"} \cup GuardPc
      PROVE  ConversationInv'
  <2>1. RecordsTypeOK'
    BY <1>1, <1>2, <1>3 DEF RecordsTypeOK
  <2>2. to \in {"turn"} \cup GuardPc /\ p \in fresh' => asked'[conv[p]] = p /\ turn'[conv[p]] = "running"
    BY <1>1, <1>2, <1>3 DEF RequestInv
  <2> QED BY <1>2, <1>3, <2>1, <2>2, SessionStep
<1>4. CASE ProposeAction(p)
  <2>1. /\ pc[p] = "turn" /\ actionLease[conv[p]] = NoOne /\ conv[p] \in open /\ p \in fresh
        /\ actionLease' = [actionLease EXCEPT ![conv[p]] = p] /\ pc' = [pc EXCEPT ![p] = "guard"]
        /\ UNCHANGED <<turn, origin, job, fresh>>
    BY <1>4 DEF ProposeAction, EnterGuard, Unchanged, recordVars
  <2>2. /\ LeaseStep(p, "guard") /\ "guard" \in SessionPc \ SwitchPc /\ "turn" \notin SwitchPc
    BY <2>1 DEF LeaseStep, GuardPc, SessionPc, SwitchPc, TurnPc
  <2>3. /\ actionLease' \in [Conversation -> Session \cup {NoOne}]
        /\ origin' \in [Job -> Conversation \cup {NoOne}] /\ job' \in [Session -> Job]
    BY <1>1, <2>1 DEF RecordsTypeOK
  <2> QED BY <1>3, <2>1, <2>2, <2>3
<1>5. CASE DispatchFails(p) \/ \E j \in Job : Admit(p, j, "guard", "admitted") \/ Admit(p, j, "flow asked", "flow admitted")
  <2>1. PICK from \in {"guard", "flow asked"}, to \in {"refused", "admitted", "flow admitted"} :
            /\ pc[p] = from /\ pc' = [pc EXCEPT ![p] = to] /\ UNCHANGED <<turn, fresh, actionLease>>
            /\ from = "guard" <=> to \in {"refused", "admitted"}
    BY <1>5 DEF DispatchFails, Admit, lockVars, recordVars
  <2>2. /\ LeaseStep(p, to) /\ from \in SessionPc \ SwitchPc /\ to \in SessionPc \ SwitchPc
        /\ to \in {"turn"} \cup GuardPc => from \in GuardPc
    BY <2>1 DEF LeaseStep, GuardPc, SessionPc, SwitchPc, TurnPc, FlowPc
  <2>3. /\ \/ origin' = origin
           \/ \E j \in Job : origin' = [origin EXCEPT ![j] = conv[p]]
        /\ job' = job \/ \E j \in Job : job' = [job EXCEPT ![p] = j]
    BY <1>5 DEF DispatchFails, Admit
  <2>4. /\ actionLease' \in [Conversation -> Session \cup {NoOne}]
        /\ origin' \in [Job -> Conversation \cup {NoOne}] /\ job' \in [Session -> Job]
    <3>1. /\ actionLease \in [Conversation -> Session \cup {NoOne}] /\ conv[p] \in Conversation
          /\ origin \in [Job -> Conversation \cup {NoOne}] /\ job \in [Session -> Job]
      BY <1>1 DEF RecordsTypeOK
    <3>2. origin' \in [Job -> Conversation \cup {NoOne}]
      BY <2>3, <3>1
    <3>3. job' \in [Session -> Job]
      BY <2>3, <3>1
    <3> QED BY <2>1, <3>1, <3>2, <3>3
  <2> QED BY <1>3, <2>1, <2>2, <2>4
<1>6. CASE TurnFails(p) \/ Crash(p)
  <2>1. PICK to \in {"failing", "off"} :
            /\ pc[p] \notin SwitchPc /\ pc' = [pc EXCEPT ![p] = to] /\ actionLease' = Released(actionLease, p)
            /\ UNCHANGED <<turn, origin, job>> /\ (fresh' = fresh \/ fresh' = fresh \ {p})
    BY <1>6 DEF TurnFails, Crash, recordVars, TurnPc, SwitchPc
  <2>2. LeaseStep(p, to) /\ to \in SessionPc \ SwitchPc /\ to \notin {"turn"} \cup GuardPc
    BY <2>1 DEF LeaseStep, GuardPc, SessionPc, SwitchPc, TurnPc
  <2>3. /\ actionLease' \in [Conversation -> Session \cup {NoOne}]
        /\ origin' \in [Job -> Conversation \cup {NoOne}] /\ job' \in [Session -> Job]
    BY <1>1, <2>1 DEF RecordsTypeOK, Released
  <2> QED BY <1>3, <2>1, <2>2, <2>3
<1>7. CASE FlowFails(p) \/ NoteSelection(p) \/ MarkUncertain(p)
  <2>1. PICK from \in FlowPc \cup {"selected", "failing"}, to \in {"idle", "off"} :
            /\ pc[p] = from /\ pc' = [pc EXCEPT ![p] = to] /\ UNCHANGED <<origin, job, actionLease>>
            /\ \/ turn' = turn /\ fresh' = fresh
               \/ turn' = turn /\ fresh' = fresh \ {p}
               \/ Change(p, from, to) /\ (turn' = turn \/ turn' = [turn EXCEPT ![conv[p]] = "uncertain"])
    BY <1>7 DEF FlowFails, NoteSelection, MarkUncertain, Change, recordVars, lockVars
  <2>2. LeaseStep(p, to) /\ from \in SessionPc \ SwitchPc /\ to \in SessionPc \ SwitchPc /\ to \notin {"turn"} \cup GuardPc
    BY <2>1 DEF LeaseStep, GuardPc, SessionPc, SwitchPc, TurnPc, FlowPc
  <2>3. /\ actionLease' \in [Conversation -> Session \cup {NoOne}]
        /\ origin' \in [Job -> Conversation \cup {NoOne}] /\ job' \in [Session -> Job]
    BY <1>1, <2>1 DEF RecordsTypeOK
  <2>4. CASE turn' = turn /\ (fresh' = fresh \/ fresh' = fresh \ {p})
    BY <1>3, <2>1, <2>2, <2>3, <2>4
  <2>5. CASE Change(p, from, to) /\ (turn' = turn \/ turn' = [turn EXCEPT ![conv[p]] = "uncertain"])
    <3>1. /\ fresh' \subseteq fresh /\ p \in fresh'
          /\ \A q \in fresh' \ {p} : conv[q] # conv[p]
          /\ \A q \in fresh \ {p} : pc[q] \in GuardPc => q \in fresh'
      BY <2>5, ChangeFacts
    <3>2. /\ turn' \in [Conversation -> {"idle", "running", "uncertain"}]
          /\ \A c \in Conversation \ {conv[p]} : turn'[c] = turn[c]
      BY <1>1, <2>5 DEF RecordsTypeOK
    <3>3. RecordsTypeOK'
      BY <1>1, <1>2, <2>3, <3>1, <3>2 DEF RecordsTypeOK
    <3>4. \A q \in fresh' \ {p} : turn'[conv[q]] = turn[conv[q]] /\ asked'[conv[q]] = asked[conv[q]]
      BY <1>1, <1>2, <3>1, <3>2 DEF RecordsTypeOK
    <3> QED BY <1>2, <2>1, <2>2, <3>1, <3>3, <3>4, SessionStep
  <2> QED BY <2>1, <2>4, <2>5
<1> QED BY <1>4, <1>5, <1>6, <1>7

-----------------------------------------------------------------------------
\* While no switch is under way, a session in its guard works in the active conversation,
\* and the lease of that conversation is its.
LEMMA GuardedAtRest ==
    ASSUME ConversationInv, NEW p \in Session, pc[p] \in GuardPc, ~Torn, storeLock = NoOne
    PROVE  conv[p] = active /\ actionLease[active] = p
BY DEF ConversationInv, LeaseInv, OpenInv, GuardedConversationIsSettled

\* Nobody is in its guard while a switch is under way, unless one has stopped half-way.
LEMMA NoGuardInSwitch ==
    ASSUME ConversationInv, NEW s \in Session, pc[s] \in SwitchPc, NEW p \in Session, pc[p] \in GuardPc
    PROVE  Torn
<1> SUFFICES ASSUME ~Torn PROVE FALSE
  OBVIOUS
<1>1. actionLease[conv[p]] = p /\ conv[p] \in open /\ p \in fresh /\ p # s
  BY Places DEF ConversationInv, GuardedConversationIsSettled
<1>2. conv[p] # target[s] /\ conv[p] \in Conversation
  BY <1>1 DEF ConversationInv, SwitchInv, ConversationTypes, RecordsTypeOK
<1>3. CASE pc[s] = "moving"
  BY <1>1, <1>2, <1>3 DEF ConversationInv, SwitchInv, OpenInv
<1>4. CASE pc[s] = "archiving"
  BY <1>1, <1>2, <1>4 DEF ConversationInv, SwitchInv
<1> QED BY <1>3, <1>4 DEF SwitchPc

\* A session attaches to the active conversation: by Ensure, or with the request of "flow
\* submit", which everybody else has then not read.
LEMMA AttachingSteps ==
    ASSUME ConversationInv, NEW p \in Session, Attach(p) \/ FlowAsk(p)
    PROVE  ConversationInv'
<1>1. /\ ConversationTypes /\ LeaseInv /\ SwitchInv /\ OpenInv /\ RequestInv /\ GuardedConversationIsSettled
      /\ RecordsTypeOK /\ active \in Conversation /\ fresh \subseteq Session
  BY DEF ConversationInv, ConversationTypes, RecordsTypeOK
<1>2. PICK to \in {"idle", "flow asked"} :
          /\ pc[p] \in {"off", "idle"} /\ storeLock = NoOne
          /\ UNCHANGED <<active, open, archived, linked, origin, actionLease, storeLock, job, target, tears>>
          /\ conv' = [conv EXCEPT ![p] = active] /\ pc' = [pc EXCEPT ![p] = to]
          /\ p \in fresh' /\ fresh' \subseteq fresh \cup {p}
          /\ \/ turn' = turn /\ asked' = asked /\ fresh' = fresh \cup {p}
             \/ /\ actionLease[active] = NoOne
                /\ \E t \in {"running", "uncertain"} : turn' = [turn EXCEPT ![active] = t]
                /\ asked' = asked \/ asked' = [asked EXCEPT ![active] = p]
                /\ fresh' = (fresh \ {q \in Session : conv[q] = active}) \cup {p}
  <2>1. CASE FlowAsk(p)
    BY <2>1 DEF FlowAsk, lockVars
  <2>2. CASE Attach(p) /\ turn[active] = "running"
    BY <1>1, <2>2 DEF Attach, lockVars, boundVars
  <2>3. CASE Attach(p) /\ turn[active] # "running"
    <3>1. turn' = turn
      BY <1>1, <2>3 DEF Attach, RecordsTypeOK
    <3> QED BY <2>3, <3>1 DEF Attach, lockVars, boundVars
  <2> QED BY <2>1, <2>2, <2>3
<1>3. /\ \A s \in Session : pc'[s] = IF s = p THEN to ELSE pc[s]
      /\ \A s \in Session : conv'[s] = IF s = p THEN active ELSE conv[s]
      /\ \A s \in Session : pc'[s] \notin SwitchPc /\ pc[s] \notin SwitchPc
      /\ to \notin {"turn"} \cup GuardPc /\ pc[p] \notin GuardPc
  <2>1. \A s \in Session : pc'[s] = IF s = p THEN to ELSE pc[s]
    BY <1>1, <1>2 DEF ConversationTypes
  <2>2. \A s \in Session : conv'[s] = IF s = p THEN active ELSE conv[s]
    BY <1>1, <1>2 DEF RecordsTypeOK
  <2>3. to \notin {"turn"} \cup GuardPc /\ pc[p] \notin GuardPc /\ to \notin SwitchPc
    BY <1>2 DEF GuardPc, SwitchPc
  <2>4. storeLock = NoOne /\ NoOne \notin Session
    BY <1>2, Places
  <2>5. \A s \in Session : pc[s] \notin SwitchPc
    BY <1>1, <2>4 DEF LeaseInv
  <2> QED BY <2>1, <2>2, <2>3, <2>5
<1>4. ConversationTypes'
  <2>1. pc' \in [Session -> SessionPc] /\ conv' \in [Session -> Conversation] /\ fresh' \subseteq Session
    BY <1>1, <1>2, Places DEF ConversationTypes, RecordsTypeOK, FlowPc
  <2>2. turn' \in [Conversation -> {"idle", "running", "uncertain"}]
    BY <1>1, <1>2 DEF RecordsTypeOK
  <2>3. asked' \in [Conversation -> Session \cup {NoOne}]
    BY <1>1, <1>2 DEF RecordsTypeOK
  <2> QED BY <1>1, <1>2, <2>1, <2>2, <2>3 DEF ConversationTypes, RecordsTypeOK
<1>5. LeaseInv'
  <2>1. UNCHANGED <<actionLease, storeLock>> /\ storeLock \notin Session
    BY <1>2, Places
  <2> QED BY <1>1, <1>3, <2>1 DEF LeaseInv
<1>6. SwitchInv' /\ OpenInv'
  BY <1>1, <1>2, <1>3 DEF SwitchInv, OpenInv, Torn, SwitchPc
<1>7. \A q \in Session \ {p} : q \in fresh' => q \in fresh /\ turn'[conv[q]] = turn[conv[q]] /\ asked'[conv[q]] = asked[conv[q]]
  <2> SUFFICES ASSUME NEW q \in Session \ {p}, q \in fresh'
               PROVE  q \in fresh /\ turn'[conv[q]] = turn[conv[q]] /\ asked'[conv[q]] = asked[conv[q]]
    OBVIOUS
  <2>1. q \in fresh
    BY <1>2
  <2>2. CASE turn' = turn /\ asked' = asked
    BY <2>1, <2>2
  <2>3. CASE /\ \E t \in {"running", "uncertain"} : turn' = [turn EXCEPT ![active] = t]
             /\ asked' = asked \/ asked' = [asked EXCEPT ![active] = p]
             /\ conv[q] # active
    <3>1. conv[q] \in Conversation /\ turn \in [Conversation -> {"idle", "running", "uncertain"}]
          /\ asked \in [Conversation -> Session \cup {NoOne}]
      BY <1>1 DEF RecordsTypeOK
    <3>2. turn'[conv[q]] = turn[conv[q]]
      BY <2>3, <3>1
    <3>3. asked'[conv[q]] = asked[conv[q]]
      BY <2>3, <3>1
    <3> QED BY <2>1, <3>2, <3>3
  <2> QED BY <1>2, <2>2, <2>3
<1>8. RequestInv'
  BY <1>1, <1>3, <1>7 DEF RequestInv
<1>9. GuardedConversationIsSettled'
  <2> SUFFICES ASSUME NEW q \in Session, pc'[q] \in GuardPc, ~Torn
               PROVE  actionLease'[conv'[q]] = q /\ conv'[q] \in open' /\ q \in fresh'
    BY <1>2 DEF GuardedConversationIsSettled, Torn
  <2>1. q # p /\ pc[q] \in GuardPc /\ conv'[q] = conv[q]
    BY <1>3
  <2>2. conv[q] = active /\ actionLease[active] = q
    BY <1>2, <2>1, GuardedAtRest
  <2>3. actionLease[active] # NoOne /\ q \in fresh
    BY <1>1, <2>1, <2>2, Places DEF GuardedConversationIsSettled
  <2> QED BY <1>1, <1>2, <2>1, <2>2, <2>3 DEF OpenInv
<1> QED BY <1>4, <1>5, <1>6, <1>8, <1>9 DEF ConversationInv

LEMMA BeginSwitchStep ==
    ASSUME ConversationInv, NEW p \in Session, NEW c \in Conversation, BeginSwitch(p, c)
    PROVE  ConversationInv'
<1>1. /\ ConversationTypes /\ LeaseInv /\ SwitchInv /\ OpenInv /\ RequestInv /\ GuardedConversationIsSettled
      /\ RecordsTypeOK /\ active \in Conversation /\ fresh \subseteq Session /\ NoOne \notin Session
      /\ GuardPc \cap SwitchPc = {}
  BY Places DEF ConversationInv, ConversationTypes, RecordsTypeOK
<1>2. /\ pc[p] = "idle" /\ c # active /\ storeLock = NoOne /\ actionLease[active] = NoOne
      /\ open' = open \cup {c} /\ archived' = archived \ {c}
      /\ fresh' = fresh \ {q \in Session : conv[q] = c}
      /\ storeLock' = p
      /\ UNCHANGED <<active, turn, asked, linked, origin, conv, job, tears>>
  BY DEF BeginSwitch, MaySwitch, Unarchived
<1>3. /\ \A s \in Session : pc'[s] = IF s = p THEN "moving" ELSE pc[s]
      /\ \A d \in Conversation : actionLease'[d] = IF d = active THEN p ELSE actionLease[d]
      /\ target'[p] = c
      /\ pc' \in [Session -> SessionPc] /\ target' \in [Session -> Conversation]
      /\ actionLease' \in [Conversation -> Session \cup {NoOne}]
  BY <1>1 DEF BeginSwitch, ConversationTypes, RecordsTypeOK, SessionPc, SwitchPc
<1>4. \A s \in Session : pc[s] \notin SwitchPc
  BY <1>1, <1>2 DEF LeaseInv
<1>5. \A d \in Conversation : actionLease[d] # p
  BY <1>1, <1>2, <1>4 DEF LeaseInv, GuardPc
<1>6. ConversationTypes'
  <2>1. RecordsTypeOK'
    BY <1>1, <1>2, <1>3 DEF RecordsTypeOK
  <2> QED BY <1>1, <1>2, <1>3, <2>1 DEF ConversationTypes
<1>7. LeaseInv'
  <2>1. "moving" \in SwitchPc /\ "moving" \notin GuardPc
    BY DEF SwitchPc, GuardPc
  <2>2. ASSUME NEW s \in Session, pc'[s] \in GuardPc PROVE actionLease'[conv'[s]] = s
    <3>1. pc[s] \in GuardPc /\ actionLease[conv[s]] = s /\ conv[s] \in Conversation
      BY <1>1, <1>3, <2>1, <2>2 DEF LeaseInv, RecordsTypeOK
    <3>2. conv[s] # active
      BY <1>1, <1>2, <3>1
    <3> QED BY <1>2, <1>3, <3>1, <3>2
  <2>3. \A s \in Session : pc'[s] \in SwitchPc <=> storeLock' = s
    BY <1>2, <1>3, <1>4, <2>1
  <2>4. \A d \in Conversation, s \in Session :
           actionLease'[d] = s => (pc'[s] \in GuardPc /\ conv'[s] = d) \/ pc'[s] \in SwitchPc
    BY <1>1, <1>2, <1>3, <1>4, <2>1 DEF LeaseInv
  <2> QED BY <2>2, <2>3, <2>4 DEF LeaseInv
<1>8. SwitchInv'
  <2>1. \A s \in Session : pc'[s] \in SwitchPc => s = p /\ pc'[s] = "moving"
    BY <1>3, <1>4
  <2>2. \A d \in Conversation : actionLease'[d] = p <=> d = active'
    BY <1>2, <1>3, <1>5
  <2>3. \A q \in fresh' : conv'[q] # target'[p]
    BY <1>1, <1>2, <1>3
  <2> QED BY <1>2, <1>3, <2>1, <2>2, <2>3 DEF SwitchInv, SwitchPc
<1>9. OpenInv'
  <2>1. \A s \in Session : pc'[s] = "moving" => s = p
    BY <1>3, <1>4 DEF SwitchPc
  <2> QED BY <1>1, <1>2, <1>3, <2>1 DEF OpenInv, Torn
<1>10. RequestInv'
  BY <1>1, <1>2, <1>3 DEF RequestInv, GuardPc
<1>11. GuardedConversationIsSettled'
  <2> SUFFICES ASSUME NEW s \in Session, pc'[s] \in GuardPc, ~Torn PROVE FALSE
    BY <1>2 DEF GuardedConversationIsSettled, Torn
  <2>1. pc[s] \in GuardPc
    BY <1>3 DEF GuardPc
  <2>2. actionLease[active] = s
    BY <1>2, <2>1, GuardedAtRest
  <2> QED BY <1>1, <1>2, <2>2
<1> QED BY <1>6, <1>7, <1>8, <1>9, <1>10, <1>11 DEF ConversationInv

LEMMA MovePointerStep ==
    ASSUME ConversationInv, NEW p \in Session, MovePointer(p)
    PROVE  ConversationInv'
<1>1. /\ ConversationTypes /\ LeaseInv /\ SwitchInv /\ OpenInv /\ RequestInv /\ GuardedConversationIsSettled
      /\ RecordsTypeOK /\ active \in Conversation /\ target[p] \in Conversation /\ NoOne \notin Session
  BY Places DEF ConversationInv, ConversationTypes, RecordsTypeOK
<1>2. /\ pc[p] = "moving" /\ active' = target[p]
      /\ UNCHANGED <<open, archived, turn, asked, linked, origin, actionLease, storeLock, conv, fresh, job, target, tears>>
  BY DEF MovePointer, lockVars, boundVars
<1>3. /\ \A s \in Session : pc'[s] = IF s = p THEN "archiving" ELSE pc[s]
      /\ pc' \in [Session -> SessionPc]
  BY <1>1 DEF MovePointer, ConversationTypes, SessionPc, SwitchPc
<1>4. /\ storeLock = p /\ \A s \in Session : pc[s] \in SwitchPc => s = p
      /\ "archiving" \in SwitchPc /\ "archiving" \notin GuardPc \cup {"turn"}
      /\ "moving" \in SwitchPc /\ "moving" \notin GuardPc
  BY <1>1, <1>2 DEF LeaseInv, SwitchPc, GuardPc
<1>5. /\ target[p] \in open \ {active}
      /\ \A c \in Conversation : actionLease[c] = p <=> c = active
      /\ \A q \in fresh : conv[q] # target[p]
      /\ ~Torn => open = {active, target[p]}
  BY <1>1, <1>2, <1>4 DEF SwitchInv, OpenInv
<1>6. ConversationTypes' /\ LeaseInv'
  BY <1>1, <1>2, <1>3, <1>4 DEF ConversationTypes, RecordsTypeOK, LeaseInv
<1>7. SwitchInv' /\ OpenInv'
  <2>1. \A s \in Session : pc'[s] \in SwitchPc => s = p /\ pc'[s] = "archiving"
    BY <1>3, <1>4
  <2>2. /\ active \in Conversation \ {active'}
        /\ \A c \in Conversation : actionLease'[c] = p <=> c = active
        /\ ~Torn' => open' = {active, active'}
    BY <1>1, <1>2, <1>5 DEF Torn
  <2>3. SwitchInv'
    BY <1>2, <1>5, <2>1, <2>2 DEF SwitchInv, SwitchPc
  <2>4. OpenInv'
    BY <1>1, <1>2, <1>4, <1>5, <2>1 DEF OpenInv, SwitchPc
  <2> QED BY <2>3, <2>4
<1>8. RequestInv' /\ GuardedConversationIsSettled'
  BY <1>1, <1>2, <1>3, <1>4 DEF RequestInv, GuardedConversationIsSettled, Torn
<1> QED BY <1>6, <1>7, <1>8 DEF ConversationInv

\* The end of a switch, and a switch that stops half-way.
LEMMA ArchivePriorStep ==
    ASSUME ConversationInv, NEW p \in Session, ArchivePrior(p)
    PROVE  ConversationInv'
<1>1. /\ ConversationTypes /\ LeaseInv /\ SwitchInv /\ OpenInv /\ RequestInv /\ GuardedConversationIsSettled
      /\ RecordsTypeOK /\ active \in Conversation /\ NoOne \notin Session
  BY Places DEF ConversationInv, ConversationTypes, RecordsTypeOK
<1>2. /\ pc[p] = "archiving" /\ storeLock' = NoOne
      /\ archived' = archived \cup PriorConversation(p) /\ open' = open \ PriorConversation(p)
      /\ fresh' = fresh \ ({p} \cup {q \in Session : conv[q] \in PriorConversation(p)})
      /\ UNCHANGED <<active, turn, asked, linked, origin, conv, job, target, tears>>
  BY DEF ArchivePrior, boundVars
<1>3. /\ \A s \in Session : pc'[s] = IF s = p THEN "off" ELSE pc[s]
      /\ pc' \in [Session -> SessionPc]
      /\ \A d \in Conversation : actionLease'[d] = IF actionLease[d] = p THEN NoOne ELSE actionLease[d]
      /\ actionLease' \in [Conversation -> Session \cup {NoOne}]
  BY <1>1 DEF ArchivePrior, Released, ConversationTypes, RecordsTypeOK, SessionPc
<1>4. /\ storeLock = p /\ \A s \in Session : pc[s] \in SwitchPc => s = p
      /\ "archiving" \in SwitchPc /\ "archiving" \notin GuardPc
      /\ "off" \notin SwitchPc /\ "off" \notin GuardPc \cup {"turn"}
  BY <1>1, <1>2 DEF LeaseInv, SwitchPc, GuardPc
<1>5. PICK prior \in Conversation \ {active} :
          /\ \A d \in Conversation : actionLease[d] = p <=> d = prior
          /\ ~Torn => open = {prior, active}
  BY <1>1, <1>2 DEF SwitchInv
<1>6. PriorConversation(p) = {prior}
  BY <1>5 DEF PriorConversation
<1>7. ConversationTypes'
  <2>1. RecordsTypeOK'
    BY <1>1, <1>2, <1>3, <1>6 DEF RecordsTypeOK
  <2> QED BY <1>1, <1>2, <1>3, <2>1 DEF ConversationTypes
<1>8. \A s \in Session : pc'[s] \notin SwitchPc /\ (pc'[s] \in GuardPc => s # p /\ pc[s] \in GuardPc)
  BY <1>3, <1>4
<1>9. LeaseInv'
  <2>1. ASSUME NEW s \in Session, pc'[s] \in GuardPc PROVE actionLease'[conv'[s]] = s
    <3>1. actionLease[conv[s]] = s /\ conv[s] \in Conversation /\ s # p
      BY <1>1, <1>8, <2>1 DEF LeaseInv, RecordsTypeOK
    <3> QED BY <1>2, <1>3, <3>1
  <2>2. \A d \in Conversation, s \in Session : actionLease'[d] = s => pc'[s] \in GuardPc /\ conv'[s] = d
    BY <1>1, <1>2, <1>3, <1>4 DEF LeaseInv
  <2> QED BY <1>1, <1>2, <1>8, <2>1, <2>2 DEF LeaseInv
<1>10. SwitchInv' /\ OpenInv'
  <2>1. OpenInv'
    BY <1>1, <1>2, <1>5, <1>6, <1>8 DEF OpenInv, Torn, SwitchPc
  <2>2. SwitchInv'
    BY <1>8 DEF SwitchInv, SwitchPc
  <2> QED BY <2>1, <2>2
<1>11. RequestInv'
  BY <1>1, <1>2, <1>3, <1>4 DEF RequestInv
<1>12. GuardedConversationIsSettled'
  <2> SUFFICES ASSUME NEW s \in Session, pc'[s] \in GuardPc PROVE Torn
    BY <1>2 DEF GuardedConversationIsSettled, Torn
  <2> QED BY <1>2, <1>4, <1>8, NoGuardInSwitch
<1> QED BY <1>7, <1>9, <1>10, <1>11, <1>12 DEF ConversationInv

LEMMA SwitchFailsStep ==
    ASSUME ConversationInv, NEW p \in Session, SwitchFails(p)
    PROVE  ConversationInv'
<1>1. /\ ConversationTypes /\ LeaseInv /\ SwitchInv /\ OpenInv /\ RequestInv
      /\ RecordsTypeOK /\ NoOne \notin Session
  BY Places DEF ConversationInv, ConversationTypes, RecordsTypeOK
<1>2. /\ pc[p] \in SwitchPc /\ storeLock' = NoOne /\ Torn' /\ tears' \in Nat
      /\ fresh' \subseteq fresh
      /\ UNCHANGED <<active, open, archived, turn, asked, linked, origin, conv, job, target>>
  BY <1>1 DEF SwitchFails, recordVars, Torn, ConversationTypes
<1>3. PICK to \in {"idle", "off"} : pc' = [pc EXCEPT ![p] = to]
  BY DEF SwitchFails
<1>4. /\ \A s \in Session : pc'[s] = IF s = p THEN to ELSE pc[s]
      /\ pc' \in [Session -> SessionPc]
      /\ to \notin GuardPc \cup SwitchPc \cup {"turn"}
  BY <1>1, <1>3 DEF ConversationTypes, SessionPc, GuardPc, SwitchPc
<1>5. /\ \A d \in Conversation : actionLease'[d] = IF actionLease[d] = p THEN NoOne ELSE actionLease[d]
      /\ actionLease' \in [Conversation -> Session \cup {NoOne}]
  BY <1>1 DEF SwitchFails, Released, RecordsTypeOK
<1>6. /\ \A s \in Session : pc[s] \in SwitchPc => s = p
      /\ \A s \in Session : pc'[s] \notin SwitchPc /\ (pc'[s] \in GuardPc => s # p /\ pc[s] \in GuardPc)
  BY <1>1, <1>2, <1>4 DEF LeaseInv
<1>7. ConversationTypes'
  <2>1. RecordsTypeOK'
    BY <1>1, <1>2, <1>5 DEF RecordsTypeOK
  <2> QED BY <1>1, <1>2, <1>4, <2>1 DEF ConversationTypes
<1>8. LeaseInv'
  <2>1. ASSUME NEW s \in Session, pc'[s] \in GuardPc PROVE actionLease'[conv'[s]] = s
    <3>1. actionLease[conv[s]] = s /\ conv[s] \in Conversation /\ s # p
      BY <1>1, <1>6, <2>1 DEF LeaseInv, RecordsTypeOK
    <3> QED BY <1>2, <1>5, <3>1
  <2>2. \A d \in Conversation, s \in Session : actionLease'[d] = s => pc'[s] \in GuardPc /\ conv'[s] = d
    BY <1>1, <1>2, <1>4, <1>5, <1>6 DEF LeaseInv
  <2> QED BY <1>1, <1>2, <1>6, <2>1, <2>2 DEF LeaseInv
<1>9. SwitchInv' /\ OpenInv'
  BY <1>1, <1>2, <1>6 DEF SwitchInv, OpenInv, SwitchPc
<1>10. RequestInv'
  BY <1>1, <1>2, <1>4 DEF RequestInv
<1>11. GuardedConversationIsSettled'
  BY <1>2 DEF GuardedConversationIsSettled
<1> QED BY <1>7, <1>8, <1>9, <1>10, <1>11 DEF ConversationInv

-----------------------------------------------------------------------------
LEMMA ConversationStepInv ==
    ASSUME ConversationInv, [ConversationNext]_convVars
    PROVE  ConversationInv'
<1>1. CASE UNCHANGED convVars
  BY <1>1 DEF convVars, recordVars, lockVars, sessionVars, boundVars, ConversationInv, ConversationTypes, RecordsTypeOK,
              LeaseInv, SwitchInv, OpenInv, RequestInv, GuardedConversationIsSettled, Torn
<1>2. ASSUME NEW p \in Session, ConversationStep(p) \/ Crash(p) PROVE ConversationInv'
  <2>1. CASE Attach(p) \/ FlowAsk(p)
    BY <2>1, AttachingSteps
  <2>2. CASE \/ BeginTurn(p) \/ Reply(p) \/ FlowEnds(p) \/ RecordAction(p, "linked", "turn")
             \/ RecordAction(p, "refused", "failing") \/ Link(p, "admitted", "linked")
             \/ Link(p, "flow admitted", "flow linked")
             \/ \E c \in Conversation, j \in Job : SelectPriorJob(p, c, j)
    BY <2>2, RecordingSteps
  <2>3. CASE \/ ProposeAction(p) \/ DispatchFails(p) \/ TurnFails(p) \/ MarkUncertain(p) \/ NoteSelection(p)
             \/ FlowFails(p) \/ Crash(p)
             \/ \E j \in Job : Admit(p, j, "guard", "admitted") \/ Admit(p, j, "flow asked", "flow admitted")
    BY <2>3, QuietSteps
  <2>4. CASE (\E c \in Conversation : BeginSwitch(p, c)) \/ MovePointer(p) \/ ArchivePrior(p) \/ SwitchFails(p)
    BY <2>4, BeginSwitchStep, MovePointerStep, ArchivePriorStep, SwitchFailsStep
  <2> QED BY <1>2, <2>1, <2>2, <2>3, <2>4 DEF ConversationStep, TurnStep, FlowStep, SelectionStep, SwitchStep
<1> QED BY <1>1, <1>2 DEF ConversationNext

LEMMA ConversationStarts == ConversationInit => ConversationInv
<1> SUFFICES ASSUME ConversationInit PROVE ConversationInv
  OBVIOUS
<1>1. First \in Conversation /\ NoOne \notin Session
  BY ConversationAssumption
<1>2. \A p \in Session : pc[p] = "off" /\ pc[p] \notin GuardPc \cup SwitchPc \cup {"turn"} /\ pc[p] \in SessionPc
  BY DEF ConversationInit, GuardPc, SwitchPc, SessionPc
<1>3. ConversationTypes
  <2>1. RecordsTypeOK
    BY <1>1 DEF ConversationInit, RecordsTypeOK
  <2> QED BY <1>2, <2>1 DEF ConversationInit, ConversationTypes
<1>4. LeaseInv
  BY <1>1, <1>2 DEF ConversationInit, LeaseInv
<1>5. SwitchInv /\ RequestInv /\ GuardedConversationIsSettled
  BY <1>2 DEF SwitchInv, RequestInv, GuardedConversationIsSettled, SwitchPc
<1>6. OpenInv
  BY <1>2 DEF ConversationInit, OpenInv, SwitchPc
<1> QED BY <1>3, <1>4, <1>5, <1>6 DEF ConversationInv

LEMMA ConversationInvariant == ConversationSpec => []ConversationInv
<1>1. ConversationInv /\ [ConversationNext]_convVars => ConversationInv'
  BY ConversationStepInv
<1> QED BY <1>1, ConversationStarts, PTL DEF ConversationSpec

\* The binding names a conversation that takes messages and, unless a switch stopped
\* half-way, it is the only one; and while the host applies an action the conversation of
\* it is open, unread by nobody since and its lease held (conversationstate.Store).
THEOREM ConversationsHoldStill == ConversationSpec => []ConversationHoldsStill
<1>1. ConversationInv => ConversationHoldsStill
  BY DEF ConversationInv, OpenInv, ConversationHoldsStill, OwnerHasOneConversation, ActiveIsOpen, OneOpenConversation
<1> QED BY <1>1, ConversationInvariant, PTL

\* The state stays well typed.
THEOREM ConversationTypeCorrect == ConversationSpec => []RecordsTypeOK
<1>1. ConversationInv => RecordsTypeOK
  BY DEF ConversationInv, ConversationTypes
<1> QED BY <1>1, ConversationInvariant, PTL

\* A session that leaves its turn with a reply is the one that asked last, and its turn is
\* still the one that runs (reception.Session.Turn).
THEOREM RepliesAnswer == ConversationSpec => RepliesAnswerTheirRequest
<1> DEFINE Answers == \A p \in Session : pc[p] = "turn" /\ pc'[p] # "turn" /\ turn' # turn =>
                          asked[conv[p]] = p /\ turn[conv[p]] = "running"
<1>1. ASSUME ConversationInv, [ConversationNext]_convVars PROVE [Answers]_convVars
  <2> SUFFICES ASSUME NEW p \in Session, pc[p] = "turn", pc'[p] # "turn", turn' # turn
               PROVE  asked[conv[p]] = p /\ turn[conv[p]] = "running"
    OBVIOUS
  <2>1. PICK q \in Session : ConversationStep(q) \/ Crash(q)
    BY <1>1 DEF ConversationNext, convVars, recordVars
  <2>2. /\ pc \in [Session -> SessionPc]
        /\ \E to : pc' = [pc EXCEPT ![q] = to]
    BY <1>1, <2>1 DEF ConversationInv, ConversationTypes, ConversationStep, TurnStep, FlowStep, SelectionStep, SwitchStep,
                      Attach, BeginTurn, Reply, ProposeAction, EnterGuard, Admit, DispatchFails, Link, RecordAction,
                      TurnFails, MarkUncertain, FlowAsk, FlowEnds, FlowFails, BeginSwitch, MovePointer, ArchivePrior,
                      SwitchFails, SelectPriorJob, NoteSelection, Crash, Change
  <2>3. q = p
    BY <2>2
  <2>4. Reply(p)
    BY <2>1, <2>3 DEF ConversationStep, TurnStep, FlowStep, SelectionStep, SwitchStep, recordVars,
                      Attach, BeginTurn, ProposeAction, EnterGuard, Admit, DispatchFails, Link, RecordAction,
                      TurnFails, MarkUncertain, FlowAsk, FlowEnds, FlowFails, BeginSwitch, MovePointer, ArchivePrior,
                      SwitchFails, SelectPriorJob, NoteSelection, Crash, Change
  <2>5. p \in fresh
    BY <2>4 DEF Reply, Change, Unchanged
  <2> QED BY <1>1, <2>5 DEF ConversationInv, RequestInv
<1>2. ConversationInv /\ [ConversationNext]_convVars => [Answers]_convVars
  BY <1>1
<1> QED BY <1>2, ConversationInvariant, PTL DEF ConversationSpec, RepliesAnswerTheirRequest

-----------------------------------------------------------------------------
(***************************************************************************)
(* The store of credentials                                                *)
(***************************************************************************)

\* All that is sealed was sealed with one key, the one in place if there is one; a process
\* that found the store empty has found it so, unless a key has been made since.
SecretInv ==
    /\ masterKey \in Nat /\ keys \in Nat
    /\ sealed \subseteq Nat /\ 0 \notin sealed
    /\ \A k, l \in sealed : k = l
    /\ masterKey # 0 => sealed \subseteq {masterKey}
    /\ \A p \in SecretUser : user[p] \in {"empty", "generate"} /\ masterKey = 0 => sealed = {}
    /\ user \in [SecretUser -> {"idle", "empty", "holding", "generate", "load", "publish", "ready"}]

LEMMA SecretStarts == SecretInit => SecretInv
BY DEF SecretInit, SecretInv

LEMMA SecretStep ==
    ASSUME SecretInv, [SecretNext]_secretVars
    PROVE  SecretInv'
<1>1. CASE UNCHANGED secretVars
  BY <1>1 DEF SecretInv, secretVars
<1>2. ASSUME NEW p \in SecretUser,
             FindStore(p) \/ ListEntries(p) \/ LookForKey(p) \/ Load(p) \/ Publish(p) \/ Leave(p)
      PROVE  SecretInv'
  <2>1. UNCHANGED <<masterKey, sealed, keys>>
    BY <1>2 DEF FindStore, ListEntries, LookForKey, Load, Publish, Leave
  <2>2. PICK to \in {"idle", "empty", "holding", "generate", "load", "publish", "ready"} :
            /\ user' = [user EXCEPT ![p] = to]
            /\ to \in {"empty", "generate"} => sealed = {} \/ (user[p] = "empty" /\ to = "generate")
    BY <1>2 DEF FindStore, ListEntries, LookForKey, Load, Publish, Leave, Moves, MayGenerate, SecretInv
  <2>3. \A q \in SecretUser : user'[q] = IF q = p THEN to ELSE user[q]
    BY <2>2 DEF SecretInv
  <2> QED BY <2>1, <2>2, <2>3 DEF SecretInv
<1>3. ASSUME NEW p \in SecretUser, Generate(p) PROVE SecretInv'
  <2>1. /\ user[p] = "generate" /\ sealed' = sealed /\ keys' = keys + 1
        /\ masterKey' = IF masterKey = 0 THEN keys' ELSE masterKey
        /\ \A q \in SecretUser : user'[q] = IF q = p THEN "load" ELSE user[q]
        /\ user' \in [SecretUser -> {"idle", "empty", "holding", "generate", "load", "publish", "ready"}]
    BY <1>3 DEF Generate, Moves, KeyWritten, SecretInv
  <2>2. masterKey' \in Nat /\ masterKey' # 0 /\ keys' \in Nat
    BY <2>1 DEF SecretInv
  <2>3. sealed \subseteq {masterKey'}
    BY <2>1 DEF SecretInv
  <2> QED BY <2>1, <2>2, <2>3 DEF SecretInv
<1>4. ASSUME NEW p \in SecretUser, Seal(p) \/ Erase(p) PROVE SecretInv'
  <2>1. /\ masterKey # 0 /\ UNCHANGED <<masterKey, keys, user>>
        /\ sealed' = {} \/ sealed' = sealed \cup {masterKey}
    BY <1>4 DEF Seal, Erase
  <2>2. masterKey \in Nat /\ sealed \subseteq {masterKey}
    BY <2>1 DEF SecretInv
  <2>3. sealed' \subseteq {masterKey}
    BY <2>1, <2>2
  <2> QED BY <2>1, <2>2, <2>3 DEF SecretInv
<1>5. CASE Lose \/ PutBack
  <2>1. /\ \A q \in SecretUser : user[q] \notin {"empty", "generate"}
        /\ user' = user /\ keys' = keys
        /\ \/ masterKey' \in {0, masterKey} /\ sealed' \in {{}, sealed}
           \/ masterKey' \in sealed /\ sealed' = sealed
    BY <1>5 DEF Lose, PutBack, AtRest
  <2>2. /\ masterKey \in Nat /\ sealed \subseteq Nat /\ 0 \notin sealed /\ \A k, l \in sealed : k = l
        /\ masterKey # 0 => sealed \subseteq {masterKey}
    BY DEF SecretInv
  <2>3. /\ masterKey' \in Nat /\ sealed' \subseteq Nat /\ 0 \notin sealed' /\ \A k, l \in sealed' : k = l
        /\ masterKey' # 0 => sealed' \subseteq {masterKey'}
    <3>1. CASE masterKey' \in {0, masterKey} /\ sealed' \in {{}, sealed}
      <4>1. masterKey' \in Nat /\ (masterKey' = 0 \/ masterKey' = masterKey)
        BY <2>2, <3>1
      <4>2. CASE sealed' = {}
        BY <4>1, <4>2
      <4>3. CASE sealed' = sealed
        BY <2>2, <4>1, <4>3
      <4> QED BY <3>1, <4>2, <4>3
    <3>2. CASE masterKey' \in sealed /\ sealed' = sealed
      BY <2>2, <3>2
    <3> QED BY <2>1, <3>1, <3>2
  <2> QED BY <2>1, <2>3 DEF SecretInv
<1> QED BY <1>1, <1>2, <1>3, <1>4, <1>5 DEF SecretNext

\* What is sealed, and the key in place, are among the keys that were generated.
SecretTypes == SecretTypeOK /\ keys \in 0..KeyBound

LEMMA SecretTypesStart == SecretInit => SecretTypes
<1>1. KeyBound \in Nat
  BY SecretAssumption
<1>2. 0 \in 0..KeyBound
  BY <1>1
<1> QED BY <1>2 DEF SecretInit, SecretTypes, SecretTypeOK

LEMMA SecretTypesStep ==
    ASSUME SecretTypes, [SecretNext]_secretVars
    PROVE  SecretTypes'
<1> DEFINE Place == {"idle", "empty", "holding", "generate", "load", "publish", "ready"}
<1>1. /\ masterKey \in 0..KeyBound /\ sealed \subseteq 1..KeyBound /\ saved \in BOOLEAN
      /\ user \in [SecretUser -> Place] /\ keys \in 0..KeyBound /\ KeyBound \in Nat
  BY SecretAssumption DEF SecretTypes, SecretTypeOK
<1>2. user' \in [SecretUser -> Place]
  <2>1. CASE \E p \in SecretUser, to \in Place : user' = [user EXCEPT ![p] = to]
    BY <1>1, <2>1
  <2>2. CASE user' = user
    BY <1>1, <2>2
  <2> QED BY <2>1, <2>2 DEF SecretNext, FindStore, ListEntries, LookForKey, Generate, Load, Publish, Seal, Erase,
                            Leave, Lose, PutBack, Moves, secretVars
<1>3. masterKey' \in 0..KeyBound /\ keys' \in 0..KeyBound
  <2>1. CASE \E p \in SecretUser : Generate(p)
    BY <1>1, <2>1 DEF Generate, KeyWritten
  <2>2. CASE ~\E p \in SecretUser : Generate(p)
    <3>1. masterKey' \in {0, masterKey} \cup sealed /\ keys' = keys
      BY <2>2 DEF SecretNext, FindStore, ListEntries, LookForKey, Load, Publish, Seal, Erase, Leave, Lose, PutBack,
                  secretVars
    <3> QED BY <1>1, <3>1
  <2> QED BY <2>1, <2>2
<1>4. sealed' \subseteq 1..KeyBound
  <2>1. sealed' \in {{}, sealed} \/ (masterKey # 0 /\ sealed' = sealed \cup {masterKey})
    BY DEF SecretNext, FindStore, ListEntries, LookForKey, Generate, Load, Publish, Seal, Erase, Leave, Lose, PutBack,
           secretVars
  <2>2. masterKey # 0 => masterKey \in 1..KeyBound
    BY <1>1
  <2>3. CASE sealed' \in {{}, sealed}
    BY <1>1, <2>3
  <2>4. CASE masterKey # 0 /\ sealed' = sealed \cup {masterKey}
    BY <1>1, <2>2, <2>4
  <2> QED BY <2>1, <2>3, <2>4
<1>5. saved' \in BOOLEAN
  <2>1. saved' \in {TRUE, FALSE, saved}
    BY DEF SecretNext, FindStore, ListEntries, LookForKey, Generate, Load, Publish, Seal, Erase, Leave, Lose, PutBack,
           secretVars
  <2> QED BY <1>1, <2>1
<1> QED BY <1>2, <1>3, <1>4, <1>5 DEF SecretTypes, SecretTypeOK

-----------------------------------------------------------------------------
(***************************************************************************)
(* Accounts                                                                *)
(***************************************************************************)

Status == {"none", "running", "awaiting_auth", "connected", "failed", "cancelled"}
Told == {"failed", "cancelled"}
Begun == {"running", "awaiting_auth"}

Errand == [op : {"none", "connect", "check", "disconnect", "pair"},
           at : {"none", "authorize", "client", "refresh", "save", "undo", "retire", "check", "disable", "revoke",
                 "delete", "token", "bind", "owner"},
           id : 0..GrantBound, grant : 0..GrantBound, due : SUBSET Entry, failed : BOOLEAN,
           task : SetupTask \cup {"none"}, cancelled : BOOLEAN]
Connection == [grant : 0..GrantBound, enabled : BOOLEAN, retired : SUBSET Entry]
SetupRecord == [status : Status, grant : 0..GrantBound, id : 0..GrantBound]

AccountTypes ==
    /\ vault \subseteq Entry /\ known \subseteq Entry /\ unsure \subseteq Grant
    /\ connection \in [Grant -> Connection]
    /\ bot \in [grant : 0..GrantBound, paired : BOOLEAN]
    /\ errand \in Errand
    /\ setup \in [SetupTask -> SetupRecord]
    /\ hostTask \in [task : SetupTask \cup {"none"}, status : Status, id : 0..GrantBound]
    /\ grants \in 0..GrantBound /\ accountFaults \in 0..CredentialFaults

\* A grant is used for one connection: the entries that two connections name, and those
\* that one uses and has retired, are of different grants.
GrantInv ==
    /\ \A e \in known : e[1] <= grants /\ e[2] # "token"
    /\ errand.grant <= grants
    /\ \A t \in SetupTask : setup[t].grant <= grants
    /\ \A c \in Grant : /\ Names(connection[c]) \subseteq known
                        /\ connection[c].enabled => Connected(c)
                        /\ \A e \in connection[c].retired : e[1] # connection[c].grant
    /\ \A c, d \in Grant : \A e \in Names(connection[c]), f \in Names(connection[d]) : e[1] = f[1] => c = d

\* No connection has ever named an entry of grant g.
Unnamed(g) == g \in Grant /\ \A e \in known : e[1] # g

\* How far the command is,
PlaceInv ==
    errand.at \in CASE errand.op = "none" -> {"none"}
                    [] errand.op = "connect" -> {"authorize", "client", "refresh", "save", "undo", "retire"}
                    [] errand.op = "check" -> {"check"}
                    [] errand.op = "disconnect" -> {"disable", "revoke", "delete"}
                    [] errand.op = "pair" -> {"token", "bind", "undo", "owner"}

\* and what its place says of the entries and the connection: of a connection that is made,
ConnectInv ==
    /\ errand.at \in {"client", "refresh", "save"} => errand.id \in Grant /\ Unnamed(errand.grant) /\ errand.due = {}
    /\ errand.at = "refresh" => <<errand.grant, "client">> \in vault
    /\ errand.at = "save" => Pair(errand.grant) \subseteq vault
    /\ errand.op = "connect" /\ errand.at = "undo" =>
          /\ errand.due \subseteq Pair(errand.grant)
          /\ \A c \in Grant : connection[c].grant = errand.grant => c \in unsure
    /\ errand.at = "retire" =>
          /\ errand.id \in Grant /\ Connected(errand.id)
          /\ errand.due \subseteq connection[errand.id].retired
          /\ ~errand.failed => connection[errand.id].retired \cap vault \subseteq errand.due

\* and of one that is checked or left, and of a bot that is paired.
LeaveInv ==
    /\ errand.op \in {"check", "disconnect"} => errand.id \in Grant
    /\ errand.op = "disconnect" => Connected(errand.id)
    /\ errand.at \in {"revoke", "delete"} => ~connection[errand.id].enabled
    /\ errand.at = "delete" => errand.due \subseteq Names(connection[errand.id])
    /\ errand.op = "pair" /\ errand.at # "owner" => bot.grant = 0 /\ errand.grant \in Grant
    /\ errand.at = "bind" => <<errand.grant, "token">> \in vault
    /\ errand.op = "pair" => errand.due \subseteq {<<errand.grant, "token">>}
    /\ errand.at \notin {"undo", "retire", "delete"} => errand.due = {}

ErrandInv == PlaceInv /\ ConnectInv /\ LeaveInv

\* The task of the command that runs is told to be under way, and its grant is its own.
TaskInv ==
    /\ errand.task # "none" =>
          /\ errand.op \in {"connect", "check"}
          /\ hostTask.task = errand.task /\ hostTask.status \in Begun
          /\ setup[errand.task].status \in Begun
          /\ setup[errand.task].grant = IF errand.at \in {"authorize", "check"} THEN 0 ELSE errand.grant
          /\ errand.op = "connect" => errand.id = setup[errand.task].grant
    /\ \A t \in SetupTask \ {errand.task} : setup[t].grant # 0 => setup[t].grant # errand.grant

\* The grant of a sign-in that failed is not the one a connection uses, unless its save
\* was reported to fail and yet is visible.
NotUsed(g) == g # 0 => (connection[g].enabled /\ connection[g].grant = g => g \in unsure)

TellInv ==
    /\ \A t \in SetupTask :
          /\ setup[t].status = "connected" => setup[t].id \in Grant /\ Connected(setup[t].id)
          /\ setup[t].status \in Told => NotUsed(setup[t].grant)
    /\ hostTask.status = "connected" => hostTask.id \in Grant /\ Connected(hostTask.id)
    /\ hostTask.status \in Told => hostTask.task \in SetupTask /\ NotUsed(setup[hostTask.task].grant)

AccountInv ==
    /\ AccountTypes /\ GrantInv /\ ErrandInv /\ TaskInv /\ TellInv
    /\ NothingIsUsedWithout /\ NothingIsForgotten

-----------------------------------------------------------------------------
LEMMA GrantNumbers ==
    /\ GrantBound \in Nat /\ Grant \subseteq 0..GrantBound /\ 0 \notin Grant /\ "none" \notin SetupTask
    /\ \A g \in 0..GrantBound : g # 0 => g \in Grant
BY AccountAssumption DEF Grant

LEMMA PairFacts ==
    ASSUME NEW g
    PROVE  /\ Pair(g) = {<<g, "client">>, <<g, "refresh">>}
           /\ \A e \in Pair(g) : e[1] = g /\ e[2] # "token"
           /\ <<g, "token">>[1] = g /\ <<g, "token">>[2] = "token"
           /\ g \in Grant => Pair(g) \subseteq Entry /\ <<g, "token">> \in Entry
BY DEF Pair, Entry

LEMMA NamesFacts ==
    ASSUME NEW file \in Connection
    PROVE  /\ Names(file) \subseteq Entry /\ file.retired \subseteq Names(file)
           /\ file.grant # 0 => Names(file) = file.retired \cup Pair(file.grant)
           /\ file.grant = 0 => Names(file) = file.retired
<1>1. file.grant \in 0..GrantBound /\ file.retired \subseteq Entry
  BY DEF Connection
<1>2. file.grant # 0 => Pair(file.grant) \subseteq Entry
  BY <1>1, GrantNumbers, PairFacts
<1> QED BY <1>1, <1>2 DEF Names

\* Two connections name entries of different grants, and use different grants.
LEMMA GrantsApart ==
    ASSUME AccountTypes, GrantInv, NEW c \in Grant, NEW d \in Grant
    PROVE  /\ Connected(c) /\ connection[c].grant = connection[d].grant => c = d
           /\ Connected(c) => \A e \in connection[d].retired : e[1] # connection[c].grant
<1>1. connection[c] \in Connection /\ connection[d] \in Connection
  BY DEF AccountTypes
<1>2. \A a \in Grant : Connected(a) => \E e \in Names(connection[a]) : e[1] = connection[a].grant
  <2> SUFFICES ASSUME NEW a \in Grant, Connected(a) PROVE \E e \in Names(connection[a]) : e[1] = connection[a].grant
    OBVIOUS
  <2>1. connection[a] \in Connection /\ connection[a].grant # 0
    BY DEF AccountTypes, Connected
  <2>2. Pair(connection[a].grant) \subseteq Names(connection[a])
    BY <2>1, NamesFacts
  <2>3. \E e : e \in Pair(connection[a].grant) /\ e[1] = connection[a].grant
    BY PairFacts
  <2> QED BY <2>2, <2>3
<1>3. connection[d].retired \subseteq Names(connection[d])
  BY <1>1, NamesFacts
<1>4. \A e \in Names(connection[c]), f \in Names(connection[d]) : e[1] = f[1] => c = d
  BY DEF GrantInv
<1>5. ASSUME Connected(c), NEW e \in connection[d].retired PROVE e[1] # connection[c].grant
  <2>1. PICK f \in Names(connection[c]) : f[1] = connection[c].grant
    BY <1>2, <1>5
  <2>2. c # d => e[1] # f[1]
    BY <1>3, <1>4, <1>5
  <2>3. c = d => e[1] # connection[c].grant
    BY <1>5 DEF GrantInv
  <2> QED BY <2>1, <2>2, <2>3
<1>6. ASSUME Connected(c), connection[c].grant = connection[d].grant PROVE c = d
  <2>1. Connected(d)
    BY <1>6 DEF Connected
  <2>2. PICK e \in Names(connection[c]) : e[1] = connection[c].grant
    BY <1>2, <1>6
  <2>3. PICK f \in Names(connection[d]) : f[1] = connection[d].grant
    BY <1>2, <2>1
  <2> QED BY <1>4, <1>6, <2>2, <2>3
<1> QED BY <1>5, <1>6

\* Every entry that a connection named and that is there is named.
LEMMA Remembered == NothingIsForgotten <=> \A e \in known \cap vault : \E c \in Grant : e \in Names(connection[c])
BY DEF NothingIsForgotten

LEMMA RememberedNext ==
    NothingIsForgotten' <=> \A e \in known' \cap vault' : \E c \in Grant : e \in Names(connection'[c])
BY DEF NothingIsForgotten

\* The command goes to another place.
LEMMA GoToFacts ==
    ASSUME AccountTypes, NEW step, NEW due \in SUBSET Entry, GoTo(step, due),
           step \in {"refresh", "save", "undo", "retire", "revoke", "delete", "bind", "owner"}
    PROVE  /\ errand' \in Errand /\ errand'.at = step /\ errand'.due = due
           /\ errand'.op = errand.op /\ errand'.id = errand.id /\ errand'.grant = errand.grant
           /\ errand'.failed = errand.failed /\ errand'.task = errand.task
           /\ UNCHANGED <<setup, hostTask>>
BY DEF GoTo, AccountTypes, Errand

LEMMA NoErrandFacts ==
    /\ NoErrand \in Errand
    /\ NoErrand.op = "none" /\ NoErrand.at = "none" /\ NoErrand.id = 0 /\ NoErrand.grant = 0 /\ NoErrand.due = {}
    /\ NoErrand.task = "none" /\ ~NoErrand.failed
BY GrantNumbers DEF NoErrand, Errand

\* Without a command nothing is under way: its part of the invariant says nothing.
LEMMA AtRestInv ==
    ASSUME errand' = NoErrand
    PROVE  ErrandInv' /\ TaskInv'
BY NoErrandFacts, GrantNumbers DEF ErrandInv, PlaceInv, ConnectInv, LeaveInv, TaskInv

\* What a sign-in was told to be stays true: no connection is forgotten, and the grant of one
\* that failed is not used later, unless it is the one under way.
StaysTrue ==
    /\ \A c \in Grant : Connected(c) => Connected(c)'
    /\ \A t \in SetupTask \ {errand.task}, g \in Grant : g = setup[t].grant /\ NotUsed(g) => NotUsed(g)'

\* The end of a command, and what is then told of its task.
LEMMA Returns ==
    ASSUME AccountInv, NEW id \in 0..GrantBound, Return(id), StaysTrue,
           id # 0 => Connected(id)',
           \A g \in Grant : errand.task \in SetupTask /\ id = 0 /\ g = setup[errand.task].grant => NotUsed(g)'
    PROVE  /\ errand' = NoErrand /\ ErrandInv' /\ TaskInv' /\ TellInv'
           /\ setup' \in [SetupTask -> SetupRecord]
           /\ hostTask' \in [task : SetupTask \cup {"none"}, status : Status, id : 0..GrantBound]
           /\ \A t \in SetupTask : setup'[t].grant = setup[t].grant
<1> DEFINE status == IF id # 0 THEN "connected" ELSE IF errand.cancelled THEN "cancelled" ELSE "failed"
<1>1. errand' = NoErrand
  BY DEF Return
<1>2. /\ AccountTypes /\ TellInv /\ errand.task \in SetupTask \cup {"none"}
      /\ setup \in [SetupTask -> SetupRecord] /\ \A t \in SetupTask : setup[t].grant \in 0..GrantBound
      /\ status \in Status /\ (id # 0 => status = "connected") /\ (id = 0 => status \in Told)
      /\ errand.task # "none" => setup[errand.task].status \notin Told /\ hostTask.status \notin Told
  <2>1. AccountTypes /\ TellInv /\ TaskInv
    BY DEF AccountInv
  <2>2. errand.task # "none" => setup[errand.task].status \notin Told /\ hostTask.status \notin Told
    BY <2>1 DEF TaskInv, Begun, Told
  <2> QED BY <2>1, <2>2 DEF AccountTypes, Errand, SetupRecord, Status, Told
<1>3. \/ UNCHANGED <<setup, hostTask>>
      \/ /\ errand.task \in SetupTask
         /\ hostTask' = [task |-> errand.task, status |-> status, id |-> id]
         /\ setup' = setup \/ setup' = [setup EXCEPT ![errand.task].status = status, ![errand.task].id = id]
  BY <1>2 DEF Return
<1>4. /\ hostTask' \in [task : SetupTask \cup {"none"}, status : Status, id : 0..GrantBound]
      /\ \/ hostTask' = hostTask
         \/ errand.task \in SetupTask /\ hostTask'.task = errand.task /\ hostTask'.status = status /\ hostTask'.id = id
  BY <1>2, <1>3 DEF AccountTypes
<1>5. /\ setup' \in [SetupTask -> SetupRecord]
      /\ \A t \in SetupTask :
            /\ setup'[t].grant = setup[t].grant
            /\ \/ setup'[t].status = setup[t].status /\ setup'[t].id = setup[t].id
               \/ t = errand.task /\ setup'[t].status = status /\ setup'[t].id = id
  <2>1. CASE setup' = setup
    BY <1>2, <2>1
  <2>2. CASE errand.task \in SetupTask /\ setup' = [setup EXCEPT ![errand.task].status = status, ![errand.task].id = id]
    BY <1>2, <2>2 DEF SetupRecord
  <2> QED BY <1>3, <2>1, <2>2
<1>6. \A t \in SetupTask : \/ t # errand.task /\ NotUsed(setup[t].grant)
                           \/ t = errand.task /\ id = 0
                           => \A g \in Grant : g = setup[t].grant => NotUsed(g)'
  BY DEF StaysTrue
<1>7. TellInv'
  <2>1. "connected" \notin Told /\ \A g \in 0..GrantBound : g # 0 => g \in Grant
    BY GrantNumbers DEF Told
  <2>2. \A c \in Grant : Connected(c) => connection'[c].grant # 0
    BY DEF StaysTrue, Connected
  <2>3. id # 0 => id \in Grant /\ connection'[id].grant # 0
    BY <2>1 DEF Connected
  <2>4. ASSUME NEW t \in SetupTask, setup'[t].status = "connected"
        PROVE  setup'[t].id \in Grant /\ connection'[setup'[t].id].grant # 0
    <3>1. setup[t].status = "connected" => setup[t].id \in Grant /\ Connected(setup[t].id)
      BY <1>2 DEF TellInv
    <3> QED BY <1>2, <1>5, <2>1, <2>2, <2>3, <2>4, <3>1
  <2>5. ASSUME NEW t \in SetupTask, (t # errand.task /\ NotUsed(setup[t].grant)) \/ (t = errand.task /\ id = 0),
               setup[t].grant # 0
        PROVE  connection'[setup[t].grant].enabled /\ connection'[setup[t].grant].grant = setup[t].grant
                   => setup[t].grant \in unsure'
    <3>1. \A g \in Grant : g = setup[t].grant => NotUsed(g)'
      BY <1>6, <2>5
    <3>2. setup[t].grant \in Grant
      BY <1>2, <2>1, <2>5
    <3>3. \A g \in Grant : g = setup[t].grant => (connection'[g].enabled /\ connection'[g].grant = g => g \in unsure')
      BY <2>5, <3>1 DEF NotUsed
    <3> QED BY <3>2, <3>3
  <2>6. ASSUME NEW t \in SetupTask, setup'[t].status \in Told
        PROVE  (t # errand.task /\ NotUsed(setup[t].grant)) \/ (t = errand.task /\ id = 0)
    BY <1>2, <1>5, <2>1, <2>6, GrantNumbers DEF TellInv
  <2>7. ASSUME hostTask'.status = "connected"
        PROVE  hostTask'.id \in Grant /\ connection'[hostTask'.id].grant # 0
    <3>1. hostTask.status = "connected" => hostTask.id \in Grant /\ Connected(hostTask.id)
      BY <1>2 DEF TellInv
    <3> QED BY <1>2, <1>4, <2>1, <2>2, <2>3, <2>7, <3>1
  <2>8. ASSUME hostTask'.status \in Told
        PROVE  /\ hostTask'.task \in SetupTask
               /\ \/ hostTask'.task # errand.task /\ NotUsed(setup[hostTask'.task].grant)
                  \/ hostTask'.task = errand.task /\ id = 0
    BY <1>2, <1>4, <2>1, <2>8, GrantNumbers DEF TellInv
  <2>9. \A t \in SetupTask : setup'[t].status \in Told /\ setup'[t].grant # 0 =>
           (connection'[setup'[t].grant].enabled /\ connection'[setup'[t].grant].grant = setup'[t].grant
                => setup'[t].grant \in unsure')
    BY <1>5, <2>5, <2>6
  <2>10. ASSUME hostTask'.status \in Told
         PROVE  /\ hostTask'.task \in SetupTask
                /\ LET g == setup'[hostTask'.task].grant IN
                   g # 0 => (connection'[g].enabled /\ connection'[g].grant = g => g \in unsure')
    BY <1>5, <2>5, <2>8, <2>10
  <2> QED BY <2>4, <2>7, <2>9, <2>10 DEF TellInv, Connected, NotUsed
<1> QED BY <1>1, <1>4, <1>5, <1>7, AtRestInv

\* Nothing is told anew.
LEMMA NothingTold ==
    ASSUME AccountInv, UNCHANGED <<setup, hostTask>>, StaysTrue
    PROVE  TellInv'
<1>1. /\ TellInv /\ \A t \in SetupTask : setup[t].grant # 0 => setup[t].grant \in Grant
  BY GrantNumbers DEF AccountInv, AccountTypes, SetupRecord
<1>2. \A c \in Grant : Connected(c) => connection'[c].grant # 0
  BY DEF StaysTrue, Connected
<1>3. ASSUME NEW t \in SetupTask \ {errand.task}, NotUsed(setup[t].grant), setup[t].grant # 0
      PROVE  connection'[setup[t].grant].enabled /\ connection'[setup[t].grant].grant = setup[t].grant
                 => setup[t].grant \in unsure'
  <2>1. \A g \in Grant : g = setup[t].grant => (connection'[g].enabled /\ connection'[g].grant = g => g \in unsure')
    BY <1>3 DEF StaysTrue, NotUsed
  <2> QED BY <1>1, <1>3, <2>1
<1>4. /\ \A t \in SetupTask : setup[t].status \in Told => t # errand.task
      /\ hostTask.status \in Told => hostTask.task # errand.task
  <2>1. TaskInv /\ (hostTask.status \in Told => hostTask.task \in SetupTask)
    BY <1>1 DEF AccountInv, TellInv
  <2>2. errand.task # "none" => setup[errand.task].status \in Begun /\ hostTask.status \in Begun
    BY <2>1 DEF TaskInv
  <2> QED BY <2>1, <2>2, GrantNumbers DEF Begun, Told
<1> QED BY <1>1, <1>2, <1>3, <1>4 DEF TellInv, Connected, NotUsed

\* A step that changes no credential and no file.
LEMMA StandStill ==
    ASSUME AccountInv, UNCHANGED <<vault, connection, bot, known, unsure>>,
           grants' \in 0..GrantBound, grants <= grants', accountFaults' \in 0..CredentialFaults,
           errand' \in Errand, errand'.grant <= grants',
           setup' \in [SetupTask -> SetupRecord], \A t \in SetupTask : setup'[t].grant <= grants',
           hostTask' \in [task : SetupTask \cup {"none"}, status : Status, id : 0..GrantBound]
    PROVE  AccountTypes' /\ GrantInv' /\ NothingIsUsedWithout' /\ NothingIsForgotten' /\ StaysTrue
<1>1. AccountTypes /\ GrantInv /\ NothingIsUsedWithout /\ NothingIsForgotten
  BY DEF AccountInv
<1>2. AccountTypes'
  BY <1>1 DEF AccountTypes
<1>3. GrantInv'
  <2>1. \A e \in known' : e[1] <= grants' /\ e[2] # "token"
    <3>1. \A e \in known : e \in Entry
      BY <1>1 DEF AccountTypes
    <3>2. \A e \in Entry : e[1] \in Nat
      BY GrantNumbers DEF Entry, Grant
    <3>3. grants \in Nat /\ grants' \in Nat /\ grants <= grants' /\ known' = known
      BY <1>1, GrantNumbers DEF AccountTypes
    <3>4. \A e \in known : e[1] <= grants /\ e[2] # "token"
      BY <1>1 DEF GrantInv
    <3> QED BY <3>1, <3>2, <3>3, <3>4
  <2> QED BY <1>1, <2>1 DEF GrantInv, Connected
<1>4. NothingIsUsedWithout'
  BY <1>1 DEF NothingIsUsedWithout, Opens
<1>5. NothingIsForgotten'
  BY <1>1 DEF NothingIsForgotten
<1>6. StaysTrue
  BY DEF StaysTrue, Connected, NotUsed
<1> QED BY <1>2, <1>3, <1>4, <1>5, <1>6

LEMMA Faults ==
    ASSUME AccountTypes, Fault \/ NoFault
    PROVE  accountFaults' \in 0..CredentialFaults
BY AccountAssumption DEF AccountTypes, Fault, NoFault

\* A command begins, the first or the owner's answer to its link included.
LEMMA CommandsBegin ==
    ASSUME AccountInv, BeginConnect \/ BeginReauthorization \/ BeginDisconnect \/ BeginPairing \/ ResumePairing
    PROVE  AccountInv'
<1>1. /\ AccountTypes /\ GrantInv /\ ErrandInv /\ TaskInv /\ errand = NoErrand
      /\ UNCHANGED <<vault, connection, bot, known, unsure, accountFaults, setup, hostTask>>
  BY DEF BeginConnect, BeginReauthorization, BeginDisconnect, BeginPairing, ResumePairing, Unoccupied, credentialVars,
         AccountInv
<1>2. /\ grants \in 0..GrantBound /\ grants' \in 0..GrantBound /\ grants <= grants'
      /\ grants' = grants \/ (grants' = grants + 1 /\ grants' \in Grant)
  <2>1. grants' = grants \/ (grants < GrantBound /\ grants' = grants + 1)
    BY DEF BeginConnect, BeginReauthorization, BeginDisconnect, BeginPairing, ResumePairing
  <2>2. grants \in 0..GrantBound
    BY <1>1 DEF AccountTypes
  <2> QED BY <2>1, <2>2, GrantNumbers DEF Grant
<1>3. /\ errand' \in Errand /\ errand'.due = {} /\ ~errand'.failed /\ errand'.task = "none"
      /\ \/ /\ errand'.op = "connect" /\ errand'.at = "authorize" /\ errand'.grant = 0
         \/ /\ errand'.op = "disconnect" /\ errand'.at = "disable" /\ errand'.grant = 0
            /\ errand'.id \in Grant /\ Connected(errand'.id)
         \/ /\ errand'.op = "pair" /\ errand'.at = "token" /\ bot.grant = 0
            /\ errand'.grant = grants' /\ grants' = grants + 1
         \/ /\ errand'.op = "pair" /\ errand'.at = "owner" /\ errand'.grant = 0
  <2>1. CASE BeginConnect
    <3>1. errand' = [NoErrand EXCEPT !.op = "connect", !.at = "authorize"]
      BY <2>1 DEF BeginConnect
    <3> QED BY <3>1, NoErrandFacts DEF Errand
  <2>2. CASE BeginReauthorization
    <3>1. PICK c \in Grant : errand' = [NoErrand EXCEPT !.op = "connect", !.at = "authorize", !.id = c]
      BY <2>2 DEF BeginReauthorization
    <3> QED BY <3>1, NoErrandFacts, GrantNumbers DEF Errand
  <2>3. CASE BeginDisconnect
    <3>1. PICK c \in Grant : /\ Connected(c)
                             /\ errand' = [NoErrand EXCEPT !.op = "disconnect", !.at = "disable", !.id = c]
      BY <2>3 DEF BeginDisconnect
    <3> QED BY <3>1, NoErrandFacts, GrantNumbers DEF Errand
  <2>4. CASE BeginPairing
    <3>1. /\ errand' = [NoErrand EXCEPT !.op = "pair", !.at = "token", !.grant = grants']
          /\ bot.grant = 0 /\ grants' = grants + 1
      BY <2>4 DEF BeginPairing
    <3> QED BY <1>2, <3>1, NoErrandFacts DEF Errand
  <2>5. CASE ResumePairing
    <3>1. errand' = [NoErrand EXCEPT !.op = "pair", !.at = "owner"]
      BY <2>5 DEF ResumePairing
    <3> QED BY <3>1, NoErrandFacts DEF Errand
  <2> QED BY <1>1, <2>1, <2>2, <2>3, <2>4, <2>5
<1>4. errand'.id \in 0..GrantBound /\ errand'.grant \in 0..GrantBound
  BY <1>3 DEF Errand
<1>5. \A t \in SetupTask : setup[t].grant <= grants /\ setup[t].grant \in Nat
  BY <1>1, GrantNumbers DEF GrantInv, AccountTypes, SetupRecord
<1>6. AccountTypes' /\ GrantInv' /\ NothingIsUsedWithout' /\ NothingIsForgotten' /\ StaysTrue
  <2>1. errand'.grant <= grants' /\ \A t \in SetupTask : setup'[t].grant <= grants'
    BY <1>1, <1>2, <1>3, <1>4, <1>5
  <2>2. /\ setup' \in [SetupTask -> SetupRecord] /\ accountFaults' \in 0..CredentialFaults
        /\ hostTask' \in [task : SetupTask \cup {"none"}, status : Status, id : 0..GrantBound]
    BY <1>1 DEF AccountTypes
  <2> QED BY <1>1, <1>2, <1>3, <2>1, <2>2, StandStill
<1>7. ErrandInv'
  BY <1>1, <1>2, <1>3, <1>4 DEF ErrandInv, PlaceInv, ConnectInv, LeaveInv, Connected
<1>8. TaskInv'
  <2>1. \A t \in SetupTask : setup[t].grant # 0 => setup[t].grant # errand'.grant
    BY <1>2, <1>3, <1>5
  <2> QED BY <1>1, <1>3, <2>1 DEF TaskInv
<1>9. TellInv'
  BY <1>1, <1>6, NothingTold
<1> QED BY <1>6, <1>7, <1>8, <1>9 DEF AccountInv

-----------------------------------------------------------------------------
LEMMA GrantsKept ==
    ASSUME AccountInv, grants' = grants, errand' \in Errand, errand'.grant = 0 \/ errand'.grant = errand.grant,
           \A t \in SetupTask : setup'[t].grant = setup[t].grant
    PROVE  /\ grants' \in 0..GrantBound /\ grants <= grants'
           /\ errand'.grant <= grants' /\ \A t \in SetupTask : setup'[t].grant <= grants'
<1>1. grants \in 0..GrantBound /\ errand.grant <= grants /\ \A t \in SetupTask : setup[t].grant <= grants
  BY DEF AccountInv, AccountTypes, GrantInv
<1> QED BY <1>1, GrantNumbers

LEMMA FilesKept ==
    ASSUME UNCHANGED <<connection, unsure>>
    PROVE  StaysTrue
BY DEF StaysTrue, Connected, NotUsed

LEMMA UnnamedIsUnused ==
    ASSUME AccountTypes, GrantInv, NEW g, Unnamed(g), NEW c \in Grant
    PROVE  connection[c].grant # g
<1> SUFFICES ASSUME connection[c].grant = g PROVE FALSE
  OBVIOUS
<1>1. connection[c] \in Connection /\ g # 0
  BY GrantNumbers DEF AccountTypes, Unnamed
<1>2. Pair(g) \subseteq known
  BY <1>1, NamesFacts DEF GrantInv
<1>3. \E e : e \in Pair(g) /\ e[1] = g
  BY PairFacts
<1> QED BY <1>2, <1>3 DEF Unnamed

\* The grant of a command that returns nothing, of a task, is not used.
LEMMA ReturnedInVain ==
    ASSUME AccountInv, errand.task # "none",
           errand.at \in {"authorize", "client", "refresh", "undo", "check"}
    PROVE  NotUsed(setup[errand.task].grant)
<1>1. /\ AccountTypes /\ GrantInv /\ ErrandInv /\ TaskInv
      /\ errand.op \in {"connect", "check"}
      /\ setup[errand.task].grant = IF errand.at \in {"authorize", "check"} THEN 0 ELSE errand.grant
  BY DEF AccountInv, TaskInv
<1>2. CASE errand.at \in {"authorize", "check"}
  BY <1>1, <1>2 DEF NotUsed
<1>3. CASE errand.at \in {"client", "refresh"}
  <2>1. Unnamed(errand.grant) /\ setup[errand.task].grant = errand.grant
    BY <1>1, <1>3 DEF ErrandInv, PlaceInv, ConnectInv, LeaveInv
  <2>2. \A c \in Grant : connection[c].grant # errand.grant
    BY <1>1, <2>1, UnnamedIsUnused
  <2> QED BY <2>1, <2>2 DEF NotUsed, Unnamed
<1>4. CASE errand.at = "undo"
  <2>1. errand.op = "connect" /\ setup[errand.task].grant = errand.grant
    BY <1>1, <1>4 DEF ErrandInv, PlaceInv, ConnectInv, LeaveInv
  <2>2. \A c \in Grant : connection[c].grant = errand.grant => c \in unsure
    BY <1>1, <1>4, <2>1 DEF ErrandInv, PlaceInv, ConnectInv, LeaveInv
  <2>3. errand.grant \in 0..GrantBound
    BY <1>1 DEF AccountTypes, Errand
  <2> QED BY <2>1, <2>2, <2>3, GrantNumbers DEF NotUsed
<1> QED BY <1>2, <1>3, <1>4

\* A command ends and changes nothing of the credentials.
LEMMA ReturnsOnly ==
    ASSUME AccountInv, NEW id \in 0..GrantBound, Return(id), id # 0 => Connected(id),
           id = 0 /\ errand.task # "none" => errand.at \in {"authorize", "client", "refresh", "undo", "check"},
           UNCHANGED <<vault, connection, bot, grants, known, unsure, accountFaults>>
    PROVE  AccountInv'
<1>1. StaysTrue /\ (id # 0 => Connected(id)')
  BY FilesKept DEF Connected
<1>2. \A g \in Grant : errand.task \in SetupTask /\ id = 0 /\ g = setup[errand.task].grant => NotUsed(g)'
  BY ReturnedInVain, GrantNumbers DEF NotUsed
<1>3. /\ errand' = NoErrand /\ ErrandInv' /\ TaskInv' /\ TellInv'
      /\ setup' \in [SetupTask -> SetupRecord]
      /\ hostTask' \in [task : SetupTask \cup {"none"}, status : Status, id : 0..GrantBound]
      /\ \A t \in SetupTask : setup'[t].grant = setup[t].grant
  BY <1>1, <1>2, Returns
<1>4. errand' \in Errand /\ errand'.grant = 0
  BY <1>3, NoErrandFacts
<1>5. /\ grants' \in 0..GrantBound /\ grants <= grants'
      /\ errand'.grant <= grants' /\ \A t \in SetupTask : setup'[t].grant <= grants'
  BY <1>3, <1>4, GrantsKept
<1>6. accountFaults' \in 0..CredentialFaults
  BY DEF AccountInv, AccountTypes
<1>7. AccountTypes' /\ GrantInv' /\ NothingIsUsedWithout' /\ NothingIsForgotten'
  BY <1>3, <1>4, <1>5, <1>6, StandStill
<1> QED BY <1>3, <1>7 DEF AccountInv

LEMMA CommandsEnd ==
    ASSUME AccountInv,
           AuthorizationFails \/ Deleted \/ CheckCredentials \/ (RevokeGrant /\ Return(0))
    PROVE  AccountInv'
<1>1. /\ UNCHANGED <<vault, connection, bot, grants, known, unsure, accountFaults>>
  BY DEF AuthorizationFails, Deleted, CheckCredentials, RevokeGrant, credentialVars
<1>2. AccountTypes /\ ErrandInv /\ TaskInv /\ 0 \in 0..GrantBound
  BY GrantNumbers DEF AccountInv
<1>3. errand.op \in {"disconnect", "pair"} => errand.task = "none"
  BY <1>2 DEF TaskInv
<1>4. errand.op = "none" => errand.at = "none"
  BY <1>2 DEF ErrandInv, PlaceInv, ConnectInv, LeaveInv
<1>5. CASE AuthorizationFails
  <2>1. errand.at = "authorize" /\ Return(0)
    BY <1>5 DEF AuthorizationFails, Stands
  <2> QED BY <1>1, <1>2, <2>1, ReturnsOnly
<1>6. CASE Deleted
  <2>1. CASE errand.at \in {"undo", "delete"} /\ Return(0)
    <3>1. errand.at = "delete" => errand.op = "disconnect"
      BY <1>2 DEF ErrandInv, PlaceInv, ConnectInv, LeaveInv, AccountTypes, Errand
    <3> QED BY <1>1, <1>2, <1>3, <2>1, <3>1, ReturnsOnly
  <2>2. CASE errand.at = "retire" /\ Return(errand.id)
    <3>1. errand.id \in Grant /\ Connected(errand.id) /\ errand.id \in 0..GrantBound /\ errand.id # 0
      BY <1>2, <2>2, GrantNumbers DEF ErrandInv, PlaceInv, ConnectInv, LeaveInv
    <3> QED BY <1>1, <2>2, <3>1, ReturnsOnly
  <2> QED BY <1>6, <2>1, <2>2 DEF Deleted
<1>7. CASE CheckCredentials
  <2>1. errand.at = "check" /\ errand.op = "check" /\ errand.id \in Grant /\ errand.id \in 0..GrantBound
    BY <1>2, <1>7, GrantNumbers DEF CheckCredentials, Stands, ErrandInv, PlaceInv, ConnectInv, LeaveInv
  <2>2. CASE Opens(errand.id) /\ Return(errand.id)
    <3>1. Connected(errand.id)
      BY <1>2, <2>1, <2>2 DEF AccountInv, GrantInv, Opens
    <3> QED BY <1>1, <2>1, <2>2, <3>1, GrantNumbers, ReturnsOnly
  <2>3. CASE Return(0)
    BY <1>1, <1>2, <2>1, <2>3, ReturnsOnly
  <2> QED BY <1>7, <2>2, <2>3 DEF CheckCredentials
<1>8. CASE RevokeGrant /\ Return(0)
  <2>1. errand.op = "disconnect"
    BY <1>8 DEF RevokeGrant, Stands
  <2> QED BY <1>1, <1>2, <1>3, <1>8, <2>1, ReturnsOnly
<1> QED BY <1>5, <1>6, <1>7, <1>8

-----------------------------------------------------------------------------
\* The process ends.
LEMMA DieInv ==
    ASSUME AccountInv, Die
    PROVE  AccountInv'
<1>1. /\ AccountTypes /\ TellInv /\ errand' = NoErrand /\ hostTask' = NoHostTask /\ Fault
      /\ UNCHANGED <<vault, connection, bot, setup, grants, known, unsure>>
  BY DEF AccountInv, Die, credentialVars
<1>2. errand' \in Errand /\ errand'.grant = 0 /\ accountFaults' \in 0..CredentialFaults
  BY <1>1, NoErrandFacts, Faults
<1>3. hostTask' \in [task : SetupTask \cup {"none"}, status : Status, id : 0..GrantBound] /\ hostTask'.status = "none"
  BY <1>1, GrantNumbers DEF NoHostTask, Status
<1>4. AccountTypes' /\ GrantInv' /\ NothingIsUsedWithout' /\ NothingIsForgotten'
  <2>1. setup' \in [SetupTask -> SetupRecord]
    BY <1>1 DEF AccountTypes
  <2>2. /\ grants' \in 0..GrantBound /\ grants <= grants'
        /\ errand'.grant <= grants' /\ \A t \in SetupTask : setup'[t].grant <= grants'
    BY <1>1, <1>2, GrantsKept
  <2> QED BY <1>1, <1>2, <1>3, <2>1, <2>2, StandStill
<1>5. TellInv'
  <2>1. "none" \notin Told
    BY DEF Told
  <2> QED BY <1>1, <1>3, <2>1 DEF TellInv, Connected, NotUsed
<1> QED BY <1>1, <1>4, <1>5, AtRestInv DEF AccountInv

\* A command is cancelled.
LEMMA CancelInv ==
    ASSUME AccountInv, Cancel
    PROVE  AccountInv'
<1>1. /\ AccountTypes /\ ErrandInv /\ TaskInv /\ errand' = [errand EXCEPT !.cancelled = TRUE]
      /\ UNCHANGED <<vault, connection, bot, setup, hostTask, grants, known, unsure, accountFaults>>
  BY DEF AccountInv, Cancel, credentialVars
<1>2. /\ errand' \in Errand /\ errand'.op = errand.op /\ errand'.at = errand.at /\ errand'.id = errand.id
      /\ errand'.grant = errand.grant /\ errand'.due = errand.due /\ errand'.failed = errand.failed
      /\ errand'.task = errand.task
  BY <1>1 DEF AccountTypes, Errand
<1>3. AccountTypes' /\ GrantInv' /\ NothingIsUsedWithout' /\ NothingIsForgotten' /\ StaysTrue
  <2>1. /\ setup' \in [SetupTask -> SetupRecord] /\ accountFaults' \in 0..CredentialFaults
        /\ hostTask' \in [task : SetupTask \cup {"none"}, status : Status, id : 0..GrantBound]
    BY <1>1 DEF AccountTypes
  <2>2. /\ grants' \in 0..GrantBound /\ grants <= grants'
        /\ errand'.grant <= grants' /\ \A t \in SetupTask : setup'[t].grant <= grants'
    BY <1>1, <1>2, GrantsKept
  <2> QED BY <1>1, <1>2, <2>1, <2>2, StandStill
<1>4. ErrandInv'
  <2>1. /\ ErrandInv /\ vault' = vault /\ connection' = connection /\ bot' = bot /\ unsure' = unsure
    BY <1>1
  <2>2. Unnamed(errand.grant)' <=> Unnamed(errand.grant)
    BY <1>1, <1>2 DEF Unnamed
  <2>3. Connected(errand.id)' <=> Connected(errand.id)
    BY <1>1, <1>2 DEF Connected
  <2>4. PlaceInv'
    BY <1>2, <2>1 DEF ErrandInv, PlaceInv
  <2>5. ConnectInv'
    BY <1>2, <2>1, <2>2, <2>3 DEF ErrandInv, ConnectInv
  <2>6. LeaveInv'
    BY <1>2, <2>1, <2>3 DEF ErrandInv, LeaveInv
  <2> QED BY <2>4, <2>5, <2>6 DEF ErrandInv
<1>5. TaskInv'
  BY <1>1, <1>2 DEF TaskInv
<1>6. TellInv'
  BY <1>1, <1>3, NothingTold
<1> QED BY <1>3, <1>4, <1>5, <1>6 DEF AccountInv

\* A task of the setup host begins.
LEMMA TasksBegin ==
    ASSUME AccountInv, BeginSetup \/ BeginCheck
    PROVE  AccountInv'
<1>1. PICK t \in SetupTask, chore \in Errand :
          /\ BeginTask(t, chore)
          /\ chore.grant = 0 /\ chore.due = {} /\ ~chore.failed
          /\ \/ chore.op = "connect" /\ chore.at = "authorize" /\ chore.id = 0
             \/ chore.op = "check" /\ chore.at = "check" /\ chore.id \in Grant
  <2>1. CASE BeginSetup
    <3> DEFINE chore == [NoErrand EXCEPT !.op = "connect", !.at = "authorize"]
    <3>1. chore \in Errand /\ chore.op = "connect" /\ chore.at = "authorize" /\ chore.id = 0
          /\ chore.grant = 0 /\ chore.due = {} /\ ~chore.failed
      BY NoErrandFacts DEF Errand
    <3>2. PICK t \in SetupTask : BeginTask(t, chore)
      BY <2>1 DEF BeginSetup
    <3> QED BY <3>1, <3>2
  <2>2. CASE BeginCheck
    <3>1. PICK t \in SetupTask, c \in Grant : BeginTask(t, [NoErrand EXCEPT !.op = "check", !.at = "check", !.id = c])
      BY <2>2 DEF BeginCheck
    <3> DEFINE chore == [NoErrand EXCEPT !.op = "check", !.at = "check", !.id = c]
    <3>2. chore \in Errand /\ chore.op = "check" /\ chore.at = "check" /\ chore.id \in Grant
          /\ chore.grant = 0 /\ chore.due = {} /\ ~chore.failed
      BY NoErrandFacts, GrantNumbers DEF Errand
    <3> QED BY <3>1, <3>2
  <2> QED BY <2>1, <2>2
<1>2. /\ AccountTypes /\ TellInv /\ errand = NoErrand /\ setup[t] = NoSetup
      /\ setup' = [setup EXCEPT ![t].status = "running"]
      /\ hostTask' = [task |-> t, status |-> "running", id |-> 0]
      /\ errand' = [chore EXCEPT !.task = t]
      /\ UNCHANGED <<vault, connection, bot, grants, known, unsure, accountFaults>>
  BY <1>1 DEF AccountInv, BeginTask, Unoccupied, credentialVars
<1>3. /\ errand' \in Errand /\ errand'.op = chore.op /\ errand'.at = chore.at /\ errand'.id = chore.id
      /\ errand'.grant = 0 /\ errand'.due = {} /\ ~errand'.failed /\ errand'.task = t
  BY <1>1, <1>2 DEF Errand
<1>4. /\ setup' \in [SetupTask -> SetupRecord]
      /\ setup'[t].status = "running" /\ setup'[t].grant = setup[t].grant /\ setup'[t].id = setup[t].id
      /\ \A u \in SetupTask \ {t} : setup'[u] = setup[u]
  BY <1>2 DEF AccountTypes, SetupRecord, Status
<1>5. /\ hostTask' \in [task : SetupTask \cup {"none"}, status : Status, id : 0..GrantBound]
      /\ hostTask'.task = t /\ hostTask'.status = "running"
  BY <1>2, GrantNumbers DEF Status
<1>6. setup[t].grant = 0 /\ "running" \notin Told /\ "running" # "connected" /\ "running" \in Begun
  BY <1>2 DEF NoSetup, Told, Begun
<1>7. AccountTypes' /\ GrantInv' /\ NothingIsUsedWithout' /\ NothingIsForgotten'
  <2>1. accountFaults' \in 0..CredentialFaults
    BY <1>2 DEF AccountTypes
  <2>2. /\ grants' \in 0..GrantBound /\ grants <= grants'
        /\ errand'.grant <= grants' /\ \A u \in SetupTask : setup'[u].grant <= grants'
    BY <1>2, <1>3, <1>4, GrantsKept
  <2> QED BY <1>2, <1>3, <1>4, <1>5, <2>1, <2>2, StandStill
<1>8. ErrandInv'
  BY <1>1, <1>3 DEF ErrandInv, PlaceInv, ConnectInv, LeaveInv
<1>9. TaskInv'
  BY <1>1, <1>3, <1>4, <1>5, <1>6 DEF TaskInv
<1>10. TellInv'
  BY <1>2, <1>4, <1>5, <1>6 DEF TellInv, Connected, NotUsed
<1> QED BY <1>7, <1>8, <1>9, <1>10 DEF AccountInv

\* The owner signs in: the grant is a new one.
LEMMA AuthorizeInv ==
    ASSUME AccountInv, Authorize
    PROVE  AccountInv'
<1>1. /\ AccountTypes /\ GrantInv /\ ErrandInv /\ TaskInv /\ TellInv
      /\ errand.op = "connect" /\ errand.at = "authorize" /\ grants < GrantBound /\ grants' = grants + 1
      /\ UNCHANGED <<vault, connection, bot, known, unsure, accountFaults>>
  BY DEF AccountInv, Authorize, Stands, credentialVars
<1>2. grants \in 0..GrantBound /\ grants' \in 0..GrantBound /\ grants <= grants' /\ grants' \in Grant /\ grants < grants'
  BY <1>1, GrantNumbers DEF AccountTypes, Grant
<1>3. PICK g \in Grant : g = grants'
  BY <1>2
<1>4. errand' = [errand EXCEPT !.at = "client", !.grant = g, !.id = IF @ = 0 THEN g ELSE @]
  BY <1>3 DEF Authorize
<1>5. /\ errand' \in Errand /\ errand'.op = "connect" /\ errand'.at = "client" /\ errand'.grant = g
      /\ errand'.id = (IF errand.id = 0 THEN g ELSE errand.id)
      /\ errand'.due = errand.due /\ errand'.task = errand.task
  <2>1. errand \in Errand /\ g \in 0..GrantBound
    BY <1>1, GrantNumbers DEF AccountTypes
  <2> QED BY <1>1, <1>4, <2>1 DEF Errand
<1>6. /\ setup' \in [SetupTask -> SetupRecord]
      /\ \A t \in SetupTask \ {errand.task} : setup'[t] = setup[t]
      /\ errand.task # "none" => setup'[errand.task].status = "awaiting_auth" /\ setup'[errand.task].grant = g
  <2>1. errand.task \in SetupTask \cup {"none"} /\ setup \in [SetupTask -> SetupRecord] /\ g \in 0..GrantBound
    BY <1>1, GrantNumbers DEF AccountTypes, Errand
  <2>2. CASE errand.task = "none"
    BY <2>1, <2>2 DEF Authorize
  <2>3. CASE errand.task # "none"
    <3>1. setup' = [setup EXCEPT ![errand.task].status = "awaiting_auth", ![errand.task].grant = g]
      BY <1>3, <2>3 DEF Authorize
    <3>2. "awaiting_auth" \in Status
      BY DEF Status
    <3> QED BY <2>1, <2>3, <3>1, <3>2 DEF SetupRecord
  <2> QED BY <2>2, <2>3
<1>7. /\ hostTask' \in [task : SetupTask \cup {"none"}, status : Status, id : 0..GrantBound]
      /\ errand.task = "none" => hostTask' = hostTask
      /\ errand.task # "none" => hostTask'.task = errand.task /\ hostTask'.status = "awaiting_auth"
  <2>1. hostTask \in [task : SetupTask \cup {"none"}, status : Status, id : 0..GrantBound]
    BY <1>1 DEF AccountTypes
  <2>2. CASE errand.task = "none"
    BY <2>1, <2>2 DEF Authorize
  <2>3. CASE errand.task # "none"
    <3>1. hostTask' = [hostTask EXCEPT !.status = "awaiting_auth"] /\ hostTask.task = errand.task
      BY <1>1, <2>3 DEF Authorize, TaskInv
    <3>2. "awaiting_auth" \in Status
      BY DEF Status
    <3> QED BY <2>1, <2>3, <3>1, <3>2
  <2> QED BY <2>2, <2>3
<1>8. \A t \in SetupTask : setup[t].grant \in Nat /\ setup[t].grant <= grants
  BY <1>1, GrantNumbers DEF AccountTypes, SetupRecord, GrantInv
<1>9. AccountTypes' /\ GrantInv' /\ NothingIsUsedWithout' /\ NothingIsForgotten' /\ StaysTrue
  <2>1. accountFaults' \in 0..CredentialFaults /\ grants \in Nat /\ grants' \in Nat
    BY <1>1, GrantNumbers DEF AccountTypes
  <2>2. errand.task \in SetupTask \cup {"none"}
    BY <1>1 DEF AccountTypes, Errand
  <2>3. errand'.grant <= grants' /\ \A t \in SetupTask : setup'[t].grant <= grants'
    BY GrantNumbers, <1>2, <1>3, <1>5, <1>6, <1>8, <2>1, <2>2
  <2> QED BY <1>1, <1>2, <1>5, <1>6, <1>7, <2>1, <2>3, StandStill
<1>10. ErrandInv'
  <2>1. \A e \in known : e[1] # g
    <3>1. \A e \in known : e \in Entry /\ e[1] <= grants
      BY <1>1 DEF AccountTypes, GrantInv
    <3>2. \A e \in Entry : e[1] \in Nat
      BY GrantNumbers DEF Entry, Grant
    <3> QED BY <1>2, <1>3, <3>1, <3>2
  <2>2. errand'.id \in Grant /\ errand'.due = {} /\ known' = known
    BY <1>1, <1>5, GrantNumbers DEF ErrandInv, PlaceInv, ConnectInv, LeaveInv, AccountTypes, Errand
  <2> QED BY <1>5, <2>1, <2>2 DEF ErrandInv, PlaceInv, ConnectInv, LeaveInv, Unnamed
<1>11. TaskInv'
  <2>1. "awaiting_auth" \in Begun
    BY DEF Begun
  <2>2. \A t \in SetupTask : setup[t].grant # g
    BY <1>2, <1>3, <1>8
  <2>3. errand.task # "none" => errand.id = 0
    BY <1>1 DEF TaskInv
  <2> QED BY <1>5, <1>6, <1>7, <2>1, <2>2, <2>3 DEF TaskInv
<1>12. TellInv'
  <2>1. "awaiting_auth" \notin Told /\ "awaiting_auth" # "connected"
    BY DEF Told
  <2>2. UNCHANGED <<connection, unsure>>
    BY <1>1
  <2>3. errand.task \in SetupTask \cup {"none"}
    BY <1>1 DEF AccountTypes, Errand
  <2>4. \A t \in SetupTask : setup'[t] = setup[t] \/ setup'[t].status = "awaiting_auth"
    BY GrantNumbers, <1>6, <2>3
  <2>5. (hostTask' = hostTask /\ setup' = setup) \/ hostTask'.status = "awaiting_auth"
    BY <1>7 DEF Authorize
  <2> QED BY <1>1, <2>1, <2>2, <2>4, <2>5 DEF TellInv, Connected, NotUsed
<1> QED BY <1>9, <1>10, <1>11, <1>12 DEF AccountInv

-----------------------------------------------------------------------------
\* A command with a task goes on: nothing is told, and its grant stays its own.
LEMMA GoesOn ==
    ASSUME AccountInv, NEW step, NEW due \in SUBSET Entry, GoTo(step, due), StaysTrue,
           step \in {"refresh", "save", "undo", "retire", "revoke", "delete", "bind", "owner"},
           errand.at \notin {"authorize", "check"}
    PROVE  /\ errand' \in Errand /\ errand'.at = step /\ errand'.due = due
           /\ errand'.op = errand.op /\ errand'.id = errand.id /\ errand'.grant = errand.grant
           /\ errand'.failed = errand.failed /\ errand'.task = errand.task
           /\ UNCHANGED <<setup, hostTask>> /\ TaskInv' /\ TellInv'
<1>1. AccountTypes /\ TaskInv
  BY DEF AccountInv
<1>2. /\ errand' \in Errand /\ errand'.at = step /\ errand'.due = due
      /\ errand'.op = errand.op /\ errand'.id = errand.id /\ errand'.grant = errand.grant
      /\ errand'.failed = errand.failed /\ errand'.task = errand.task
      /\ UNCHANGED <<setup, hostTask>>
  BY <1>1, GoToFacts
<1>3. TaskInv'
  BY <1>1, <1>2 DEF TaskInv
<1>4. TellInv'
  BY <1>2, NothingTold
<1> QED BY <1>2, <1>3, <1>4

\* A step that may add one entry to the store, which no file has named.
LEMMA EntryAdded ==
    ASSUME AccountInv, UNCHANGED <<connection, bot, known, unsure, grants>>,
           NEW entry \in Entry, entry \notin known, vault' = vault \/ vault' = vault \cup {entry},
           accountFaults' \in 0..CredentialFaults,
           errand' \in Errand, errand'.grant = 0 \/ errand'.grant = errand.grant,
           setup' \in [SetupTask -> SetupRecord], \A t \in SetupTask : setup'[t].grant = setup[t].grant,
           hostTask' \in [task : SetupTask \cup {"none"}, status : Status, id : 0..GrantBound]
    PROVE  AccountTypes' /\ GrantInv' /\ NothingIsUsedWithout' /\ NothingIsForgotten'
<1>1. AccountTypes /\ GrantInv /\ NothingIsUsedWithout /\ NothingIsForgotten
  BY DEF AccountInv
<1>2. /\ grants' \in 0..GrantBound /\ grants <= grants'
      /\ errand'.grant <= grants' /\ \A t \in SetupTask : setup'[t].grant <= grants'
  BY GrantsKept
<1>3. vault \subseteq vault' /\ vault' \subseteq Entry /\ known \cap vault' = known \cap vault
  BY <1>1 DEF AccountTypes
<1>4. AccountTypes'
  BY <1>1, <1>2, <1>3 DEF AccountTypes
<1>5. GrantInv'
  <2>1. \A e \in known' : e[1] <= grants' /\ e[2] # "token"
    BY <1>1 DEF GrantInv
  <2> QED BY <1>1, <1>2, <2>1 DEF GrantInv, Connected
<1>6. NothingIsUsedWithout'
  BY <1>1, <1>3 DEF NothingIsUsedWithout, Opens
<1>7. NothingIsForgotten'
  BY <1>1, <1>3 DEF NothingIsForgotten
<1> QED BY <1>4, <1>5, <1>6, <1>7

\* A write is tried, and the command ends, or goes on to a place that allows for it.
LEMMA WriteTried ==
    ASSUME AccountInv, UNCHANGED <<connection, bot, known, unsure, grants>>,
           NEW entry \in Entry, entry \notin known, Writes(entry) \/ FailsToWrite(entry),
           errand.at \in {"client", "refresh", "token"}, errand.at = "token" => errand.op = "pair"
    PROVE  /\ Return(0) => AccountInv'
           /\ \A step \in {"refresh", "save", "undo", "bind"}, due \in SUBSET Entry :
                 GoTo(step, due) /\ ErrandInv' => AccountInv'
<1>1. AccountTypes /\ TaskInv
  BY DEF AccountInv
<1>2. accountFaults' \in 0..CredentialFaults /\ (vault' = vault \/ vault' = vault \cup {entry})
  <2>1. (Fault \/ NoFault) /\ (vault' = vault \/ vault' = vault \cup {entry})
    BY DEF Writes, FailsToWrite
  <2> QED BY <1>1, <2>1, Faults
<1>3. StaysTrue
  BY FilesKept
<1>4. ASSUME Return(0) PROVE AccountInv'
  <2>1. \A g \in Grant : errand.task \in SetupTask /\ g = setup[errand.task].grant => NotUsed(g)'
    <3>1. errand.task # "none" => errand.at \in {"client", "refresh"}
      BY <1>1 DEF TaskInv
    <3>2. errand.task # "none" => NotUsed(setup[errand.task].grant)
      BY <3>1, ReturnedInVain
    <3>3. UNCHANGED <<connection, unsure>>
      OBVIOUS
    <3> QED BY <3>2, <3>3, GrantNumbers DEF NotUsed
  <2>2. 0 \in 0..GrantBound
    BY GrantNumbers
  <2>3. /\ errand' = NoErrand /\ ErrandInv' /\ TaskInv' /\ TellInv'
        /\ setup' \in [SetupTask -> SetupRecord]
        /\ hostTask' \in [task : SetupTask \cup {"none"}, status : Status, id : 0..GrantBound]
        /\ \A t \in SetupTask : setup'[t].grant = setup[t].grant
    BY <1>3, <1>4, <2>1, <2>2, Returns
  <2>4. errand' \in Errand /\ errand'.grant = 0
    BY <2>3, NoErrandFacts
  <2>5. AccountTypes' /\ GrantInv' /\ NothingIsUsedWithout' /\ NothingIsForgotten'
    BY <1>2, <2>3, <2>4, EntryAdded
  <2> QED BY <2>3, <2>5 DEF AccountInv
<1>5. ASSUME NEW step \in {"refresh", "save", "undo", "bind"}, NEW due \in SUBSET Entry, GoTo(step, due), ErrandInv'
      PROVE  AccountInv'
  <2>1. /\ errand' \in Errand /\ errand'.grant = errand.grant
        /\ UNCHANGED <<setup, hostTask>> /\ TaskInv' /\ TellInv'
    BY <1>3, <1>5, GoesOn
  <2>2. /\ setup' \in [SetupTask -> SetupRecord] /\ \A t \in SetupTask : setup'[t].grant = setup[t].grant
        /\ hostTask' \in [task : SetupTask \cup {"none"}, status : Status, id : 0..GrantBound]
    BY <1>1, <2>1 DEF AccountTypes
  <2>3. AccountTypes' /\ GrantInv' /\ NothingIsUsedWithout' /\ NothingIsForgotten'
    BY <1>2, <2>1, <2>2, EntryAdded
  <2> QED BY <1>5, <2>1, <2>3 DEF AccountInv
<1> QED BY <1>4, <1>5

\* The two secrets of a connection are written, and the token of the bot.
LEMMA SetSecretInv ==
    ASSUME AccountInv, SetClient \/ SetRefresh
    PROVE  AccountInv'
<1>1. /\ AccountTypes /\ GrantInv /\ ErrandInv
      /\ errand.op = "connect" /\ errand.at \in {"client", "refresh"}
      /\ UNCHANGED <<connection, bot, known, unsure, grants>>
  BY DEF AccountInv, SetClient, SetRefresh, Stands
<1>2. PICK g \in Grant : g = errand.grant
  BY <1>1 DEF ErrandInv, ConnectInv, Unnamed
<1>3. Unnamed(g) /\ errand.id \in Grant /\ errand.due = {}
  BY <1>1, <1>2 DEF ErrandInv, ConnectInv
<1>4. \A x \in {"client", "refresh"} : <<g, x>> \in Entry /\ <<g, x>> \notin known
  <2>1. ASSUME NEW x \in {"client", "refresh"} PROVE <<g, x>> \in Entry /\ <<g, x>> \notin known
    <3>1. <<g, x>> \in Entry /\ <<g, x>>[1] = g
      BY DEF Entry
    <3> QED BY <1>3, <3>1 DEF Unnamed
  <2> QED BY <2>1
<1>5. Unnamed(g)' /\ \A c \in Grant : connection[c].grant # g
  BY <1>1, <1>3, UnnamedIsUnused DEF Unnamed
<1>6. Pair(g) = {<<g, "client">>, <<g, "refresh">>} /\ Pair(g) \in SUBSET Entry /\ {} \in SUBSET Entry
  BY PairFacts
<1>7. CASE SetClient
  <2> DEFINE entry == <<g, "client">>
  <2>1. /\ \/ Writes(entry) /\ GoTo("refresh", {})
           \/ FailsToWrite(entry) /\ Return(0)
        /\ errand.at = "client"
    BY <1>2, <1>7 DEF SetClient, Stands
  <2>2. CASE Writes(entry) /\ GoTo("refresh", {})
    <3>1. /\ errand'.at = "refresh" /\ errand'.due = {} /\ errand'.op = errand.op /\ errand'.id = errand.id
          /\ errand'.grant = errand.grant
      BY <1>1, <1>6, <2>2, GoToFacts
    <3>2. <<g, "client">> \in vault'
      BY <2>2 DEF Writes
    <3>3. ErrandInv'
      BY <1>1, <1>2, <1>3, <1>5, <3>1, <3>2 DEF ErrandInv, PlaceInv, ConnectInv, LeaveInv
    <3> QED BY <1>1, <1>4, <1>6, <2>2, <3>3, WriteTried
  <2>3. CASE FailsToWrite(entry) /\ Return(0)
    BY <1>1, <1>4, <2>3, WriteTried
  <2> QED BY <2>1, <2>2, <2>3
<1>8. CASE SetRefresh
  <2> DEFINE entry == <<g, "refresh">>
  <2>1. /\ \/ Writes(entry) /\ GoTo("save", {})
           \/ FailsToWrite(entry) /\ GoTo("undo", Pair(g))
        /\ errand.at = "refresh"
    BY <1>2, <1>8 DEF SetRefresh, Stands
  <2>2. CASE Writes(entry) /\ GoTo("save", {})
    <3>1. /\ errand'.at = "save" /\ errand'.due = {} /\ errand'.op = errand.op /\ errand'.id = errand.id
          /\ errand'.grant = errand.grant
      BY <1>1, <1>6, <2>2, GoToFacts
    <3>2. Pair(g) \subseteq vault'
      <4>1. <<g, "client">> \in vault
        BY <1>1, <1>2, <2>1 DEF ErrandInv, ConnectInv
      <4>2. vault' = vault \cup {<<g, "refresh">>}
        BY <2>2 DEF Writes
      <4> QED BY <1>6, <4>1, <4>2
    <3>3. ErrandInv'
      BY <1>1, <1>2, <1>3, <1>5, <3>1, <3>2 DEF ErrandInv, PlaceInv, ConnectInv, LeaveInv
    <3> QED BY <1>1, <1>4, <1>6, <2>2, <3>3, WriteTried
  <2>3. CASE FailsToWrite(entry) /\ GoTo("undo", Pair(g))
    <3>1. /\ errand'.at = "undo" /\ errand'.due = Pair(g) /\ errand'.op = errand.op /\ errand'.id = errand.id
          /\ errand'.grant = errand.grant
      BY <1>1, <1>6, <2>3, GoToFacts
    <3>2. ErrandInv'
      BY <1>1, <1>2, <1>5, <3>1 DEF ErrandInv, PlaceInv, ConnectInv, LeaveInv
    <3> QED BY <1>1, <1>4, <1>6, <2>3, <3>2, WriteTried
  <2> QED BY <2>1, <2>2, <2>3
<1> QED BY <1>7, <1>8

LEMMA SetTokenInv ==
    ASSUME AccountInv, SetToken
    PROVE  AccountInv'
<1>1. /\ AccountTypes /\ GrantInv /\ ErrandInv
      /\ errand.op = "pair" /\ errand.at = "token"
      /\ UNCHANGED <<connection, bot, known, unsure, grants>>
  BY DEF AccountInv, SetToken, Stands
<1>2. PICK g \in Grant : g = errand.grant
  BY <1>1 DEF ErrandInv, LeaveInv
<1>3. bot.grant = 0
  BY <1>1 DEF ErrandInv, LeaveInv
<1> DEFINE entry == <<g, "token">>
<1>4. entry \in Entry /\ entry \notin known
  <2>1. entry \in Entry /\ entry[2] = "token"
    BY DEF Entry
  <2> QED BY <1>1, <2>1 DEF GrantInv
<1>5. \/ Writes(entry) /\ GoTo("bind", {})
      \/ FailsToWrite(entry) /\ Return(0)
  BY <1>2 DEF SetToken
<1>6. CASE Writes(entry) /\ GoTo("bind", {})
  <2>1. {} \in SUBSET Entry
    OBVIOUS
  <2>2. /\ errand'.at = "bind" /\ errand'.due = {} /\ errand'.op = errand.op /\ errand'.id = errand.id
        /\ errand'.grant = errand.grant
    BY <1>1, <1>6, <2>1, GoToFacts
  <2>3. <<g, "token">> \in vault'
    BY <1>6 DEF Writes
  <2>4. ErrandInv'
    BY <1>1, <1>2, <1>3, <2>2, <2>3 DEF ErrandInv, PlaceInv, ConnectInv, LeaveInv
  <2> QED BY <1>1, <1>4, <1>6, <2>1, <2>4, WriteTried
<1>7. CASE FailsToWrite(entry) /\ Return(0)
  BY <1>1, <1>4, <1>7, WriteTried
<1> QED BY <1>5, <1>6, <1>7

-----------------------------------------------------------------------------
\* The file of a connection is written: it names what the connection named and is still
\* there, and only entries of grants that no other connection has used.
LEMMA FileSaved ==
    ASSUME AccountInv, NEW c \in Grant, NEW file \in Connection,
           connection' = [connection EXCEPT ![c] = file], known' = known \cup Names(file),
           UNCHANGED <<vault, bot, grants>>, unsure' \subseteq Grant, unsure \ {c} \subseteq unsure',
           file.enabled => file.grant # 0,
           \A e \in Names(file) : e[1] <= grants /\ e[2] # "token",
           \A e \in file.retired : e[1] # file.grant,
           \A d \in Grant \ {c} : \A e \in Names(file), f \in Names(connection[d]) : e[1] # f[1],
           file.enabled => c \in unsure' \/ Pair(file.grant) \subseteq vault,
           Names(connection[c]) \cap vault \subseteq Names(file),
           accountFaults' \in 0..CredentialFaults,
           errand' \in Errand, errand'.grant = 0 \/ errand'.grant = errand.grant,
           setup' \in [SetupTask -> SetupRecord], \A t \in SetupTask : setup'[t].grant = setup[t].grant,
           hostTask' \in [task : SetupTask \cup {"none"}, status : Status, id : 0..GrantBound]
    PROVE  AccountTypes' /\ GrantInv' /\ NothingIsUsedWithout' /\ NothingIsForgotten'
<1>1. AccountTypes /\ GrantInv /\ NothingIsUsedWithout /\ NothingIsForgotten
  BY DEF AccountInv
<1>2. /\ grants' \in 0..GrantBound /\ grants <= grants'
      /\ errand'.grant <= grants' /\ \A t \in SetupTask : setup'[t].grant <= grants'
  BY GrantsKept
<1>3. /\ connection' \in [Grant -> Connection] /\ connection'[c] = file
      /\ \A d \in Grant \ {c} : connection'[d] = connection[d]
  BY <1>1 DEF AccountTypes
<1>4. Names(file) \subseteq Entry
  BY NamesFacts
<1>5. AccountTypes'
  BY <1>1, <1>2, <1>3, <1>4 DEF AccountTypes
<1>6. GrantInv'
  <2>1. \A e \in known' : e[1] <= grants' /\ e[2] # "token"
    BY <1>1 DEF GrantInv
  <2>2. ASSUME NEW d \in Grant
        PROVE  /\ Names(connection'[d]) \subseteq known'
               /\ connection'[d].enabled => connection'[d].grant # 0
               /\ \A e \in connection'[d].retired : e[1] # connection'[d].grant
    <3>1. CASE d = c
      BY <1>3, <3>1
    <3>2. CASE d # c
      <4>1. /\ Names(connection[d]) \subseteq known
            /\ connection[d].enabled => connection[d].grant # 0
            /\ \A e \in connection[d].retired : e[1] # connection[d].grant
        BY <1>1 DEF GrantInv, Connected
      <4> QED BY <1>3, <3>2, <4>1
    <3> QED BY <3>1, <3>2
  <2>3. ASSUME NEW a \in Grant, NEW d \in Grant,
               NEW e \in Names(connection'[a]), NEW f \in Names(connection'[d]), e[1] = f[1]
        PROVE  a = d
    <3>1. CASE a = c /\ d # c
      BY <1>3, <2>3, <3>1
    <3>2. CASE a # c /\ d = c
      BY <1>3, <2>3, <3>2
    <3>3. CASE a # c /\ d # c
      <4>1. e \in Names(connection[a]) /\ f \in Names(connection[d])
        BY <1>3, <3>3
      <4> QED BY <1>1, <2>3, <4>1 DEF GrantInv
    <3> QED BY <3>1, <3>2, <3>3
  <2>4. errand'.grant <= grants' /\ \A t \in SetupTask : setup'[t].grant <= grants'
    BY <1>2
  <2> QED BY <2>1, <2>2, <2>3, <2>4 DEF GrantInv, Connected
<1>7. NothingIsUsedWithout'
  <2>1. ASSUME NEW d \in Grant \ unsure', connection'[d].enabled PROVE Pair(connection'[d].grant) \subseteq vault'
    <3>1. CASE d = c
      BY <1>3, <2>1, <3>1
    <3>2. CASE d # c
      BY <1>1, <1>3, <2>1, <3>2 DEF NothingIsUsedWithout, Opens
    <3> QED BY <3>1, <3>2
  <2>2. bot.grant # 0 => <<bot.grant, "token">> \in vault
    BY <1>1 DEF NothingIsUsedWithout
  <2> QED BY <2>1, <2>2 DEF NothingIsUsedWithout, Opens
<1>8. NothingIsForgotten'
  <2>1. ASSUME NEW e \in known' \cap vault' PROVE \E d \in Grant : e \in Names(connection'[d])
    <3>1. CASE e \in Names(file)
      BY <1>3, <3>1
    <3>2. CASE e \in known /\ e \in vault
      <4>1. PICK d \in Grant : e \in Names(connection[d])
        BY <1>1, <3>2, Remembered
      <4> QED BY <1>3, <3>2, <4>1
    <3> QED BY <2>1, <3>1, <3>2
  <2> QED BY <2>1, RememberedNext
<1> QED BY <1>5, <1>6, <1>7, <1>8

\* A command ends after a step on the credentials.
LEMMA ReturnInv ==
    ASSUME AccountInv, NEW id \in 0..GrantBound, Return(id), StaysTrue, id # 0 => Connected(id)',
           \A g \in Grant : errand.task \in SetupTask /\ id = 0 /\ g = setup[errand.task].grant => NotUsed(g)'
    PROVE  /\ errand' \in Errand /\ errand'.grant = 0
           /\ setup' \in [SetupTask -> SetupRecord] /\ \A t \in SetupTask : setup'[t].grant = setup[t].grant
           /\ hostTask' \in [task : SetupTask \cup {"none"}, status : Status, id : 0..GrantBound]
           /\ (AccountTypes' /\ GrantInv' /\ NothingIsUsedWithout' /\ NothingIsForgotten') => AccountInv'
<1>1. /\ errand' = NoErrand /\ ErrandInv' /\ TaskInv' /\ TellInv'
      /\ setup' \in [SetupTask -> SetupRecord]
      /\ hostTask' \in [task : SetupTask \cup {"none"}, status : Status, id : 0..GrantBound]
      /\ \A t \in SetupTask : setup'[t].grant = setup[t].grant
  BY Returns
<1> QED BY <1>1, NoErrandFacts DEF AccountInv

\* A command goes on after a step on the credentials.
LEMMA GoesOnInv ==
    ASSUME AccountInv, NEW step, NEW due \in SUBSET Entry, GoTo(step, due), StaysTrue,
           step \in {"refresh", "save", "undo", "retire", "revoke", "delete", "bind", "owner"},
           errand.at \notin {"authorize", "check"}
    PROVE  /\ errand' \in Errand /\ errand'.at = step /\ errand'.due = due
           /\ errand'.op = errand.op /\ errand'.id = errand.id /\ errand'.grant = errand.grant
           /\ errand'.failed = errand.failed
           /\ setup' \in [SetupTask -> SetupRecord] /\ \A t \in SetupTask : setup'[t].grant = setup[t].grant
           /\ hostTask' \in [task : SetupTask \cup {"none"}, status : Status, id : 0..GrantBound]
           /\ (AccountTypes' /\ GrantInv' /\ ErrandInv' /\ NothingIsUsedWithout' /\ NothingIsForgotten') => AccountInv'
<1>1. AccountTypes
  BY DEF AccountInv
<1> QED BY <1>1, GoesOn DEF AccountInv, AccountTypes

\* The file of a connection is written anew, or not: its grant stays, it is perhaps disabled,
\* and what it no longer names is no longer there.
Trimmed(c, file) ==
    /\ file \in Connection /\ file.grant = connection[c].grant
    /\ file.enabled => connection[c].enabled
    /\ file.retired \subseteq connection[c].retired /\ connection[c].retired \cap vault \subseteq file.retired
    /\ \/ UNCHANGED <<connection, known>>
       \/ connection' = [connection EXCEPT ![c] = file] /\ known' = known \cup Names(file)
    /\ UNCHANGED <<vault, bot, grants, unsure>>

LEMMA TrimmedStaysTrue ==
    ASSUME AccountInv, NEW c \in Grant, NEW file, Trimmed(c, file)
    PROVE  StaysTrue /\ (Connected(c) => Connected(c)')
<1>1. AccountTypes /\ unsure' = unsure
  BY DEF AccountInv, Trimmed
<1>2. ASSUME NEW d \in Grant
      PROVE  connection'[d].grant = connection[d].grant /\ (connection'[d].enabled => connection[d].enabled)
  BY <1>1 DEF Trimmed, AccountTypes
<1> QED BY <1>1, <1>2 DEF StaysTrue, Connected, NotUsed

LEMMA TrimmedInv ==
    ASSUME AccountInv, NEW c \in Grant, NEW file, Trimmed(c, file), Connected(c),
           accountFaults' \in 0..CredentialFaults,
           errand' \in Errand, errand'.grant = 0 \/ errand'.grant = errand.grant,
           setup' \in [SetupTask -> SetupRecord], \A t \in SetupTask : setup'[t].grant = setup[t].grant,
           hostTask' \in [task : SetupTask \cup {"none"}, status : Status, id : 0..GrantBound]
    PROVE  AccountTypes' /\ GrantInv' /\ NothingIsUsedWithout' /\ NothingIsForgotten'
<1>1. AccountTypes /\ GrantInv /\ NothingIsUsedWithout /\ connection[c] \in Connection /\ connection[c].grant # 0
  BY DEF AccountInv, AccountTypes, Connected
<1>2. CASE UNCHANGED <<connection, known>>
  <2>1. UNCHANGED <<vault, connection, bot, known, unsure>> /\ grants' = grants
    BY <1>2 DEF Trimmed
  <2>2. /\ grants' \in 0..GrantBound /\ grants <= grants'
        /\ errand'.grant <= grants' /\ \A t \in SetupTask : setup'[t].grant <= grants'
    BY <2>1, GrantsKept
  <2> QED BY <2>1, <2>2, StandStill
<1>3. CASE connection' = [connection EXCEPT ![c] = file] /\ known' = known \cup Names(file)
  <2>1. /\ file \in Connection /\ file.grant = connection[c].grant /\ (file.enabled => connection[c].enabled)
        /\ file.retired \subseteq connection[c].retired /\ connection[c].retired \cap vault \subseteq file.retired
        /\ vault' = vault /\ bot' = bot /\ grants' = grants /\ unsure' = unsure
    BY DEF Trimmed
  <2>2. /\ Names(file) = file.retired \cup Pair(file.grant)
        /\ Names(connection[c]) = connection[c].retired \cup Pair(file.grant)
    BY <1>1, <2>1, NamesFacts
  <2>3. Names(file) \subseteq Names(connection[c]) /\ Names(connection[c]) \cap vault \subseteq Names(file)
    BY <2>1, <2>2
  <2>4. \A e \in Names(file) : e[1] <= grants /\ e[2] # "token"
    BY <1>1, <2>3 DEF GrantInv
  <2>5. \A e \in file.retired : e[1] # file.grant
    BY <1>1, <2>1 DEF GrantInv
  <2>6. \A d \in Grant \ {c} : \A e \in Names(file), f \in Names(connection[d]) : e[1] # f[1]
    BY <1>1, <2>3 DEF GrantInv
  <2>7. file.enabled => c \in unsure' \/ Pair(file.grant) \subseteq vault
    BY <1>1, <2>1 DEF NothingIsUsedWithout, Opens
  <2>8. unsure' \subseteq Grant /\ unsure \ {c} \subseteq unsure' /\ (file.enabled => file.grant # 0)
    BY <1>1, <2>1 DEF AccountTypes
  <2> QED BY <1>3, <2>1, <2>3, <2>4, <2>5, <2>6, <2>7, <2>8, FileSaved
<1> QED BY <1>2, <1>3 DEF Trimmed

\* A file is disabled before its entries are deleted.
LEMMA DisableInv ==
    ASSUME AccountInv, Disable
    PROVE  AccountInv'
<1>1. /\ AccountTypes /\ ErrandInv /\ TaskInv /\ errand.op = "disconnect" /\ errand.at = "disable"
      /\ UNCHANGED <<vault, bot, grants, unsure>>
  BY DEF AccountInv, Disable, Stands
<1>2. PICK c \in Grant : c = errand.id
  BY <1>1 DEF ErrandInv, LeaveInv
<1>3. Connected(c) /\ errand.task = "none"
  BY <1>1, <1>2 DEF ErrandInv, LeaveInv, TaskInv
<1>4. PICK file : file = [connection[c] EXCEPT !.enabled = FALSE]
  OBVIOUS
<1>5. \/ SavesFile(c, file) /\ (GoTo("delete", Names(file)) \/ GoTo("revoke", {}))
      \/ FailsToSaveFile(c, file) /\ Return(0)
  BY <1>2, <1>4 DEF Disable
<1>6. /\ file \in Connection /\ file.grant = connection[c].grant /\ file.enabled = FALSE
      /\ file.retired = connection[c].retired
  BY <1>1, <1>4 DEF AccountTypes, Connection
<1>7. Trimmed(c, file) /\ accountFaults' \in 0..CredentialFaults
  <2>1. /\ \/ UNCHANGED <<connection, known>>
           \/ connection' = [connection EXCEPT ![c] = file] /\ known' = known \cup Names(file)
        /\ Fault \/ NoFault
    BY <1>5 DEF SavesFile, FailsToSaveFile
  <2> QED BY <1>1, <1>6, <2>1, Faults DEF Trimmed
<1>8. StaysTrue /\ Connected(c)'
  BY <1>3, <1>7, TrimmedStaysTrue
<1>9. CASE SavesFile(c, file) /\ (GoTo("delete", Names(file)) \/ GoTo("revoke", {}))
  <2>1. connection'[c] = file
    BY <1>1, <1>9 DEF SavesFile, AccountTypes
  <2>2. PICK step \in {"delete", "revoke"}, due \in SUBSET Names(file) : GoTo(step, due) /\ (step = "revoke" => due = {})
    BY <1>9
  <2>3. due \in SUBSET Entry
    BY <1>6, <2>2, NamesFacts
  <2>4. /\ errand' \in Errand /\ errand'.at = step /\ errand'.due = due
        /\ errand'.op = errand.op /\ errand'.id = errand.id /\ errand'.grant = errand.grant
        /\ setup' \in [SetupTask -> SetupRecord] /\ \A t \in SetupTask : setup'[t].grant = setup[t].grant
        /\ hostTask' \in [task : SetupTask \cup {"none"}, status : Status, id : 0..GrantBound]
        /\ (AccountTypes' /\ GrantInv' /\ ErrandInv' /\ NothingIsUsedWithout' /\ NothingIsForgotten') => AccountInv'
    BY <1>1, <1>8, <2>2, <2>3, GoesOnInv
  <2>5. AccountTypes' /\ GrantInv' /\ NothingIsUsedWithout' /\ NothingIsForgotten'
    BY <1>3, <1>7, <2>4, TrimmedInv
  <2>6. ErrandInv'
    <3>1. connection'[errand'.id] = file /\ Connected(errand.id)' /\ errand'.id \in Grant
      BY <1>2, <1>8, <2>1, <2>4 DEF Connected
    <3>2. due \subseteq Names(connection'[errand'.id]) /\ ~connection'[errand'.id].enabled
      BY <1>6, <2>2, <3>1
    <3> QED BY <1>1, <2>2, <2>4, <3>1, <3>2 DEF ErrandInv, PlaceInv, ConnectInv, LeaveInv
  <2> QED BY <2>4, <2>5, <2>6
<1>10. CASE FailsToSaveFile(c, file) /\ Return(0)
  <2>1. "none" \notin SetupTask /\ 0 \in 0..GrantBound
    BY GrantNumbers
  <2>2. /\ errand' \in Errand /\ errand'.grant = 0
        /\ setup' \in [SetupTask -> SetupRecord] /\ \A t \in SetupTask : setup'[t].grant = setup[t].grant
        /\ hostTask' \in [task : SetupTask \cup {"none"}, status : Status, id : 0..GrantBound]
        /\ (AccountTypes' /\ GrantInv' /\ NothingIsUsedWithout' /\ NothingIsForgotten') => AccountInv'
    BY <1>3, <1>8, <1>10, <2>1, ReturnInv
  <2> QED BY <1>3, <1>7, <2>2, TrimmedInv
<1> QED BY <1>5, <1>9, <1>10

\* What was retired and is gone is no longer named.
LEMMA ForgetRetiredInv ==
    ASSUME AccountInv, ForgetRetired
    PROVE  AccountInv'
<1>1. /\ AccountTypes /\ ErrandInv /\ errand.op = "connect" /\ errand.at = "retire" /\ errand.due = {} /\ ~errand.failed
      /\ UNCHANGED <<vault, bot, grants, unsure>>
  BY DEF AccountInv, ForgetRetired, Stands
<1>2. PICK c \in Grant : c = errand.id
  BY <1>1 DEF ErrandInv, ConnectInv
<1>3. Connected(c) /\ connection[c].retired \cap vault = {}
  BY <1>1, <1>2 DEF ErrandInv, ConnectInv
<1>4. PICK file : file = [connection[c] EXCEPT !.retired = {}]
  OBVIOUS
<1>5. (SavesFile(c, file) \/ FailsToSaveFile(c, file)) /\ Return(c)
  BY <1>2, <1>4 DEF ForgetRetired
<1>6. /\ file \in Connection /\ file.grant = connection[c].grant /\ file.enabled = connection[c].enabled
      /\ file.retired = {}
  <2>1. connection[c] \in Connection /\ {} \in SUBSET Entry
    BY <1>1 DEF AccountTypes
  <2> QED BY <1>4, <2>1 DEF Connection
<1>7. Trimmed(c, file) /\ accountFaults' \in 0..CredentialFaults
  <2>1. /\ \/ UNCHANGED <<connection, known>>
           \/ connection' = [connection EXCEPT ![c] = file] /\ known' = known \cup Names(file)
        /\ Fault \/ NoFault
    BY <1>5 DEF SavesFile, FailsToSaveFile
  <2> QED BY <1>1, <1>3, <1>6, <2>1, Faults DEF Trimmed
<1>8. StaysTrue /\ Connected(c)' /\ c \in 0..GrantBound /\ c # 0
  BY <1>3, <1>7, TrimmedStaysTrue, GrantNumbers
<1>9. /\ errand' \in Errand /\ errand'.grant = 0
      /\ setup' \in [SetupTask -> SetupRecord] /\ \A t \in SetupTask : setup'[t].grant = setup[t].grant
      /\ hostTask' \in [task : SetupTask \cup {"none"}, status : Status, id : 0..GrantBound]
      /\ (AccountTypes' /\ GrantInv' /\ NothingIsUsedWithout' /\ NothingIsForgotten') => AccountInv'
  BY <1>5, <1>8, ReturnInv
<1> QED BY <1>3, <1>7, <1>9, TrimmedInv

\* The new grant is saved: what the connection named until now is retired.
LEMMA SaveGrantInv ==
    ASSUME AccountInv, SaveGrant
    PROVE  AccountInv'
<1>1. /\ AccountTypes /\ GrantInv /\ ErrandInv /\ TaskInv /\ errand.op = "connect" /\ errand.at = "save"
      /\ UNCHANGED <<vault, bot, grants>>
  BY DEF AccountInv, SaveGrant, Stands
<1>2. PICK c \in Grant, g \in Grant : c = errand.id /\ g = errand.grant
  BY <1>1 DEF ErrandInv, ConnectInv, Unnamed
<1>3. Unnamed(g) /\ Pair(g) \subseteq vault /\ g <= grants
  BY <1>1, <1>2 DEF ErrandInv, ConnectInv, GrantInv
<1>4. PICK file : file = [grant |-> g, enabled |-> TRUE, retired |-> Retired(c)]
  OBVIOUS
<1>5. /\ file \in Connection /\ file.grant = g /\ file.enabled = TRUE /\ file.retired = Names(connection[c])
      /\ Names(file) = file.retired \cup Pair(g)
  <2>1. Retired(c) = Names(connection[c]) /\ Names(connection[c]) \subseteq Entry /\ g \in 0..GrantBound /\ g # 0
    BY <1>1, GrantNumbers, NamesFacts DEF Retired, AccountTypes
  <2>2. file \in Connection /\ file.grant = g /\ file.enabled = TRUE /\ file.retired = Names(connection[c])
    BY <1>4, <2>1 DEF Connection
  <2> QED BY <2>1, <2>2, NamesFacts
<1>6. \/ /\ SavesFile(c, file) /\ unsure' = unsure \ {c}
         /\ \/ ~Connected(c) /\ Return(c)
            \/ GoTo("retire", file.retired)
      \/ /\ FailsToSaveFile(c, file) /\ GoTo("undo", Pair(g))
         /\ unsure' = IF connection' = connection THEN unsure ELSE unsure \cup {c}
  BY <1>2, <1>4 DEF SaveGrant
<1>7. accountFaults' \in 0..CredentialFaults
  <2>1. Fault \/ NoFault
    BY <1>6 DEF SavesFile, FailsToSaveFile
  <2> QED BY <1>1, <2>1, Faults
<1>8. \A d \in Grant : connection[d].grant # g
  BY <1>1, <1>3, UnnamedIsUnused
<1>9. /\ Names(connection[c]) \subseteq known
      /\ \A e \in Names(file) : e[1] <= grants /\ e[2] # "token"
      /\ \A e \in file.retired : e[1] # file.grant
      /\ \A d \in Grant \ {c} : \A e \in Names(file), f \in Names(connection[d]) : e[1] # f[1]
  <2>1. \A d \in Grant : Names(connection[d]) \subseteq known
    BY <1>1 DEF GrantInv
  <2>2. \A e \in known : e[1] # g /\ e[1] <= grants /\ e[2] # "token"
    BY <1>1, <1>3 DEF GrantInv, Unnamed
  <2>3. \A e \in Pair(g) : e[1] = g /\ e[2] # "token"
    BY PairFacts
  <2>4. \A e \in Names(file) : e[1] <= grants /\ e[2] # "token"
    BY <1>3, <1>5, <2>1, <2>2, <2>3
  <2>5. \A d \in Grant \ {c} : \A e \in Names(connection[c]), f \in Names(connection[d]) : e[1] # f[1]
    BY <1>1 DEF GrantInv
  <2>6. \A d \in Grant \ {c} : \A e \in Names(file), f \in Names(connection[d]) : e[1] # f[1]
    BY <1>5, <2>1, <2>2, <2>3, <2>5
  <2> QED BY <1>5, <2>1, <2>2, <2>4, <2>6
\* Another sign-in has another grant than this one.
<1>10. \A t \in SetupTask \ {errand.task} : setup[t].grant # 0 => setup[t].grant # g
  BY <1>1, <1>2 DEF TaskInv
<1>11. CASE connection' = [connection EXCEPT ![c] = file] /\ known' = known \cup Names(file)
            /\ (unsure' = unsure \ {c} \/ unsure' = unsure \cup {c})
  <2>1. connection'[c] = file /\ \A d \in Grant \ {c} : connection'[d] = connection[d]
    BY <1>1, <1>11 DEF AccountTypes
  <2>2. StaysTrue /\ Connected(c)'
    <3>1. \A d \in Grant : Connected(d) => Connected(d)'
      BY <1>5, <2>1, GrantNumbers DEF Connected
    <3>2. ASSUME NEW t \in SetupTask \ {errand.task}, NEW h \in Grant, h = setup[t].grant, NotUsed(h)
          PROVE  NotUsed(h)'
      <4>1. h # 0 /\ h # g
        BY <1>10, <3>2, GrantNumbers
      <4>2. CASE h = c
        BY <1>5, <2>1, <4>1, <4>2 DEF NotUsed
      <4>3. CASE h # c
        BY <1>11, <2>1, <3>2, <4>3 DEF NotUsed
      <4> QED BY <4>2, <4>3
    <3>3. Connected(c)'
      BY <1>5, <2>1, GrantNumbers DEF Connected
    <3> QED BY <3>1, <3>2, <3>3 DEF StaysTrue
  <2>3. unsure' \subseteq Grant /\ unsure \ {c} \subseteq unsure'
    BY <1>1, <1>11 DEF AccountTypes
  <2>4. ASSUME errand' \in Errand, errand'.grant = 0 \/ errand'.grant = errand.grant,
               setup' \in [SetupTask -> SetupRecord], \A t \in SetupTask : setup'[t].grant = setup[t].grant,
               hostTask' \in [task : SetupTask \cup {"none"}, status : Status, id : 0..GrantBound]
        PROVE  AccountTypes' /\ GrantInv' /\ NothingIsUsedWithout' /\ NothingIsForgotten'
    <3>1. file.grant # 0 /\ Pair(file.grant) \subseteq vault /\ Names(connection[c]) \cap vault \subseteq Names(file)
      BY <1>3, <1>5, GrantNumbers
    <3> QED BY <1>1, <1>5, <1>7, <1>9, <1>11, <2>3, <2>4, <3>1, FileSaved
  <2>5. CASE Return(c)
    <3>1. c \in 0..GrantBound /\ c # 0
      BY GrantNumbers
    <3>2. /\ errand' \in Errand /\ errand'.grant = 0
          /\ setup' \in [SetupTask -> SetupRecord] /\ \A t \in SetupTask : setup'[t].grant = setup[t].grant
          /\ hostTask' \in [task : SetupTask \cup {"none"}, status : Status, id : 0..GrantBound]
          /\ (AccountTypes' /\ GrantInv' /\ NothingIsUsedWithout' /\ NothingIsForgotten') => AccountInv'
      BY <2>2, <2>5, <3>1, ReturnInv
    <3> QED BY <2>4, <3>2
  <2>6. CASE GoTo("retire", file.retired)
    <3>1. file.retired \in SUBSET Entry
      BY <1>5 DEF Connection
    <3>2. /\ errand' \in Errand /\ errand'.at = "retire" /\ errand'.due = file.retired
          /\ errand'.op = errand.op /\ errand'.id = errand.id /\ errand'.grant = errand.grant
          /\ setup' \in [SetupTask -> SetupRecord] /\ \A t \in SetupTask : setup'[t].grant = setup[t].grant
          /\ hostTask' \in [task : SetupTask \cup {"none"}, status : Status, id : 0..GrantBound]
          /\ (AccountTypes' /\ GrantInv' /\ ErrandInv' /\ NothingIsUsedWithout' /\ NothingIsForgotten') => AccountInv'
      BY <1>1, <2>2, <2>6, <3>1, GoesOnInv
    <3>3. AccountTypes' /\ GrantInv' /\ NothingIsUsedWithout' /\ NothingIsForgotten'
      BY <2>4, <3>2
    <3>4. ErrandInv'
      <4>1. errand'.id \in Grant /\ Connected(errand.id)' /\ connection'[errand'.id].retired = errand'.due
        BY <1>2, <2>1, <2>2, <3>2 DEF Connected
      <4> QED BY <1>1, <3>2, <4>1 DEF ErrandInv, PlaceInv, ConnectInv, LeaveInv
    <3> QED BY <3>2, <3>3, <3>4
  <2>7. CASE GoTo("undo", Pair(g)) /\ unsure' = unsure \cup {c}
    <3>1. Pair(g) \in SUBSET Entry
      BY PairFacts
    <3>2. /\ errand' \in Errand /\ errand'.at = "undo" /\ errand'.due = Pair(g)
          /\ errand'.op = errand.op /\ errand'.id = errand.id /\ errand'.grant = errand.grant
          /\ setup' \in [SetupTask -> SetupRecord] /\ \A t \in SetupTask : setup'[t].grant = setup[t].grant
          /\ hostTask' \in [task : SetupTask \cup {"none"}, status : Status, id : 0..GrantBound]
          /\ (AccountTypes' /\ GrantInv' /\ ErrandInv' /\ NothingIsUsedWithout' /\ NothingIsForgotten') => AccountInv'
      BY <1>1, <2>2, <2>7, <3>1, GoesOnInv
    <3>3. AccountTypes' /\ GrantInv' /\ NothingIsUsedWithout' /\ NothingIsForgotten'
      BY <2>4, <3>2
    <3>4. ErrandInv'
      <4>1. \A d \in Grant : connection'[d].grant = errand'.grant => d \in unsure'
        BY <1>2, <1>8, <2>1, <2>7, <3>2
      <4> QED BY <1>1, <1>2, <3>2, <4>1 DEF ErrandInv, PlaceInv, ConnectInv, LeaveInv
    <3> QED BY <3>2, <3>3, <3>4
  <2>8. connection' # connection
    BY <1>5, <1>8, <2>1
  <2> QED BY <1>6, <2>5, <2>6, <2>7, <2>8
<1>12. CASE UNCHANGED <<connection, known>>
  <2>1. CASE SavesFile(c, file)
    \* The connection would name a grant that it has not.
    <3>1. connection'[c] = file
      BY <1>1, <2>1 DEF SavesFile, AccountTypes
    <3> QED BY <1>5, <1>8, <1>12, <3>1
  <2>2. CASE GoTo("undo", Pair(g)) /\ unsure' = unsure
    <3>1. StaysTrue /\ Pair(g) \in SUBSET Entry
      BY <1>12, <2>2, FilesKept, PairFacts
    <3>2. /\ errand' \in Errand /\ errand'.at = "undo" /\ errand'.due = Pair(g)
          /\ errand'.op = errand.op /\ errand'.id = errand.id /\ errand'.grant = errand.grant
          /\ setup' \in [SetupTask -> SetupRecord] /\ \A t \in SetupTask : setup'[t].grant = setup[t].grant
          /\ hostTask' \in [task : SetupTask \cup {"none"}, status : Status, id : 0..GrantBound]
          /\ (AccountTypes' /\ GrantInv' /\ ErrandInv' /\ NothingIsUsedWithout' /\ NothingIsForgotten') => AccountInv'
      BY <1>1, <2>2, <3>1, GoesOnInv
    <3>3. /\ grants' \in 0..GrantBound /\ grants <= grants'
          /\ errand'.grant <= grants' /\ \A t \in SetupTask : setup'[t].grant <= grants'
      BY <1>1, <3>2, GrantsKept
    <3>4. AccountTypes' /\ GrantInv' /\ NothingIsUsedWithout' /\ NothingIsForgotten'
      BY <1>1, <1>7, <1>12, <2>2, <3>2, <3>3, StandStill
    <3>5. ErrandInv'
      <4>1. \A d \in Grant : connection'[d].grant # errand'.grant
        BY <1>2, <1>8, <1>12, <3>2
      <4> QED BY <1>1, <1>2, <3>2, <4>1 DEF ErrandInv, PlaceInv, ConnectInv, LeaveInv
    <3> QED BY <3>2, <3>4, <3>5
  <2> QED BY <1>6, <1>12, <2>1, <2>2
<1> QED BY <1>6, <1>11, <1>12 DEF SavesFile, FailsToSaveFile

\* An entry that is due is deleted, or tried: nothing that is used has it.
LEMMA DeleteEntryInv ==
    ASSUME AccountInv, DeleteEntry
    PROVE  AccountInv'
<1>1. /\ AccountTypes /\ GrantInv /\ ErrandInv /\ TaskInv /\ NothingIsUsedWithout /\ NothingIsForgotten
      /\ UNCHANGED <<connection, bot, setup, hostTask, grants, known, unsure>>
  BY DEF AccountInv, DeleteEntry
<1>2. PICK entry \in errand.due :
          \/ /\ vault' = vault \ {entry} /\ NoFault
             /\ errand' = [errand EXCEPT !.due = @ \ {entry}]
          \/ /\ vault' = vault /\ Fault
             /\ errand' = [errand EXCEPT !.due = @ \ {entry}, !.failed = TRUE]
  BY DEF DeleteEntry
<1>3. /\ errand' \in Errand /\ errand'.op = errand.op /\ errand'.at = errand.at /\ errand'.id = errand.id
      /\ errand'.grant = errand.grant /\ errand'.due = errand.due \ {entry} /\ errand'.task = errand.task
      /\ vault' = vault \ {entry} \/ (vault' = vault /\ errand'.failed)
      /\ ~errand'.failed => ~errand.failed
  <2>1. errand \in Errand
    BY <1>1 DEF AccountTypes
  <2>2. PICK due \in SUBSET Entry : due = errand.due \ {entry}
    BY <2>1 DEF Errand
  <2>3. CASE vault' = vault \ {entry} /\ errand' = [errand EXCEPT !.due = due]
    BY <2>1, <2>2, <2>3 DEF Errand
  <2>4. CASE vault' = vault /\ errand' = [errand EXCEPT !.due = due, !.failed = TRUE]
    BY <2>1, <2>2, <2>4 DEF Errand
  <2> QED BY <1>2, <2>2, <2>3, <2>4
<1>4. accountFaults' \in 0..CredentialFaults
  BY <1>1, <1>2, Faults
<1>5. errand.at \in {"undo", "retire", "delete"} /\ vault' \subseteq vault /\ vault \ {entry} \subseteq vault'
  BY <1>1, <1>2, <1>3 DEF ErrandInv, LeaveInv
\* Which entry it is.
<1>6. \/ /\ \A c \in Grant : connection[c].grant = entry[1] => c \in unsure \/ ~connection[c].enabled
         /\ entry[2] # "token"
      \/ bot.grant = 0 /\ entry[2] = "token"
  <2>1. CASE errand.at = "undo" /\ errand.op = "connect"
    <3>1. entry \in Pair(errand.grant) /\ \A c \in Grant : connection[c].grant = errand.grant => c \in unsure
      BY <1>1, <2>1 DEF ErrandInv, ConnectInv
    <3>2. entry[1] = errand.grant /\ entry[2] # "token"
      BY <3>1, PairFacts
    <3> QED BY <3>1, <3>2
  <2>2. CASE errand.at = "undo" /\ errand.op = "pair"
    <3>1. entry = <<errand.grant, "token">> /\ bot.grant = 0
      BY <1>1, <2>2 DEF ErrandInv, LeaveInv
    <3> QED BY <3>1
  <2>3. CASE errand.at = "retire"
    <3>1. errand.id \in Grant /\ entry \in connection[errand.id].retired
      BY <1>1, <2>3 DEF ErrandInv, ConnectInv
    <3>2. connection[errand.id] \in Connection
      BY <1>1, <3>1 DEF AccountTypes
    <3>3. entry \in known
      BY <1>1, <3>1, <3>2, NamesFacts DEF GrantInv
    <3>4. entry[2] # "token"
      BY <1>1, <3>3 DEF GrantInv
    <3>5. \A c \in Grant : Connected(c) => connection[c].grant # entry[1]
      BY <1>1, <3>1, GrantsApart
    <3>6. \A c \in Grant : connection[c].enabled => Connected(c)
      BY <1>1 DEF GrantInv
    <3> QED BY <3>4, <3>5, <3>6
  <2>4. CASE errand.at = "delete"
    <3>1. errand.op = "disconnect"
      BY <1>1, <2>4 DEF ErrandInv, PlaceInv, AccountTypes, Errand
    <3>2. PICK d \in Grant : d = errand.id
      BY <1>1, <3>1 DEF ErrandInv, LeaveInv
    <3>3. Connected(d) /\ ~connection[d].enabled /\ entry \in Names(connection[d])
      BY <1>1, <2>4, <3>1, <3>2 DEF ErrandInv, LeaveInv
    <3>4. entry \in known
      BY <1>1, <3>3 DEF GrantInv
    <3>5. entry[2] # "token"
      BY <1>1, <3>4 DEF GrantInv
    <3>6. ASSUME NEW c \in Grant, connection[c].grant = entry[1], connection[c].enabled PROVE FALSE
      <4>1. connection[c].grant # 0 /\ connection[c] \in Connection
        BY <1>1, <3>6 DEF GrantInv, AccountTypes, Connected
      <4>2. Pair(connection[c].grant) \subseteq Names(connection[c])
        BY <4>1, NamesFacts
      <4>3. PICK f \in Names(connection[c]) : f[1] = connection[c].grant
        BY <4>2, PairFacts
      <4>4. c = d
        BY <1>1, <3>3, <3>6, <4>3 DEF GrantInv
      <4> QED BY <3>3, <3>6, <4>4
    <3> QED BY <3>5, <3>6
  <2> QED BY <1>1, <1>5, <2>1, <2>2, <2>3, <2>4 DEF ErrandInv, PlaceInv, AccountTypes, Errand
<1>7. /\ grants' \in 0..GrantBound /\ grants <= grants'
      /\ errand'.grant <= grants' /\ \A t \in SetupTask : setup'[t].grant <= grants'
  BY <1>1, <1>3, GrantsKept
<1>8. AccountTypes'
  BY <1>1, <1>3, <1>4, <1>5, <1>7 DEF AccountTypes
<1>9. GrantInv'
  <2>1. \A e \in known' : e[1] <= grants' /\ e[2] # "token"
    BY <1>1 DEF GrantInv
  <2> QED BY <1>1, <1>7, <2>1 DEF GrantInv, Connected
<1>10. NothingIsUsedWithout'
  <2>1. ASSUME NEW c \in Grant \ unsure, connection[c].enabled PROVE Pair(connection[c].grant) \subseteq vault'
    <3>1. Pair(connection[c].grant) \subseteq vault
      BY <1>1, <2>1 DEF NothingIsUsedWithout, Opens
    <3>2. entry \notin Pair(connection[c].grant)
      <4> SUFFICES ASSUME entry \in Pair(connection[c].grant) PROVE FALSE
        OBVIOUS
      <4>1. entry[1] = connection[c].grant /\ entry[2] # "token"
        BY PairFacts
      <4> QED BY <1>6, <2>1, <4>1
    <3> QED BY <1>5, <3>1, <3>2
  <2>2. bot.grant # 0 => <<bot.grant, "token">> \in vault'
    <3>1. bot.grant # 0 => <<bot.grant, "token">> \in vault /\ entry # <<bot.grant, "token">>
      BY <1>1, <1>6 DEF NothingIsUsedWithout
    <3> QED BY <1>5, <3>1
  <2> QED BY <1>1, <2>1, <2>2 DEF NothingIsUsedWithout, Opens
<1>11. NothingIsForgotten'
  BY <1>1, <1>5 DEF NothingIsForgotten
<1>12. ErrandInv'
  <2>1. PlaceInv'
    BY <1>1, <1>3 DEF ErrandInv, PlaceInv
  <2>2. errand'.at \in {"undo", "retire", "delete"} /\ errand'.due \subseteq errand.due
    BY <1>3, <1>5
  <2>3. ConnectInv'
    <3>1. errand.op = "connect" /\ errand.at = "undo" =>
             /\ errand.due \subseteq Pair(errand.grant)
             /\ \A c \in Grant : connection[c].grant = errand.grant => c \in unsure
      BY <1>1 DEF ErrandInv, ConnectInv
    <3>2. errand.at = "retire" =>
             /\ errand.id \in Grant /\ Connected(errand.id) /\ errand.due \subseteq connection[errand.id].retired
             /\ ~errand.failed => connection[errand.id].retired \cap vault \subseteq errand.due
      BY <1>1 DEF ErrandInv, ConnectInv
    <3>3. ~errand'.failed => ~errand.failed /\ vault' = vault \ {entry}
      BY <1>3
    <3>4. Connected(errand.id)' <=> Connected(errand.id)
      BY <1>1, <1>3 DEF Connected
    <3> QED BY <1>1, <1>3, <2>2, <3>1, <3>2, <3>3, <3>4 DEF ConnectInv
  <2>4. LeaveInv'
    <3>1. Connected(errand.id)' <=> Connected(errand.id)
      BY <1>1, <1>3 DEF Connected
    <3> QED BY <1>1, <1>3, <2>2, <3>1 DEF ErrandInv, LeaveInv
  <2> QED BY <2>1, <2>3, <2>4 DEF ErrandInv
<1>13. TaskInv'
  BY <1>1, <1>3 DEF TaskInv
<1>14. TellInv'
  <2>1. StaysTrue /\ UNCHANGED <<setup, hostTask>>
    BY <1>1, FilesKept
  <2> QED BY <2>1, NothingTold
<1> QED BY <1>8, <1>9, <1>10, <1>11, <1>12, <1>13, <1>14 DEF AccountInv

\* A step of pairing, on the binding of the bot.
LEMMA BotChanged ==
    ASSUME AccountInv, UNCHANGED <<vault, connection, grants, known, unsure>>,
           bot' \in [grant : 0..GrantBound, paired : BOOLEAN], bot'.grant # 0 => <<bot'.grant, "token">> \in vault,
           accountFaults' \in 0..CredentialFaults,
           errand' \in Errand, errand'.grant = 0 \/ errand'.grant = errand.grant,
           setup' \in [SetupTask -> SetupRecord], \A t \in SetupTask : setup'[t].grant = setup[t].grant,
           hostTask' \in [task : SetupTask \cup {"none"}, status : Status, id : 0..GrantBound]
    PROVE  AccountTypes' /\ GrantInv' /\ NothingIsUsedWithout' /\ NothingIsForgotten'
<1>1. AccountTypes /\ GrantInv /\ NothingIsUsedWithout /\ NothingIsForgotten
  BY DEF AccountInv
<1>2. /\ grants' \in 0..GrantBound /\ grants <= grants'
      /\ errand'.grant <= grants' /\ \A t \in SetupTask : setup'[t].grant <= grants'
  BY GrantsKept
<1>3. AccountTypes'
  BY <1>1, <1>2 DEF AccountTypes
<1>4. GrantInv'
  <2>1. \A e \in known' : e[1] <= grants' /\ e[2] # "token"
    BY <1>1 DEF GrantInv
  <2> QED BY <1>1, <1>2, <2>1 DEF GrantInv, Connected
<1>5. NothingIsUsedWithout'
  BY <1>1 DEF NothingIsUsedWithout, Opens
<1>6. NothingIsForgotten'
  BY <1>1 DEF NothingIsForgotten
<1> QED BY <1>3, <1>4, <1>5, <1>6

LEMMA BindInv ==
    ASSUME AccountInv, Bind
    PROVE  AccountInv'
<1>1. /\ AccountTypes /\ ErrandInv /\ TaskInv /\ NothingIsUsedWithout /\ errand.op = "pair" /\ errand.at = "bind"
      /\ UNCHANGED <<vault, connection, grants, known, unsure>>
  BY DEF AccountInv, Bind, Stands
<1>2. PICK g \in Grant : g = errand.grant
  BY <1>1 DEF ErrandInv, LeaveInv
<1>3. bot.grant = 0 /\ <<g, "token">> \in vault /\ errand.task = "none" /\ errand.due = {}
  BY <1>1, <1>2 DEF ErrandInv, LeaveInv, TaskInv
<1>4. \/ /\ bot' = [bot EXCEPT !.grant = g] /\ NoFault /\ GoTo("owner", {})
      \/ /\ bot' \in {bot, [bot EXCEPT !.grant = g]} /\ Fault
         /\ \/ Return(0)
            \/ bot'.grant = 0 /\ GoTo("undo", {<<g, "token">>})
  BY <1>2 DEF Bind
<1>5. /\ bot' \in [grant : 0..GrantBound, paired : BOOLEAN]
      /\ bot'.grant # 0 => <<bot'.grant, "token">> \in vault
  <2>1. bot \in [grant : 0..GrantBound, paired : BOOLEAN] /\ g \in 0..GrantBound
    BY <1>1, GrantNumbers DEF AccountTypes
  <2>2. bot' = bot \/ bot' = [bot EXCEPT !.grant = g]
    BY <1>4
  <2> QED BY <1>3, <2>1, <2>2
<1>6. StaysTrue /\ accountFaults' \in 0..CredentialFaults
  BY <1>1, <1>4, FilesKept, Faults
<1>7. CASE Return(0)
  <2>1. "none" \notin SetupTask /\ 0 \in 0..GrantBound
    BY GrantNumbers
  <2>2. /\ errand' \in Errand /\ errand'.grant = 0
        /\ setup' \in [SetupTask -> SetupRecord] /\ \A t \in SetupTask : setup'[t].grant = setup[t].grant
        /\ hostTask' \in [task : SetupTask \cup {"none"}, status : Status, id : 0..GrantBound]
        /\ (AccountTypes' /\ GrantInv' /\ NothingIsUsedWithout' /\ NothingIsForgotten') => AccountInv'
    BY <1>3, <1>6, <1>7, <2>1, ReturnInv
  <2> QED BY <1>1, <1>5, <1>6, <2>2, BotChanged
<1>8. CASE \E step \in {"owner", "undo"}, due \in {{}, {<<g, "token">>}} :
              GoTo(step, due) /\ (step = "undo" => bot'.grant = 0) /\ (step = "owner" => due = {})
  <2>1. PICK step \in {"owner", "undo"}, due \in {{}, {<<g, "token">>}} :
                GoTo(step, due) /\ (step = "undo" => bot'.grant = 0) /\ (step = "owner" => due = {})
    BY <1>8
  <2>2. due \in SUBSET Entry
    BY PairFacts
  <2>3. /\ errand' \in Errand /\ errand'.at = step /\ errand'.due = due
        /\ errand'.op = errand.op /\ errand'.id = errand.id /\ errand'.grant = errand.grant
        /\ setup' \in [SetupTask -> SetupRecord] /\ \A t \in SetupTask : setup'[t].grant = setup[t].grant
        /\ hostTask' \in [task : SetupTask \cup {"none"}, status : Status, id : 0..GrantBound]
        /\ (AccountTypes' /\ GrantInv' /\ ErrandInv' /\ NothingIsUsedWithout' /\ NothingIsForgotten') => AccountInv'
    BY <1>1, <1>6, <2>1, <2>2, GoesOnInv
  <2>4. AccountTypes' /\ GrantInv' /\ NothingIsUsedWithout' /\ NothingIsForgotten'
    BY <1>1, <1>5, <1>6, <2>3, BotChanged
  <2>5. ErrandInv'
    BY <1>1, <1>2, <2>1, <2>3 DEF ErrandInv, PlaceInv, ConnectInv, LeaveInv
  <2> QED BY <2>3, <2>4, <2>5
<1> QED BY <1>4, <1>7, <1>8

LEMMA PairOwnerInv ==
    ASSUME AccountInv, PairOwner
    PROVE  AccountInv'
<1>1. /\ AccountTypes /\ TaskInv /\ NothingIsUsedWithout /\ errand.op = "pair" /\ Return(0)
      /\ UNCHANGED <<vault, connection, grants, known, unsure>>
  BY DEF AccountInv, PairOwner, Stands
<1>2. /\ bot' = bot \/ bot' = [bot EXCEPT !.paired = TRUE]
      /\ Fault \/ NoFault
  BY DEF PairOwner
<1>3. /\ bot' \in [grant : 0..GrantBound, paired : BOOLEAN]
      /\ bot'.grant # 0 => <<bot'.grant, "token">> \in vault
  <2>1. bot \in [grant : 0..GrantBound, paired : BOOLEAN] /\ (bot.grant # 0 => <<bot.grant, "token">> \in vault)
    BY <1>1 DEF AccountTypes, NothingIsUsedWithout
  <2> QED BY <1>2, <2>1
<1>4. StaysTrue /\ accountFaults' \in 0..CredentialFaults
  BY <1>1, <1>2, FilesKept, Faults
<1>5. errand.task = "none" /\ "none" \notin SetupTask /\ 0 \in 0..GrantBound
  BY <1>1, GrantNumbers DEF TaskInv
<1>6. /\ errand' \in Errand /\ errand'.grant = 0
      /\ setup' \in [SetupTask -> SetupRecord] /\ \A t \in SetupTask : setup'[t].grant = setup[t].grant
      /\ hostTask' \in [task : SetupTask \cup {"none"}, status : Status, id : 0..GrantBound]
      /\ (AccountTypes' /\ GrantInv' /\ NothingIsUsedWithout' /\ NothingIsForgotten') => AccountInv'
  BY <1>1, <1>4, <1>5, ReturnInv
<1> QED BY <1>1, <1>3, <1>4, <1>6, BotChanged

\* The grant is revoked at the provider, before its entries are deleted.
LEMMA RevokeGrantInv ==
    ASSUME AccountInv, RevokeGrant
    PROVE  AccountInv'
<1>1. /\ AccountTypes /\ ErrandInv /\ errand.op = "disconnect" /\ errand.at = "revoke"
      /\ UNCHANGED <<vault, connection, bot, grants, known, unsure, accountFaults>>
  BY DEF AccountInv, RevokeGrant, Stands, credentialVars
<1>2. PICK due : due = Names(connection[errand.id])
  OBVIOUS
<1>3. GoTo("delete", due) \/ Return(0)
  BY <1>2 DEF RevokeGrant
<1>4. CASE GoTo("delete", due)
  <2>1. due \in SUBSET Entry /\ errand.id \in Grant
    BY <1>1, <1>2, NamesFacts DEF ErrandInv, LeaveInv, AccountTypes
  <2>2. StaysTrue /\ accountFaults' \in 0..CredentialFaults
    BY <1>1, FilesKept DEF AccountTypes
  <2>3. /\ errand' \in Errand /\ errand'.at = "delete" /\ errand'.due = due
        /\ errand'.op = errand.op /\ errand'.id = errand.id /\ errand'.grant = errand.grant
        /\ setup' \in [SetupTask -> SetupRecord] /\ \A t \in SetupTask : setup'[t].grant = setup[t].grant
        /\ hostTask' \in [task : SetupTask \cup {"none"}, status : Status, id : 0..GrantBound]
        /\ (AccountTypes' /\ GrantInv' /\ ErrandInv' /\ NothingIsUsedWithout' /\ NothingIsForgotten') => AccountInv'
    BY <1>1, <1>4, <2>1, <2>2, GoesOnInv
  <2>4. /\ grants' \in 0..GrantBound /\ grants <= grants'
        /\ errand'.grant <= grants' /\ \A t \in SetupTask : setup'[t].grant <= grants'
    BY <1>1, <2>3, GrantsKept
  <2>5. AccountTypes' /\ GrantInv' /\ NothingIsUsedWithout' /\ NothingIsForgotten'
    BY <1>1, <2>2, <2>3, <2>4, StandStill
  <2>6. ErrandInv'
    <3>1. Connected(errand.id)' <=> Connected(errand.id)
      BY <1>1, <2>3 DEF Connected
    <3> QED BY <1>1, <1>2, <2>3, <3>1 DEF ErrandInv, PlaceInv, ConnectInv, LeaveInv
  <2> QED BY <2>3, <2>5, <2>6
<1>5. CASE Return(0)
  BY <1>5, CommandsEnd
<1> QED BY <1>3, <1>4, <1>5

-----------------------------------------------------------------------------
LEMMA AccountStarts == AccountInit => AccountInv
<1> SUFFICES ASSUME AccountInit PROVE AccountInv
  OBVIOUS
<1>1. /\ vault = {} /\ known = {} /\ unsure = {} /\ grants = 0 /\ accountFaults = 0 /\ errand = NoErrand
      /\ bot = [grant |-> 0, paired |-> FALSE] /\ setup = [t \in SetupTask |-> NoSetup] /\ hostTask = NoHostTask
      /\ connection = [c \in Grant |-> NoConnection]
  BY DEF AccountInit
<1>2. /\ NoConnection \in Connection /\ NoConnection.grant = 0 /\ ~NoConnection.enabled /\ NoConnection.retired = {}
      /\ NoSetup \in SetupRecord /\ NoSetup.grant = 0 /\ NoSetup.status = "none"
      /\ NoHostTask \in [task : SetupTask \cup {"none"}, status : Status, id : 0..GrantBound]
      /\ NoHostTask.status = "none"
  BY GrantNumbers DEF NoConnection, Connection, NoSetup, SetupRecord, NoHostTask, Status
<1>3. AccountTypes
  BY <1>1, <1>2, NoErrandFacts, AccountAssumption DEF AccountTypes
<1>4. Names(NoConnection) = {}
  BY <1>2, NamesFacts
<1>5. \A c \in Grant : Names(connection[c]) = {} /\ ~connection[c].enabled /\ connection[c].retired = {}
  BY <1>1, <1>2, <1>4
<1>6. GrantInv
  BY <1>1, <1>2, <1>5, NoErrandFacts DEF GrantInv
<1>7. ErrandInv /\ TaskInv
  BY <1>1, <1>2, NoErrandFacts, GrantNumbers DEF ErrandInv, PlaceInv, ConnectInv, LeaveInv, TaskInv
<1>8. TellInv
  BY <1>1, <1>2 DEF TellInv, Told
<1>9. NothingIsUsedWithout /\ NothingIsForgotten
  BY <1>1, <1>5 DEF NothingIsUsedWithout, NothingIsForgotten
<1> QED BY <1>3, <1>6, <1>7, <1>8, <1>9 DEF AccountInv

LEMMA AccountStep ==
    ASSUME AccountInv, [AccountNext]_accountVars
    PROVE  AccountInv'
<1>1. CASE ConnectNext
  BY <1>1, CommandsBegin, TasksBegin, CancelInv, AuthorizeInv, CommandsEnd, SetSecretInv, SaveGrantInv, DeleteEntryInv,
     ForgetRetiredInv DEF ConnectNext
<1>2. CASE DisconnectNext
  BY <1>2, CommandsBegin, DisableInv, RevokeGrantInv DEF DisconnectNext
<1>3. CASE PairNext
  BY <1>3, CommandsBegin, SetTokenInv, BindInv, PairOwnerInv DEF PairNext
<1>4. CASE Die
  BY <1>4, DieInv
<1>5. CASE UNCHANGED accountVars
  <2>1. /\ vault' = vault /\ connection' = connection /\ bot' = bot /\ errand' = errand /\ setup' = setup
        /\ hostTask' = hostTask /\ grants' = grants /\ known' = known /\ unsure' = unsure /\ accountFaults' = accountFaults
    BY <1>5 DEF accountVars, credentialVars
  <2>2. AccountTypes' /\ GrantInv'
    BY <2>1 DEF AccountInv, AccountTypes, GrantInv, Connected
  <2>3. ErrandInv'
    <3>1. (Unnamed(errand.grant)' <=> Unnamed(errand.grant)) /\ (Connected(errand.id)' <=> Connected(errand.id))
      BY <2>1 DEF Unnamed, Connected
    <3>2. PlaceInv'
      BY <2>1 DEF AccountInv, ErrandInv, PlaceInv
    <3>3. ConnectInv'
      BY <2>1, <3>1 DEF AccountInv, ErrandInv, ConnectInv
    <3>4. LeaveInv'
      BY <2>1, <3>1 DEF AccountInv, ErrandInv, LeaveInv
    <3> QED BY <3>2, <3>3, <3>4 DEF ErrandInv
  <2>4. TaskInv'
    BY <2>1 DEF AccountInv, TaskInv
  <2>5. TellInv'
    BY <2>1 DEF AccountInv, TellInv, Connected, NotUsed
  <2>6. NothingIsUsedWithout' /\ NothingIsForgotten'
    BY <2>1 DEF AccountInv, NothingIsUsedWithout, NothingIsForgotten, Opens
  <2> QED BY <2>2, <2>3, <2>4, <2>5, <2>6 DEF AccountInv
<1> QED BY <1>1, <1>2, <1>3, <1>4, <1>5 DEF AccountNext

\* What the host answers of a task is told of it by its record, or by the host.
LEMMA TruthIsTold == AccountInv => SetupTellsTheTruth
<1> SUFFICES ASSUME AccountInv PROVE SetupTellsTheTruth
  OBVIOUS
<1>1. TellInv /\ (\A g \in 0..GrantBound : g # 0 => g \in Grant) /\ \A t \in SetupTask : setup[t].grant \in 0..GrantBound
  BY GrantNumbers DEF AccountInv, AccountTypes, SetupRecord
<1>2. ASSUME NEW t \in SetupTask
      PROVE  \/ Answer(t).status \notin {"connected", "failed", "cancelled"}
             \/ /\ Answer(t).status = "connected"
                /\ Connected(Answer(t).id)
             \/ Answer(t).status \in Told /\ NotUsed(setup[t].grant)
  <2>1. CASE hostTask.task = t
    <3>1. Answer(t).status = hostTask.status /\ Answer(t).id = hostTask.id
      BY <2>1 DEF Answer
    <3> QED BY <1>1, <2>1, <3>1 DEF TellInv, Told
  <2>2. CASE hostTask.task # t
    <3>1. CASE setup[t].status \in {"running", "awaiting_auth"}
      BY <2>2, <3>1 DEF Answer
    <3>2. CASE setup[t].status \notin {"running", "awaiting_auth"}
      <4>1. Answer(t).status = setup[t].status /\ Answer(t).id = setup[t].id
        BY <2>2, <3>2 DEF Answer
      <4> QED BY <1>1, <4>1 DEF TellInv, Told
    <3> QED BY <3>1, <3>2
  <2> QED BY <2>1, <2>2
<1>3. \A t \in SetupTask :
          /\ Answer(t).status = "connected" => Connected(Answer(t).id)
          /\ Answer(t).status \in {"failed", "cancelled"} => NotUsed(setup[t].grant)
  BY <1>2 DEF Told
<1> QED BY <1>3 DEF SetupTellsTheTruth, NotUsed

\* Credentials are there for what uses them, are named until they are deleted, and are
\* sealed with the key in place; and a sign-in ended as it is told: whichever write of a
\* command failed, wherever the process ended (gmail/auth.go, onboarding, secrets).
THEOREM CredentialsKept == RecordsSpec => []CredentialsAreKept
<1> DEFINE Inv == AccountInv /\ SecretInv
<1>1. RecordsInit => Inv
  BY AccountStarts, SecretStarts DEF RecordsInit
<1>2. Inv /\ [RecordsNext]_recordsVars => Inv'
  <2> SUFFICES ASSUME Inv, [RecordsNext]_recordsVars PROVE Inv'
    OBVIOUS
  <2>1. [AccountNext]_accountVars /\ [SecretNext]_secretVars
    BY DEF RecordsNext, recordsVars
  <2> QED BY <2>1, AccountStep, SecretStep
<1>3. Inv => CredentialsAreKept
  <2>1. SecretInv => KeyOpensTheStore
    BY DEF SecretInv, KeyOpensTheStore
  <2>2. AccountInv => NothingIsUsedWithout /\ NothingIsForgotten
    BY DEF AccountInv
  <2> QED BY <2>1, <2>2, TruthIsTold DEF CredentialsAreKept
<1> QED BY <1>1, <1>2, <1>3, PTL DEF RecordsSpec

-----------------------------------------------------------------------------
(***************************************************************************)
(* The operations ledger                                                   *)
(***************************************************************************)

Citation == {"ledger"} \cup Observation
Known == [state : {"open", "acknowledged", "responding", "resolved"}, severity : Severity,
          fingerprint : Severity \X Citation, until : Nat]
Plan == [severity : Severity, status : {"kept_local", "blocked", "snoozed", "cooldown", "planned"}, at : Nat,
         policy : Policy \cup {DefaultPolicy}, until : Nat]

BusinessTypes ==
    /\ work \in [Work -> WorkState \cup {"absent"}] /\ moved \subseteq Work
    /\ commitment \in [Cycle -> [Work -> {"none", "included", "excluded", "carried"}]]
    /\ deployments \in [Cycle -> [Work -> SUBSET Deployment]]
    /\ observations \subseteq Observation

IncidentTypes ==
    /\ policy \in Policy \cup {DefaultPolicy} /\ now \in Nat
    /\ incident \in [Concern -> Known \cup {NoIncident}]
    /\ plans \in [Concern -> Seq(Plan)]

CallerTypes ==
    /\ revision \in 0..EventBound /\ informed \subseteq OpsCaller /\ recorded \subseteq OpsCaller
    /\ headAt \in Nat
    /\ report \in [risk : Risk \cup {[severity |-> "none"]}, asOf : Nat, current : BOOLEAN]

\* A report whose input is the ledger says what holds in it at the time it is for, which is
\* not before the latest record, and cites what the ledger has.
ReportInv == report.current => /\ report.risk \in Risk /\ Validated(report.risk, report.asOf)
                               /\ headAt <= report.asOf

\* The latest plan of an incident is one for its severity, and none is from the future.
PlanInv ==
    \A c \in Concern :
        /\ incident[c] # NoIncident =>
              /\ plans[c] # <<>>
              /\ plans[c][Len(plans[c])].severity = incident[c].severity
        /\ \A n \in DOMAIN plans[c] : plans[c][n].at <= now

LedgerInv == /\ BusinessTypes /\ IncidentTypes /\ CallerTypes /\ ReportInv /\ PlanInv
             /\ CarriedWorkIsFollowed /\ CooldownIsKept

\* Two calls in one log are a cooldown apart, unless it got worse.
Spaced(log) ==
    \A m, n \in DOMAIN log :
        m < n /\ log[m].status = "planned" /\ log[n].status = "planned"
          /\ log[n].at < log[m].at + log[n].policy.cooldown
        => Rises(log[n - 1].severity, log[n].severity)

LEMMA SpacedLogs == CooldownIsKept <=> \A c \in Concern : Spaced(plans[c])
BY DEF CooldownIsKept, Spaced

LEMMA Cooldowns == /\ \A p \in Policy \cup {DefaultPolicy} : p.cooldown \in Nat
                   /\ Concern \subseteq [kind : {"release_work_incomplete", "deployment_not_done",
                                                "deployment_unknown", "deployed_unrecorded"}, on : Cycle]
                                        \cup [kind : {"schedule_changed"}, on : Work]
BY LedgerAssumption DEF DefaultPolicy

LEMMA NoIncidentFacts ==
    /\ NoIncident \notin Known
    /\ \A i \in Known : i # NoIncident /\ i.state # "none" /\ i.severity \in Severity /\ i.until \in Nat
<1>1. NoIncident.state = "none"
  BY DEF NoIncident
<1>2. \A i \in Known : i.state # "none" /\ i.severity \in Severity /\ i.until \in Nat
  BY DEF Known
<1> QED BY <1>1, <1>2

\* The plan that is made for an incident.
LEMMA PlanFacts ==
    ASSUME IncidentTypes, NEW c \in Concern, NEW i \in Known, NEW before
    PROVE  /\ PlanFor(c, i, before) \in Plan
           /\ PlanFor(c, i, before).severity = i.severity /\ PlanFor(c, i, before).at = now
           /\ PlanFor(c, i, before).policy = policy
           /\ PlanFor(c, i, before).status = "planned" =>
                 Rises(before, i.severity) \/ ~InCooldown(plans[c])
<1>1. PICK status \in {"kept_local", "blocked", "snoozed", "cooldown", "planned"}, until \in Nat :
         /\ PlanFor(c, i, before) = [severity |-> i.severity, status |-> status, at |-> now, policy |-> policy,
                                     until |-> until]
         /\ status = "planned" => Rises(before, i.severity) \/ ~InCooldown(plans[c])
  BY NoIncidentFacts DEF PlanFor
<1>2. i.severity \in Severity /\ now \in Nat /\ policy \in Policy \cup {DefaultPolicy}
  BY NoIncidentFacts DEF IncidentTypes
<1> QED BY <1>1, <1>2 DEF Plan

\* A log of the plans for an incident, the latest of which is for what it has become.
KeptFor(log, i) ==
    /\ log \in Seq(Plan) /\ log # <<>> /\ log[Len(log)].severity = i.severity
    /\ Spaced(log) /\ \A n \in DOMAIN log : log[n].at <= now

\* A log goes on with such a plan.
LEMMA LogGoesOn ==
    ASSUME IncidentTypes, NEW c \in Concern, NEW i \in Known, NEW before,
           Spaced(plans[c]), \A n \in DOMAIN plans[c] : plans[c][n].at <= now,
           before # "none" => plans[c] # <<>> /\ plans[c][Len(plans[c])].severity = before
    PROVE  /\ KeptFor(Append(plans[c], PlanFor(c, i, before)), i)
           /\ Len(Append(plans[c], PlanFor(c, i, before))) = Len(plans[c]) + 1
<1>1. PICK p \in Plan : /\ p = PlanFor(c, i, before) /\ p.severity = i.severity /\ p.at = now /\ p.policy = policy
                        /\ p.status = "planned" => Rises(before, i.severity) \/ ~InCooldown(plans[c])
  BY PlanFacts
<1>2. PICK old \in Seq(Plan) : old = plans[c]
  BY DEF IncidentTypes
<1>3. PICK size \in Nat : size = Len(old) /\ DOMAIN old = 1..size
  BY LenProperties
<1>4. PICK log : log = Append(old, p)
  OBVIOUS
<1>5. log = Append(plans[c], PlanFor(c, i, before))
  BY <1>1, <1>2, <1>4
<1>6. /\ log \in Seq(Plan) /\ Len(log) = size + 1 /\ log[size + 1] = p
      /\ \A n \in 1..size : log[n] = old[n]
  BY <1>3, <1>4, AppendProperties
<1>7. DOMAIN log = 1..(size + 1)
  BY <1>6, LenProperties
<1>8. \A n \in 1..size : old[n] \in Plan
  BY <1>3, ElementOfSeq
<1>9. now \in Nat /\ policy.cooldown \in Nat
  BY Cooldowns DEF IncidentTypes
<1>10. \A n \in DOMAIN log : n \in 1..size \/ n = size + 1
  BY <1>7
<1>11. \A n \in DOMAIN log : log[n].at <= now
  BY <1>1, <1>2, <1>3, <1>6, <1>9, <1>10
<1>12. Spaced(log)
  <2> SUFFICES ASSUME NEW m \in DOMAIN log, NEW n \in DOMAIN log,
                      m < n, log[m].status = "planned", log[n].status = "planned",
                      log[n].at < log[m].at + log[n].policy.cooldown
               PROVE  Rises(log[n - 1].severity, log[n].severity)
    BY DEF Spaced
  <2>1. m \in 1..size
    BY <1>10, <1>7
  <2>2. CASE n \in 1..size
    <3>1. n - 1 \in 1..size
      BY <2>1, <2>2
    <3>2. log[m] = old[m] /\ log[n] = old[n] /\ log[n - 1] = old[n - 1]
      BY <1>6, <2>1, <2>2, <3>1
    <3> QED BY <1>2, <1>3, <2>1, <2>2, <3>2 DEF Spaced
  <2>3. CASE n = size + 1
    <3>1. log[n] = p /\ log[m] = old[m] /\ n - 1 = size /\ size # 0 /\ old[m] \in Plan
      BY <1>6, <1>8, <2>1, <2>3
    <3>2. PICK t \in Nat : t = old[m].at
      BY <3>1 DEF Plan
    <3>3. t \in PlannedAt(old)
      BY <1>3, <2>1, <3>1, <3>2 DEF PlannedAt
    <3>4. now < t + policy.cooldown
      BY <1>1, <3>1, <3>2
    <3>5. InCooldown(plans[c])
      BY <1>2, <3>3, <3>4 DEF InCooldown
    <3>6. Rises(before, i.severity)
      BY <1>1, <3>1, <3>5
    <3>7. before # "none"
      BY <3>6 DEF Rises
    <3>8. old[size].severity = before
      BY <1>2, <1>3, <3>7
    <3>9. log[n - 1] = old[size]
      BY <1>6, <3>1
    <3> QED BY <1>1, <3>1, <3>6, <3>8, <3>9
  <2> QED BY <1>10, <2>2, <2>3
<1>13. log # <<>> /\ log[Len(log)].severity = i.severity /\ Len(log) = Len(plans[c]) + 1
  <2>1. Len(log) # 0
    BY <1>6
  <2> QED BY <1>1, <1>2, <1>3, <1>6, <2>1
<1> QED BY <1>6, <1>11, <1>12, <1>13, <1>5 DEF KeptFor

\* The last conjunct of LedgerIsAccountable, for one concern.
AccountedFor(c) ==
    /\ Unresolved(c)' /\ (~Unresolved(c) \/ incident[c].severity # incident'[c].severity) =>
          /\ Len(plans'[c]) > Len(plans[c])
          /\ plans'[c][Len(plans'[c])].severity = incident'[c].severity
    /\ Evidence(incident'[c]) # Evidence(incident[c]) =>
          /\ Grounded(c, report.asOf) /\ headAt <= report.asOf
          /\ Evidence(incident'[c])[2] \in Sources

LEMMA StandsStill ==
    ASSUME NEW c, incident'[c] = incident[c]
    PROVE  AccountedFor(c)
BY DEF AccountedFor, Unresolved

\* Incidents and their plans after a step.
IncidentsKept == IncidentTypes' /\ PlanInv' /\ CooldownIsKept'

LEMMA AnnounceKeeps ==
    ASSUME LedgerInv, UNCHANGED <<policy, now>>, NEW c \in Concern, NEW i \in Known, NEW before, Announce(c, i, before),
           before # "none" => incident[c] # NoIncident /\ incident[c].severity = before
    PROVE  /\ IncidentsKept /\ incident'[c] = i
           /\ Len(plans'[c]) > Len(plans[c]) /\ plans'[c][Len(plans'[c])].severity = i.severity
           /\ \A d \in Concern \ {c} : incident'[d] = incident[d]
<1>1. IncidentTypes /\ PlanInv /\ \A d \in Concern : Spaced(plans[d])
  BY SpacedLogs DEF LedgerInv
<1>2. PICK log : log = Append(plans[c], PlanFor(c, i, before)) /\ KeptFor(log, i) /\ Len(log) = Len(plans[c]) + 1
  <2>1. before # "none" => plans[c] # <<>> /\ plans[c][Len(plans[c])].severity = before
    BY <1>1 DEF PlanInv
  <2>2. \A n \in DOMAIN plans[c] : plans[c][n].at <= now
    BY <1>1 DEF PlanInv
  <2>3. Spaced(plans[c])
    BY <1>1
  <2> QED BY <1>1, <2>1, <2>2, <2>3, LogGoesOn
<1>3. incident' = [incident EXCEPT ![c] = i] /\ plans' = [plans EXCEPT ![c] = log]
  BY <1>2 DEF Announce
<1>4. /\ log \in Seq(Plan) /\ log # <<>> /\ Len(log) = Len(plans[c]) + 1
      /\ log[Len(log)].severity = i.severity
      /\ Spaced(log) /\ \A n \in DOMAIN log : log[n].at <= now
  BY <1>2 DEF KeptFor
<1>5. /\ \A d \in Concern : /\ incident'[d] = IF d = c THEN i ELSE incident[d]
                            /\ plans'[d] = IF d = c THEN log ELSE plans[d]
      /\ incident' \in [Concern -> Known \cup {NoIncident}] /\ plans' \in [Concern -> Seq(Plan)]
  BY <1>1, <1>3, <1>4 DEF IncidentTypes
<1>6. IncidentTypes'
  BY <1>1, <1>5 DEF IncidentTypes
<1>7. PlanInv'
  BY <1>1, <1>4, <1>5 DEF PlanInv
<1>8. CooldownIsKept'
  <2>1. \A d \in Concern : Spaced(plans'[d])
    BY <1>1, <1>4, <1>5
  <2> QED BY <2>1 DEF CooldownIsKept, Spaced
<1>9. Len(plans'[c]) > Len(plans[c])
  <2>1. PICK n \in Nat : n = Len(plans[c])
    BY <1>1, LenProperties DEF IncidentTypes
  <2> QED BY <1>4, <1>5, <2>1
<1> QED BY <1>4, <1>5, <1>6, <1>7, <1>8, <1>9 DEF IncidentsKept

\* What a command says of an incident, and not of how bad it is.
LEMMA MarkKeeps ==
    ASSUME LedgerInv, UNCHANGED <<policy, plans, now>>, NEW c \in Concern, NEW i \in Known, incident[c] \in Known,
           i.severity = incident[c].severity, i.fingerprint = incident[c].fingerprint,
           Unresolved(c), incident' = [incident EXCEPT ![c] = i]
    PROVE  IncidentsKept /\ \A d \in Concern : AccountedFor(d)
<1>1. IncidentTypes /\ PlanInv /\ CooldownIsKept
  BY DEF LedgerInv
<1>2. /\ \A d \in Concern : incident'[d] = IF d = c THEN i ELSE incident[d]
      /\ incident' \in [Concern -> Known \cup {NoIncident}]
  BY <1>1 DEF IncidentTypes
<1>3. IncidentTypes' /\ PlanInv' /\ CooldownIsKept'
  <2>1. PlanInv'
    BY <1>1, <1>2, NoIncidentFacts DEF PlanInv
  <2> QED BY <1>1, <1>2, <2>1 DEF IncidentTypes, CooldownIsKept
<1>4. AccountedFor(c)
  <2>1. Evidence(i) = Evidence(incident[c])
    BY NoIncidentFacts DEF Evidence
  <2> QED BY <1>2, <2>1 DEF AccountedFor
<1>5. \A d \in Concern : AccountedFor(d)
  BY <1>2, <1>4, StandsStill
<1> QED BY <1>3, <1>5 DEF IncidentsKept

LEMMA AssessKeeps ==
    ASSUME LedgerInv, Assess, UNCHANGED now
    PROVE  /\ IncidentsKept /\ UNCHANGED businessVars
           /\ \A c \in Concern : AccountedFor(c)
<1>1. PICK r \in Risk : r = report.risk /\ Validated(r, report.asOf) /\ headAt <= report.asOf
  BY DEF Assess, Current, LedgerInv, ReportInv
<1>2. PICK c \in Concern, s \in Severity, by \in Citation : c = r.concern /\ s = r.severity /\ by = r.citation
  BY DEF Risk, Citation
<1>3. Grounded(c, report.asOf) /\ headAt <= report.asOf /\ by \in Sources
  BY <1>1, <1>2 DEF Validated
<1>4. IncidentTypes /\ PlanInv /\ CooldownIsKept /\ UNCHANGED businessVars /\ UNCHANGED policy
  BY DEF LedgerInv, Assess
<1>5. incident[c] \in Known \cup {NoIncident}
  BY <1>4 DEF IncidentTypes
<1>6. CASE UNCHANGED <<incident, plans>>
  <2>1. IncidentTypes' /\ PlanInv' /\ CooldownIsKept'
    BY <1>4, <1>6 DEF IncidentTypes, PlanInv, CooldownIsKept
  <2> QED BY <1>4, <1>6, <2>1, StandsStill DEF IncidentsKept
<1>7. CASE ~UNCHANGED <<incident, plans>>
  <2>1. PICK state \in {"open", "acknowledged", "responding", "resolved"} :
           state = IF Unresolved(c) THEN incident[c].state ELSE "open"
    <3>1. Unresolved(c) => incident[c] \in Known
      BY <1>5 DEF Unresolved, NoIncident
    <3> QED BY <3>1 DEF Known
  <2>2. PICK until \in Nat : until = IF incident[c] = NoIncident THEN 0 ELSE incident[c].until
    BY <1>5, NoIncidentFacts
  <2>3. PICK before : before = IF incident[c] = NoIncident THEN "none" ELSE incident[c].severity
    OBVIOUS
  <2>4. PICK i \in Known : i = [state |-> state, severity |-> s, fingerprint |-> <<s, by>>, until |-> until]
    BY <2>1, <2>2 DEF Known
  <2>5. Fingerprint(r) = <<s, by>>
    BY <1>2 DEF Fingerprint
  <2>6. Announce(c, i, before)
    BY <1>1, <1>2, <1>7, <2>1, <2>2, <2>3, <2>4, <2>5 DEF Assess
  <2>7. /\ IncidentsKept /\ incident'[c] = i
        /\ Len(plans'[c]) > Len(plans[c]) /\ plans'[c][Len(plans'[c])].severity = i.severity
        /\ \A d \in Concern \ {c} : incident'[d] = incident[d]
    BY <1>4, <2>3, <2>6, AnnounceKeeps
  <2>8. AccountedFor(c)
    <3>1. Evidence(i)[2] = by
      BY <2>4, NoIncidentFacts DEF Evidence
    <3> QED BY <1>3, <2>7, <3>1 DEF AccountedFor
  <2> QED BY <1>4, <2>7, <2>8, StandsStill
<1> QED BY <1>6, <1>7

LEMMA IncidentSteps ==
    ASSUME LedgerInv, UNCHANGED now, SetPolicy \/ ChangeIncident \/ Snooze \/ Reopen \/ ReviewNotifications
    PROVE  /\ IncidentsKept /\ UNCHANGED businessVars
           /\ \A c \in Concern : AccountedFor(c)
<1>1. IncidentTypes /\ PlanInv /\ CooldownIsKept /\ \A d \in Concern : Spaced(plans[d])
  BY SpacedLogs DEF LedgerInv
<1>2. UNCHANGED businessVars
  BY DEF SetPolicy, ChangeIncident, Snooze, Reopen, ReviewNotifications
<1>3. \A c \in Concern : incident[c] \in Known \cup {NoIncident}
  BY <1>1 DEF IncidentTypes
<1>4. \A c \in Concern : Unresolved(c) \/ incident[c].state = "resolved" => incident[c] \in Known
  BY <1>3 DEF Unresolved, NoIncident
<1>5. CASE SetPolicy
  <2>1. IncidentTypes' /\ PlanInv' /\ CooldownIsKept'
    BY <1>1, <1>5 DEF SetPolicy, IncidentTypes, PlanInv, CooldownIsKept
  <2> QED BY <1>2, <1>5, <2>1, StandsStill DEF SetPolicy, IncidentsKept
<1>6. CASE ChangeIncident
  <2>1. PICK c \in Concern, s \in {"acknowledged", "responding", "resolved"} :
           Unresolved(c) /\ incident' = [incident EXCEPT ![c].state = s] /\ UNCHANGED <<policy, plans>>
    BY <1>6 DEF ChangeIncident
  <2>2. PICK i \in Known : /\ i = [incident[c] EXCEPT !.state = s]
                           /\ i.severity = incident[c].severity /\ i.fingerprint = incident[c].fingerprint
    <3>1. PICK old \in Known : old = incident[c]
      BY <1>4, <2>1
    <3>2. PICK i : i = [old EXCEPT !.state = s]
      OBVIOUS
    <3>3. i \in Known /\ i.severity = old.severity /\ i.fingerprint = old.fingerprint
      BY <3>2 DEF Known
    <3> QED BY <3>1, <3>2, <3>3
  <2>3. incident' = [incident EXCEPT ![c] = i]
    BY <2>1, <2>2
  <2> QED BY <1>2, <1>4, <2>1, <2>2, <2>3, MarkKeeps
<1>7. CASE Snooze
  <2>1. PICK c \in Concern, t \in (now + 1)..TimeBound :
           Unresolved(c) /\ incident' = [incident EXCEPT ![c].until = t] /\ UNCHANGED <<policy, plans>>
    BY <1>7 DEF Snooze
  <2>2. t \in Nat
    BY <1>1, LedgerAssumption DEF IncidentTypes
  <2>3. PICK i \in Known : /\ i = [incident[c] EXCEPT !.until = t]
                           /\ i.severity = incident[c].severity /\ i.fingerprint = incident[c].fingerprint
    <3>1. PICK old \in Known : old = incident[c]
      BY <1>4, <2>1
    <3>2. PICK i : i = [old EXCEPT !.until = t]
      OBVIOUS
    <3>3. i \in Known /\ i.severity = old.severity /\ i.fingerprint = old.fingerprint
      BY <2>2, <3>2 DEF Known
    <3> QED BY <3>1, <3>2, <3>3
  <2>4. incident' = [incident EXCEPT ![c] = i]
    BY <2>1, <2>3
  <2> QED BY <1>2, <1>4, <2>1, <2>3, <2>4, MarkKeeps
<1>8. CASE Reopen
  <2>1. PICK c \in Concern :
           /\ incident[c].state = "resolved" /\ incident[c] \in Known /\ UNCHANGED policy
           /\ Announce(c, [incident[c] EXCEPT !.state = "open", !.until = 0], "none")
    BY <1>4, <1>8 DEF Reopen
  <2>2. PICK i \in Known : /\ i = [incident[c] EXCEPT !.state = "open", !.until = 0]
                           /\ i.severity = incident[c].severity /\ i.fingerprint = incident[c].fingerprint
    <3>1. PICK old \in Known : old = incident[c]
      BY <2>1
    <3>2. PICK i : i = [old EXCEPT !.state = "open", !.until = 0]
      OBVIOUS
    <3>3. i \in Known /\ i.severity = old.severity /\ i.fingerprint = old.fingerprint
      BY <3>2 DEF Known
    <3> QED BY <3>1, <3>2, <3>3
  <2>3. Announce(c, i, "none")
    BY <2>1, <2>2
  <2>4. /\ IncidentsKept /\ incident'[c] = i
        /\ Len(plans'[c]) > Len(plans[c]) /\ plans'[c][Len(plans'[c])].severity = i.severity
        /\ \A d \in Concern \ {c} : incident'[d] = incident[d]
    BY <2>1, <2>3, AnnounceKeeps
  <2>5. AccountedFor(c)
    <3>1. Evidence(i) = Evidence(incident[c])
      BY <2>1, <2>2, NoIncidentFacts DEF Evidence
    <3> QED BY <2>4, <3>1 DEF AccountedFor
  <2> QED BY <1>2, <2>4, <2>5, StandsStill
<1>9. CASE ReviewNotifications
  <2>1. UNCHANGED <<policy, incident>> /\ plans' = [c \in Concern |-> Reviewed(c)]
    BY <1>9 DEF ReviewNotifications
  <2>2. ASSUME NEW c \in Concern
        PROVE  /\ plans'[c] \in Seq(Plan) /\ Spaced(plans'[c])
               /\ \A n \in DOMAIN plans'[c] : plans'[c][n].at <= now
               /\ incident[c] # NoIncident =>
                     /\ plans'[c] # <<>>
                     /\ plans'[c][Len(plans'[c])].severity = incident[c].severity
    <3>1. \/ plans'[c] = plans[c]
          \/ Unresolved(c) /\ plans'[c] = Append(plans[c], PlanFor(c, incident[c], "none"))
      BY <2>1 DEF Reviewed
    <3>2. CASE plans'[c] = plans[c]
      BY <1>1, <3>2 DEF IncidentTypes, PlanInv
    <3>3. CASE Unresolved(c) /\ plans'[c] = Append(plans[c], PlanFor(c, incident[c], "none"))
      <4>1. incident[c] \in Known /\ \A n \in DOMAIN plans[c] : plans[c][n].at <= now
        BY <1>1, <1>4, <3>3 DEF PlanInv
      <4>2. PICK i \in Known : i = incident[c]
        BY <4>1
      <4>3. Spaced(plans[c])
        BY <1>1
      <4>4. PICK log : log = Append(plans[c], PlanFor(c, i, "none")) /\ KeptFor(log, i)
        BY <1>1, <4>1, <4>3, LogGoesOn
      <4> QED BY <3>3, <4>2, <4>4 DEF KeptFor
    <3> QED BY <3>1, <3>2, <3>3
  <2>3. IncidentTypes'
    BY <1>1, <2>1, <2>2 DEF IncidentTypes
  <2>4. PlanInv'
    BY <2>1, <2>2 DEF PlanInv
  <2>5. CooldownIsKept'
    BY <2>2 DEF CooldownIsKept, Spaced
  <2> QED BY <1>2, <2>1, <2>3, <2>4, <2>5, StandsStill DEF IncidentsKept
<1> QED BY <1>5, <1>6, <1>7, <1>8, <1>9

\* Commitments after a step: what was carried is still followed.
LEMMA CommitmentKeeps ==
    ASSUME LedgerInv, NEW c \in Cycle, NEW w \in Work, NEW to \in {"included", "excluded"},
           commitment' = [commitment EXCEPT ![c][w] = to]
    PROVE  CarriedWorkIsFollowed' /\ commitment' \in [Cycle -> [Work -> {"none", "included", "excluded", "carried"}]]
<1>1. BusinessTypes /\ CarriedWorkIsFollowed
  BY DEF LedgerInv
<1>2. \A d \in Cycle, v \in Work : commitment'[d][v] = IF d = c /\ v = w THEN to ELSE commitment[d][v]
  BY <1>1 DEF BusinessTypes
<1>3. CarriedWorkIsFollowed'
  <2> SUFFICES ASSUME NEW d \in Cycle, NEW v \in Work, commitment'[d][v] = "carried"
               PROVE  \E e \in Cycle : d < e /\ commitment'[e][v] \in {"included", "excluded"}
    BY DEF CarriedWorkIsFollowed
  <2>1. commitment[d][v] = "carried"
    BY <1>2
  <2>2. PICK e \in Cycle : d < e /\ commitment[e][v] \in {"included", "excluded"}
    BY <1>1, <2>1 DEF CarriedWorkIsFollowed
  <2> QED BY <1>2, <2>2
<1> QED BY <1>1, <1>3 DEF BusinessTypes

LEMMA BusinessSteps ==
    ASSUME LedgerInv,
           \/ CreateWork \/ MoveWork \/ Reschedule \/ SetTarget \/ Carry \/ RecordDeployment \/ ImportObservation
    PROVE  BusinessTypes' /\ CarriedWorkIsFollowed' /\ UNCHANGED incidentVars
<1>1. BusinessTypes /\ CarriedWorkIsFollowed
  BY DEF LedgerInv
<1>2. UNCHANGED incidentVars
  BY DEF CreateWork, MoveWork, Reschedule, SetTarget, Carry, RecordDeployment, ImportObservation
<1>3. CASE CreateWork \/ MoveWork
  <2>1. PICK w \in Work, s \in WorkState : work' = [work EXCEPT ![w] = s]
    BY <1>3 DEF CreateWork, MoveWork, WorkState
  <2>2. UNCHANGED <<moved, commitment, deployments, observations>>
    BY <1>3 DEF CreateWork, MoveWork
  <2>3. work' \in [Work -> WorkState \cup {"absent"}]
    BY <1>1, <2>1 DEF BusinessTypes
  <2> QED BY <1>1, <1>2, <2>2, <2>3 DEF BusinessTypes, CarriedWorkIsFollowed
<1>4. CASE Reschedule \/ ImportObservation
  <2>1. /\ UNCHANGED <<work, commitment, deployments>> /\ moved' \subseteq Work /\ observations' \subseteq Observation
    BY <1>1, <1>4 DEF Reschedule, ImportObservation, BusinessTypes
  <2> QED BY <1>1, <1>2, <2>1 DEF BusinessTypes, CarriedWorkIsFollowed
<1>5. CASE SetTarget
  <2>1. PICK c \in Cycle, w \in Work, to \in {"included", "excluded"} :
           /\ commitment' = [commitment EXCEPT ![c][w] = to]
           /\ UNCHANGED <<work, moved, deployments, observations>>
    BY <1>5 DEF SetTarget
  <2> QED BY <1>1, <1>2, <2>1, CommitmentKeeps DEF BusinessTypes
<1>6. CASE Carry
  <2>1. PICK c \in Cycle, d \in Cycle, w \in Work :
           /\ c < d /\ commitment' = [commitment EXCEPT ![c][w] = "carried", ![d][w] = "included"]
           /\ UNCHANGED <<work, moved, deployments, observations>>
    BY <1>6 DEF Carry
  <2>2. c \in Nat /\ d \in Nat /\ \A e \in Cycle : e \in Nat
    BY LedgerAssumption
  <2>3. \A e \in Cycle, v \in Work : commitment'[e][v] = IF e = d /\ v = w THEN "included"
                                                     ELSE IF e = c /\ v = w THEN "carried" ELSE commitment[e][v]
    BY <1>1, <2>1 DEF BusinessTypes
  <2>4. commitment' \in [Cycle -> [Work -> {"none", "included", "excluded", "carried"}]]
    BY <1>1, <2>1 DEF BusinessTypes
  <2>5. ASSUME NEW e \in Cycle, NEW v \in Work, commitment'[e][v] = "carried"
        PROVE  \E later \in Cycle : e < later /\ commitment'[later][v] \in {"included", "excluded"}
    <3>1. CASE e = c /\ v = w
      BY <2>1, <2>3, <3>1
    <3>2. CASE ~(e = c /\ v = w)
      <4>1. PICK later \in Cycle : e < later /\ commitment[later][v] \in {"included", "excluded"}
        BY <1>1, <2>3, <2>5, <3>2 DEF CarriedWorkIsFollowed
      <4>2. CASE later = c /\ v = w
        <5>1. e < d
          BY <2>1, <2>2, <4>1, <4>2
        <5> QED BY <2>3, <4>2, <5>1
      <4>3. CASE ~(later = c /\ v = w)
        BY <2>3, <4>1, <4>3
      <4> QED BY <4>2, <4>3
    <3> QED BY <3>1, <3>2
  <2>6. CarriedWorkIsFollowed'
    BY <2>5 DEF CarriedWorkIsFollowed
  <2> QED BY <1>1, <1>2, <2>1, <2>4, <2>6 DEF BusinessTypes
<1>7. CASE RecordDeployment
  <2>1. PICK c \in Cycle, w \in Work, d \in Deployment :
           /\ deployments' = [deployments EXCEPT ![c][w] = @ \cup {d}]
           /\ UNCHANGED <<work, moved, commitment, observations>>
    BY <1>7 DEF RecordDeployment
  <2>2. deployments' \in [Cycle -> [Work -> SUBSET Deployment]]
    BY <1>1, <2>1 DEF BusinessTypes
  <2> QED BY <1>1, <1>2, <2>1, <2>2 DEF BusinessTypes, CarriedWorkIsFollowed
<1> QED BY <1>3, <1>4, <1>5, <1>6, <1>7

LedgerAccounted ==
    /\ CarriedWorkIsFollowed' /\ CooldownIsKept'
    /\ revision' # revision => \E p \in informed : p \notin recorded /\ p \in recorded'
    /\ \A c \in Concern : AccountedFor(c)

LEMMA ExecuteKeeps ==
    ASSUME LedgerInv, NEW p \in OpsCaller, Execute(p)
    PROVE  LedgerInv' /\ LedgerAccounted
<1>1. /\ Command /\ revision' = revision + 1 /\ revision < EventBound /\ p \in informed /\ p \notin recorded
      /\ informed' = {} /\ recorded' = recorded \cup {p} /\ UNCHANGED now /\ headAt' = now
      /\ report' = [report EXCEPT !.current = FALSE]
  BY DEF Execute, Accepts
<1>2. BusinessTypes /\ IncidentTypes /\ CallerTypes /\ PlanInv /\ CarriedWorkIsFollowed /\ CooldownIsKept
  BY DEF LedgerInv
<1>3. /\ BusinessTypes' /\ CarriedWorkIsFollowed' /\ IncidentsKept
      /\ \A c \in Concern : AccountedFor(c)
  <2>1. CASE \/ CreateWork \/ MoveWork \/ Reschedule \/ SetTarget \/ Carry \/ RecordDeployment \/ ImportObservation
    <3>1. BusinessTypes' /\ CarriedWorkIsFollowed' /\ UNCHANGED incidentVars
      BY <2>1, BusinessSteps
    <3>2. IncidentsKept
      BY <1>1, <1>2, <3>1 DEF IncidentsKept, incidentVars, IncidentTypes, PlanInv, CooldownIsKept
    <3>3. UNCHANGED <<policy, incident, plans>>
      BY <3>1 DEF incidentVars
    <3> QED BY <3>1, <3>2, <3>3, StandsStill
  <2>2. CASE Assess \/ SetPolicy \/ ChangeIncident \/ Snooze \/ Reopen \/ ReviewNotifications
    <3>1. IncidentsKept /\ UNCHANGED businessVars /\ \A c \in Concern : AccountedFor(c)
      BY <1>1, <2>2, AssessKeeps, IncidentSteps
    <3> QED BY <1>2, <3>1 DEF businessVars, BusinessTypes, CarriedWorkIsFollowed
  <2> QED BY <1>1, <2>1, <2>2 DEF Command, OwnerCommand
<1>4. CallerTypes' /\ ReportInv'
  <2>1. /\ report'.current = FALSE /\ headAt' \in Nat
        /\ report' \in [risk : Risk \cup {[severity |-> "none"]}, asOf : Nat, current : BOOLEAN]
    BY <1>1, <1>2 DEF CallerTypes, IncidentTypes
  <2>2. revision' \in 0..EventBound /\ informed' \subseteq OpsCaller /\ recorded' \subseteq OpsCaller
    BY <1>1, <1>2, LedgerAssumption DEF CallerTypes
  <2> QED BY <2>1, <2>2 DEF CallerTypes, ReportInv
<1> QED BY <1>1, <1>3, <1>4 DEF LedgerInv, LedgerAccounted, IncidentsKept

\* A report holds at the time it is for as long as the ledger does not change.
LEMMA StillValidated ==
    ASSUME NEW r, NEW t, UNCHANGED businessVars, Validated(r, t)
    PROVE  Validated(r, t)'
<1>1. UNCHANGED <<work, moved, commitment, deployments, observations>>
  BY DEF businessVars
<1>2. ASSUME NEW c, NEW w PROVE DeploymentStatus(c, w, t)' = DeploymentStatus(c, w, t)
  BY <1>1 DEF DeploymentStatus
<1>3. ASSUME NEW c, NEW w PROVE Disposition(c, w, t)' = Disposition(c, w, t)
  BY <1>1, <1>2 DEF Disposition
<1>4. ASSUME NEW c PROVE Grounded(c, t)' <=> Grounded(c, t)
  BY <1>1, <1>2, <1>3 DEF Grounded
<1> QED BY <1>1, <1>4 DEF Validated, Sources

\* A step of the ledger accounts for what it changes.
LEMMA LedgerStep ==
    ASSUME LedgerInv, [LedgerNext]_ledgerVars
    PROVE  LedgerInv' /\ LedgerAccounted
<1>1. BusinessTypes /\ IncidentTypes /\ CallerTypes /\ PlanInv /\ CarriedWorkIsFollowed /\ CooldownIsKept /\ ReportInv
  BY DEF LedgerInv
<1>2. CASE \E p \in OpsCaller : Execute(p)
  BY <1>2, ExecuteKeeps
<1>3. CASE /\ UNCHANGED <<revision, businessVars, incidentVars>> /\ CallerTypes' /\ ReportInv'
           /\ now' \in Nat /\ now <= now'
  <2>1. UNCHANGED <<work, moved, commitment, deployments, observations, policy, incident, plans>>
    BY <1>3 DEF businessVars, incidentVars
  <2>2. BusinessTypes' /\ CarriedWorkIsFollowed' /\ CooldownIsKept'
    BY <1>1, <2>1 DEF BusinessTypes, CarriedWorkIsFollowed, CooldownIsKept
  <2>3. IncidentTypes'
    BY <1>1, <1>3, <2>1 DEF IncidentTypes
  <2>4. PlanInv'
    <3>1. ASSUME NEW c \in Concern, NEW n \in DOMAIN plans[c] PROVE plans[c][n].at <= now'
      <4>1. PICK at \in Nat : at = plans[c][n].at
        <5>1. plans[c][n] \in Plan
          BY <1>1, ElementOfSeq, LenProperties DEF IncidentTypes
        <5> QED BY <5>1 DEF Plan
      <4>2. at <= now /\ now \in Nat
        BY <1>1, <4>1 DEF PlanInv, IncidentTypes
      <4> QED BY <1>3, <4>1, <4>2
    <3> QED BY <1>1, <2>1, <3>1 DEF PlanInv
  <2>5. \A c \in Concern : AccountedFor(c)
    BY <2>1, StandsStill
  <2> QED BY <1>3, <2>2, <2>3, <2>4, <2>5 DEF LedgerInv, LedgerAccounted
<1>4. CASE (\E p \in OpsCaller : BeginOperation(p) \/ ReadAgain(p)) \/ UNCHANGED ledgerVars
  <2>1. /\ UNCHANGED <<revision, businessVars, incidentVars, headAt, report, now>>
        /\ informed' \subseteq OpsCaller /\ recorded' \subseteq OpsCaller
    BY <1>1, <1>4 DEF BeginOperation, ReadAgain, ledgerVars, CallerTypes
  <2>2. CallerTypes' /\ now' \in Nat /\ now <= now'
    BY <1>1, <2>1 DEF CallerTypes, IncidentTypes
  <2>3. ReportInv'
    BY <1>1, <2>1, StillValidated DEF ReportInv
  <2> QED BY <1>3, <2>1, <2>2, <2>3
<1>5. CASE MakeReport
  <2>1. PICK r \in Risk, t \in headAt..TimeBound :
           Validated(r, t) /\ report' = [risk |-> r, asOf |-> t, current |-> TRUE]
    BY <1>5 DEF MakeReport
  <2>2. UNCHANGED <<revision, informed, recorded, businessVars, incidentVars, headAt, now>>
    BY <1>5 DEF MakeReport
  <2>3. /\ report'.risk = r /\ report'.asOf = t /\ t \in Nat /\ headAt <= t
        /\ report' \in [risk : Risk \cup {[severity |-> "none"]}, asOf : Nat, current : BOOLEAN]
    BY <1>1, <2>1, LedgerAssumption DEF CallerTypes
  <2>4. Validated(r, t)'
    BY <2>1, <2>2, StillValidated
  <2>5. CallerTypes' /\ ReportInv' /\ now' \in Nat /\ now <= now'
    BY <1>1, <2>2, <2>3, <2>4 DEF CallerTypes, ReportInv, IncidentTypes
  <2> QED BY <1>3, <2>2, <2>5
<1>6. CASE TimePasses
  <2>1. UNCHANGED <<revision, informed, recorded, businessVars, incidentVars, headAt, report>> /\ now' = now + 1
    BY <1>6 DEF TimePasses
  <2>2. CallerTypes' /\ now' \in Nat /\ now <= now'
    BY <1>1, <2>1 DEF CallerTypes, IncidentTypes
  <2>3. ReportInv'
    BY <1>1, <2>1, StillValidated DEF ReportInv
  <2> QED BY <1>3, <2>1, <2>2, <2>3
<1> QED BY <1>2, <1>4, <1>5, <1>6 DEF LedgerNext

LEMMA LedgerStarts == LedgerInit => LedgerInv
<1> SUFFICES ASSUME LedgerInit PROVE LedgerInv
  OBVIOUS
<1>1. BusinessTypes /\ CarriedWorkIsFollowed
  <2>1. PICK s \in {"absent", "ready"} :
           /\ work = [w \in Work |-> s]
           /\ commitment = [c \in Cycle |-> [w \in Work |-> IF s = "ready" /\ c = 1 THEN "included" ELSE "none"]]
    BY DEF LedgerInit
  <2>2. \A c \in Cycle, w \in Work : commitment[c][w] # "carried"
    BY <2>1
  <2>3. commitment \in [Cycle -> [Work -> {"none", "included", "excluded", "carried"}]]
    BY <2>1
  <2> QED BY <2>1, <2>2, <2>3 DEF LedgerInit, BusinessTypes, CarriedWorkIsFollowed, WorkState
<1>2. IncidentTypes /\ PlanInv /\ CooldownIsKept
  <2>1. /\ policy \in Policy \cup {DefaultPolicy} /\ now \in Nat /\ incident = [c \in Concern |-> NoIncident]
        /\ plans = [c \in Concern |-> <<>>]
    BY DEF LedgerInit
  <2>2. \A c \in Concern : plans[c] = <<>> /\ DOMAIN plans[c] = {} /\ incident[c] = NoIncident
    BY <2>1
  <2>3. incident \in [Concern -> Known \cup {NoIncident}] /\ plans \in [Concern -> Seq(Plan)]
    BY <2>1
  <2> QED BY <2>1, <2>2, <2>3 DEF IncidentTypes, PlanInv, CooldownIsKept
<1>3. CallerTypes /\ ReportInv
  BY LedgerAssumption DEF LedgerInit, CallerTypes, ReportInv, NoReport
<1> QED BY <1>1, <1>2, <1>3 DEF LedgerInv

LEMMA LedgerTyped == LedgerInv => LedgerTypeOK
<1> SUFFICES ASSUME LedgerInv PROVE LedgerTypeOK
  OBVIOUS
<1>1. \A c \in Concern : incident[c] # NoIncident => incident[c] \in Known
  BY DEF LedgerInv, IncidentTypes
<1>2. BusinessTypes /\ CallerTypes
  BY DEF LedgerInv
<1> QED BY <1>1, <1>2 DEF LedgerTypeOK, BusinessTypes, CallerTypes, Known

-----------------------------------------------------------------------------
(***************************************************************************)
(* The instructions of a workgroup                                         *)
(***************************************************************************)

AnyBundle == Bundles \cup {NoBundle}
Run == [app : Application, wish : AnyBundle, pin : AnyBundle, attempt : 0..AttemptBound,
        status : {"queued", "completed", "waiting_input"}, made : SUBSET Nat]
Proposal == [app : Application, base : AnyBundle, candidate : AnyBundle]
Review == [purpose : {"evaluation", "analysis"}, run : Nat, attempt : 0..AttemptBound,
           outcome : {"pending", "interrupted", "failed", "generated"}, process : {"none", "live", "gone"},
           verdict : Outcomes \cup {"none"}]
Decision == [op : {"select"}, action : {"adopt", "rollback", "initialize"}, app : Application,
             base : AnyBundle, selects : AnyBundle]

FeedbackTypes ==
    /\ engine \in {"legacy", "flow"}
    /\ selected \in [Application -> AnyBundle] /\ everSelected \in [Application -> SUBSET AnyBundle]
    /\ runs \in Seq(Run) /\ Len(runs) <= RunBound
    /\ evaluations \subseteq Evaluation
    /\ proposals \in Seq(Proposal) /\ checked \subseteq DOMAIN proposals
    /\ reviews \in Seq(Review) /\ Len(reviews) <= ReviewBound
    /\ command \in {NoCommand} \cup [op : {"review", "judge"}, of : Nat] \cup Decision

\* Results are those of the attempts of a run.
MadeInv == \A r \in DOMAIN runs : runs[r].made \subseteq 1..runs[r].attempt

\* A review asks about a run; the command at work waits for the last one.
ReviewInv ==
    /\ ReviewsAreAccountedFor
    /\ \A k \in DOMAIN reviews : /\ reviews[k].run \in DOMAIN runs
                                 /\ reviews[k].outcome = "generated" => reviews[k].verdict \in Outcomes
    /\ command.op \in {"review", "judge"} => command.of \in DOMAIN reviews
    /\ command.op = "review" => command.of = Len(reviews) /\ reviews[command.of].outcome = "pending"

\* What was compared is still so, as long as the run makes no further attempt.
Backed(s) ==
    /\ s.run \in DOMAIN runs /\ s.app = runs[s.run].app /\ s.attempt <= runs[s.run].attempt
    /\ runs[s.run].attempt = s.attempt => runs[s.run].pin = s.pin
    /\ s.evaluation \in evaluations /\ s.evaluation.run = s.run /\ s.evaluation.attempt = s.attempt

EvidenceInv ==
    /\ \A e \in evaluations : e.run \in DOMAIN runs /\ e.attempt \in runs[e.run].made
    /\ \A c \in comparisons : Backed(c[1]) /\ Backed(c[2])

\* What is selected was proposed for where it is, and against what was selected there.
SelectedInv ==
    /\ \A a \in Application : Fits(selected[a], a) /\ (selected[a] # NoBundle => selected[a] \in everSelected[a])
    /\ \A p \in DOMAIN proposals :
          /\ proposals[p].base \in everSelected[proposals[p].app]
          /\ Fits(proposals[p].base, proposals[p].app) /\ Fits(proposals[p].candidate, proposals[p].app)

\* Nothing that a decision rests on changes until it is in effect.
DecisionInv ==
    command.op = "select" =>
        /\ command.base = selected[command.app] /\ Fits(command.selects, command.app)
        /\ command.action = "adopt" => Proven(command.selects, command.app)
        /\ command.action = "initialize" => command.base = NoBundle
        /\ command.action = "rollback" => command.selects \in everSelected[command.app]

FeedbackInv == FeedbackTypes /\ MadeInv /\ ReviewInv /\ EvidenceInv /\ SelectedInv /\ DecisionInv

LEMMA Bounded == /\ RunBound \in Nat /\ AttemptBound \in Nat /\ ReviewBound \in Nat
                 /\ 0 \in 0..AttemptBound /\ "domain" \in Application /\ "team" \in Application
BY FeedbackAssumption DEF Application

\* Compositions are made of bundles, for the scope of the team.
LEMMA BundleFacts ==
    /\ Domain(BuiltIn) \in Bundles /\ Domain(Plain) \in Bundles
    /\ \A x, a : Fits(Domain(x), a)
    /\ \A b : Fits(b, "team") /\ (Fits(b, "domain") => b.parts = {})
    /\ \A b \in AnyBundle, parts \in Compositions : b # NoBundle => Compose(b, parts) \in Bundles
<1>1. ASSUME NEW b \in AnyBundle, NEW parts \in Compositions, b # NoBundle PROVE Compose(b, parts) \in Bundles
  <2>1. PICK x \in {BuiltIn, Plain} : b.base = x
    BY <1>1 DEF AnyBundle, Bundles, Domain, Compose
  <2>2. Compose(b, parts) = Compose(Domain(x), parts)
    BY <2>1 DEF Compose, Domain
  <2> QED BY <2>2 DEF Bundles
<1>2. \A x, a : Fits(Domain(x), a)
  BY DEF Fits, Domain
<1>3. \A b : Fits(b, "team") /\ (Fits(b, "domain") => b.parts = {})
  BY DEF Fits
<1> QED BY <1>1, <1>2, <1>3 DEF Bundles

LEMMA TriedBundles ==
    ASSUME FeedbackTypes, NEW a \in Application, Active(a) # NoBundle
    PROVE  Active(a) \in AnyBundle /\ Experiments(a) \subseteq AnyBundle
BY BundleFacts DEF FeedbackTypes, Active, Experiments, AnyBundle

\* Runs after a step: they go on, and what they run under changes only with an attempt.
RunsGoOn ==
    /\ runs' \in Seq(Run) /\ Len(runs') <= RunBound /\ MadeInv'
    /\ \A r \in DOMAIN runs :
          /\ r \in DOMAIN runs' /\ runs'[r].app = runs[r].app /\ runs[r].made \subseteq runs'[r].made
          /\ runs[r].attempt <= runs'[r].attempt
          /\ runs'[r].attempt = runs[r].attempt => runs'[r].pin = runs[r].pin

\* A run is replaced by what has become of it.
LEMMA RunGoesOn ==
    ASSUME FeedbackTypes, MadeInv, NEW r \in DOMAIN runs, NEW run \in Run, runs' = [runs EXCEPT ![r] = run],
           run.app = runs[r].app, runs[r].made \subseteq run.made, runs[r].attempt <= run.attempt,
           run.made \subseteq 1..run.attempt, run.attempt = runs[r].attempt => run.pin = runs[r].pin
    PROVE  RunsGoOn
<1>1. PICK size \in Nat : size = Len(runs) /\ DOMAIN runs = 1..size /\ runs \in [1..size -> Run]
  BY LenProperties DEF FeedbackTypes
<1>2. /\ runs' \in [1..size -> Run] /\ DOMAIN runs' = 1..size
      /\ \A q \in 1..size : runs'[q] = IF q = r THEN run ELSE runs[q]
  BY <1>1
<1>3. runs' \in Seq(Run) /\ Len(runs') = size
  BY <1>1, ExceptSeq DEF FeedbackTypes
<1>4. \A q \in 1..size : runs[q].attempt <= runs[q].attempt
  BY <1>1 DEF Run
<1>5. MadeInv'
  BY <1>1, <1>2 DEF MadeInv
<1>6. Len(runs') <= RunBound
  BY <1>1, <1>3 DEF FeedbackTypes
<1> QED BY <1>1, <1>2, <1>3, <1>4, <1>5, <1>6 DEF RunsGoOn

LEMMA RunSteps ==
    ASSUME FeedbackInv, SubmitRun \/ \E r \in DOMAIN runs : RunAttempt(r) \/ ResumeRun(r)
    PROVE  /\ RunsGoOn /\ Free
           /\ UNCHANGED <<engine, selected, evidenceVars, reviews, command, everSelected>>
<1>1. FeedbackTypes /\ MadeInv
  BY DEF FeedbackInv
<1>2. PICK size \in Nat : size = Len(runs) /\ DOMAIN runs = 1..size /\ runs \in [1..size -> Run]
  BY <1>1, LenProperties DEF FeedbackTypes
<1>3. Free /\ UNCHANGED <<engine, selected, evidenceVars, reviews, command, everSelected>>
  BY DEF SubmitRun, RunAttempt, ResumeRun
<1>4. CASE SubmitRun
  <2>1. PICK app \in Application : \E wish \in {NoBundle} \cup Experiments(app) :
           LET bundle == IF wish = NoBundle THEN Active(app) ELSE wish
               early == app # "domain" \/ engine = "flow"
           IN /\ Active(app) # NoBundle /\ size < RunBound
              /\ runs' = Append(runs, [app |-> app, wish |-> IF early THEN bundle ELSE wish,
                                       pin |-> IF early THEN bundle ELSE NoBundle,
                                       attempt |-> 0, status |-> "queued", made |-> {}])
    BY <1>2, <1>4 DEF SubmitRun
  <2>2. PICK wish \in {NoBundle} \cup Experiments(app) :
           LET bundle == IF wish = NoBundle THEN Active(app) ELSE wish
               early == app # "domain" \/ engine = "flow"
           IN /\ Active(app) # NoBundle /\ size < RunBound
              /\ runs' = Append(runs, [app |-> app, wish |-> IF early THEN bundle ELSE wish,
                                       pin |-> IF early THEN bundle ELSE NoBundle,
                                       attempt |-> 0, status |-> "queued", made |-> {}])
    BY <2>1
  <2>3. PICK bundle \in AnyBundle : bundle = IF wish = NoBundle THEN Active(app) ELSE wish
    BY <1>1, <2>2, TriedBundles
  <2>4. wish \in AnyBundle /\ NoBundle \in AnyBundle
    BY <1>1, <2>2, TriedBundles DEF AnyBundle
  <2>5. PICK w \in AnyBundle, pin \in AnyBundle :
           runs' = Append(runs, [app |-> app, wish |-> w, pin |-> pin, attempt |-> 0, status |-> "queued",
                                 made |-> {}])
    BY <2>2, <2>3, <2>4
  <2>6. PICK run : run = [app |-> app, wish |-> w, pin |-> pin, attempt |-> 0, status |-> "queued", made |-> {}]
    OBVIOUS
  <2>7. run \in Run /\ run.made = {}
    BY <2>6, Bounded DEF Run
  <2>8. /\ runs' \in Seq(Run) /\ Len(runs') = size + 1 /\ runs'[size + 1] = run
        /\ \A r \in 1..size : runs'[r] = runs[r]
    BY <1>1, <1>2, <2>5, <2>6, <2>7, AppendProperties DEF FeedbackTypes
  <2>9. DOMAIN runs' = 1..(size + 1)
    BY <2>8, LenProperties
  <2>10. MadeInv'
    <3>1. ASSUME NEW r \in 1..(size + 1) PROVE runs'[r].made \subseteq 1..runs'[r].attempt
      <4>1. CASE r = size + 1
        BY <2>7, <2>8, <4>1
      <4>2. CASE r \in 1..size
        BY <1>1, <1>2, <2>8, <4>2 DEF MadeInv
      <4> QED BY <4>1, <4>2
    <3> QED BY <2>9, <3>1 DEF MadeInv
  <2>11. size + 1 <= RunBound /\ \A r \in 1..size : r \in 1..(size + 1) /\ runs[r].attempt <= runs[r].attempt
    BY <1>2, <2>2, Bounded DEF Run
  <2> QED BY <1>2, <1>3, <2>8, <2>9, <2>10, <2>11 DEF RunsGoOn
<1>5. ASSUME NEW r \in DOMAIN runs, RunAttempt(r) PROVE RunsGoOn
  <2>1. PICK status \in {"completed", "waiting_input"}, told \in BOOLEAN :
           runs' = [runs EXCEPT ![r] =
                [runs[r] EXCEPT !.status = status, !.attempt = @ + 1,
                          !.made = IF told THEN @ \cup {runs[r].attempt + 1} ELSE @,
                          !.pin = IF runs[r].wish = NoBundle THEN Active(runs[r].app) ELSE runs[r].wish]]
    BY <1>5 DEF RunAttempt
  <2>2. PICK old \in Run : old = runs[r] /\ old.made \subseteq 1..old.attempt
    BY <1>1, <1>2 DEF MadeInv
  <2>3. old.attempt \in Nat /\ old.attempt < AttemptBound /\ old.made \in SUBSET Nat
    <3>1. runs[r].attempt < AttemptBound
      BY <1>5 DEF RunAttempt
    <3> QED BY <2>2, <3>1 DEF Run
  <2>4. PICK n \in Nat : n = old.attempt + 1 /\ n \in 0..AttemptBound /\ old.attempt <= n /\ n # old.attempt
    BY <2>3, Bounded
  <2>5. PICK made \in SUBSET Nat : made = (IF told THEN old.made \cup {old.attempt + 1} ELSE old.made)
    BY <2>3, <2>4
  <2>6. PICK pin \in AnyBundle : pin = IF old.wish = NoBundle THEN Active(old.app) ELSE old.wish
    BY <1>1 DEF FeedbackTypes, Active, Run
  <2>7. PICK run : run = [runs[r] EXCEPT !.status = status, !.attempt = @ + 1,
                                         !.made = IF told THEN @ \cup {runs[r].attempt + 1} ELSE @,
                                         !.pin = IF runs[r].wish = NoBundle THEN Active(runs[r].app)
                                                 ELSE runs[r].wish]
    OBVIOUS
  <2>8. runs' = [runs EXCEPT ![r] = run]
    BY <2>1, <2>7
  <2>9. run = [old EXCEPT !.status = status, !.attempt = n, !.made = made, !.pin = pin]
    BY <2>2, <2>4, <2>5, <2>6, <2>7
  <2>10. run \in Run /\ run.app = old.app /\ run.made = made /\ run.attempt = n
    BY <2>4, <2>9 DEF Run
  <2>11. old.made \subseteq made /\ made \subseteq 1..n
    BY <2>2, <2>3, <2>4, <2>5
  <2> QED BY <1>1, <2>2, <2>4, <2>8, <2>10, <2>11, RunGoesOn
<1>6. ASSUME NEW r \in DOMAIN runs, ResumeRun(r) PROVE RunsGoOn
  <2>1. PICK old \in Run : old = runs[r] /\ old.made \subseteq 1..old.attempt
    BY <1>1, <1>2 DEF MadeInv
  <2>2. PICK run : run = [old EXCEPT !.status = "queued"]
    OBVIOUS
  <2>3. runs' = [runs EXCEPT ![r] = run]
    BY <1>6, <2>1, <2>2 DEF ResumeRun
  <2>4. /\ run \in Run /\ run.app = old.app /\ run.made = old.made /\ run.attempt = old.attempt /\ run.pin = old.pin
        /\ old.attempt <= old.attempt
    BY <2>2 DEF Run
  <2> QED BY <1>1, <2>1, <2>3, <2>4, RunGoesOn
<1> QED BY <1>3, <1>4, <1>5, <1>6

\* A step of the controller, or of the person who answers it.
LEMMA RunsKeep ==
    ASSUME FeedbackInv, RunsGoOn, Free,
           UNCHANGED <<engine, selected, evidenceVars, reviews, command, everSelected>>
    PROVE  FeedbackInv'
<1>1. /\ engine' = engine /\ selected' = selected /\ evaluations' = evaluations /\ comparisons' = comparisons
      /\ proposals' = proposals /\ checked' = checked /\ reviews' = reviews /\ everSelected' = everSelected
      /\ command' = command /\ command = NoCommand
  BY DEF evidenceVars, Free
<1>2. FeedbackTypes'
  BY <1>1 DEF FeedbackInv, FeedbackTypes, RunsGoOn
<1>3. MadeInv'
  BY DEF RunsGoOn
<1>4. ReviewInv'
  <2>1. command'.op = "none"
    BY <1>1 DEF NoCommand
  <2>2. ReviewsAreAccountedFor'
    BY <1>1 DEF FeedbackInv, ReviewInv, ReviewsAreAccountedFor, Verified
  <2> QED BY <1>1, <2>1, <2>2 DEF FeedbackInv, ReviewInv, RunsGoOn
<1>5. EvidenceInv'
  <2>1. \A r \in DOMAIN runs : runs[r].attempt \in Nat
    <3>1. PICK size \in Nat : DOMAIN runs = 1..size /\ runs \in [1..size -> Run]
      BY LenProperties DEF FeedbackInv, FeedbackTypes
    <3> QED BY <3>1, Bounded DEF Run
  <2>2. ASSUME NEW s, Backed(s) PROVE Backed(s)'
    <3>1. s.attempt \in Nat
      BY <2>2, Bounded DEF Backed, FeedbackInv, FeedbackTypes, Evaluation
    <3>2. s.run \in DOMAIN runs /\ s.run \in DOMAIN runs' /\ s.app = runs'[s.run].app
      BY <2>2 DEF Backed, RunsGoOn
    <3>3. PICK n, m : /\ n = runs[s.run].attempt /\ m = runs'[s.run].attempt
                      /\ n \in Nat /\ s.attempt <= n /\ n <= m
      BY <2>1, <2>2, <3>2 DEF Backed, RunsGoOn
    <3>4. m \in Nat
      <4>1. PICK size \in Nat : DOMAIN runs' = 1..size /\ runs' \in [1..size -> Run]
        BY LenProperties DEF RunsGoOn
      <4> QED BY <3>2, <3>3, <4>1, Bounded DEF Run
    <3>5. m = s.attempt => runs'[s.run].pin = s.pin
      <4>1. m = s.attempt => n = s.attempt /\ n = m
        BY <3>1, <3>3, <3>4
      <4> QED BY <2>2, <3>2, <3>3, <4>1 DEF Backed, RunsGoOn
    <3>6. s.attempt <= m
      BY <3>1, <3>3, <3>4
    <3> QED BY <1>1, <2>2, <3>2, <3>3, <3>5, <3>6 DEF Backed
  <2>3. \A e \in evaluations : e.run \in DOMAIN runs' /\ e.attempt \in runs'[e.run].made
    BY DEF FeedbackInv, EvidenceInv, RunsGoOn
  <2> QED BY <1>1, <2>2, <2>3 DEF FeedbackInv, EvidenceInv
<1>6. SelectedInv' /\ DecisionInv'
  BY <1>1 DEF FeedbackInv, SelectedInv, DecisionInv, NoCommand
<1> QED BY <1>2, <1>3, <1>4, <1>5, <1>6 DEF FeedbackInv

\* New evaluations are of what a run has made, and say what their review says.
LEMMA EvaluationsKeep ==
    ASSUME FeedbackInv, NEW new \in SUBSET Evaluation, evaluations' = evaluations \cup new, command' = NoCommand,
           UNCHANGED <<engine, selected, runs, comparisons, proposals, checked, reviews, everSelected>>,
           \A e \in new : Judges(e) /\ e.run \in DOMAIN runs /\ (ByPerson(e) \/ Verified(e))
    PROVE  FeedbackInv'
<1>1. FeedbackTypes' /\ MadeInv'
  BY DEF FeedbackInv, FeedbackTypes, MadeInv
<1>2. \A e \in new : /\ e.run \in DOMAIN runs /\ e.attempt \in runs[e.run].made
                     /\ e.execution # 0 => Verified(e)
  BY DEF Judges, ByPerson
<1>3. ReviewInv'
  <2>1. \A e : Verified(e) <=> Verified(e)'
    BY DEF Verified
  <2>2. \A e \in evaluations' : e.execution # 0 => Verified(e)'
    BY <1>2, <2>1 DEF FeedbackInv, ReviewInv, ReviewsAreAccountedFor
  <2>3. ReviewsAreAccountedFor'
    BY <2>2 DEF FeedbackInv, ReviewInv, ReviewsAreAccountedFor
  <2> QED BY <2>3 DEF FeedbackInv, ReviewInv, NoCommand
<1>4. EvidenceInv'
  BY <1>2 DEF FeedbackInv, EvidenceInv, Backed
<1>5. SelectedInv' /\ DecisionInv'
  BY DEF FeedbackInv, SelectedInv, DecisionInv, NoCommand
<1> QED BY <1>1, <1>3, <1>4, <1>5 DEF FeedbackInv

LEMMA ImportKeeps ==
    ASSUME FeedbackInv, ImportEvaluation
    PROVE  FeedbackInv'
<1>1. PICK e \in Evaluation : /\ e.run \in DOMAIN runs /\ Judges(e) /\ (ByPerson(e) \/ Verified(e))
                              /\ evaluations' = evaluations \cup {e}
  BY DEF ImportEvaluation
<1>2. /\ command' = NoCommand
      /\ UNCHANGED <<engine, selected, runs, comparisons, proposals, checked, reviews, everSelected>>
  BY DEF ImportEvaluation, Free
<1>3. PICK new \in SUBSET Evaluation : new = {e}
  OBVIOUS
<1>4. \A d \in new : Judges(d) /\ d.run \in DOMAIN runs /\ (ByPerson(d) \/ Verified(d))
  BY <1>1, <1>3
<1>5. evaluations' = evaluations \cup new
  BY <1>1, <1>3
<1> QED BY <1>2, <1>4, <1>5, EvaluationsKeep

LEMMA JudgeKeeps ==
    ASSUME FeedbackInv, JudgeReview
    PROVE  FeedbackInv'
<1>1. command.of \in DOMAIN reviews
  BY DEF FeedbackInv, ReviewInv, JudgeReview
<1>2. PICK size \in Nat : DOMAIN reviews = 1..size /\ size <= ReviewBound /\ reviews \in [1..size -> Review]
  BY LenProperties DEF FeedbackInv, FeedbackTypes
<1>3. PICK long \in Nat : DOMAIN runs = 1..long /\ long <= RunBound /\ runs \in [1..long -> Run]
  BY LenProperties DEF FeedbackInv, FeedbackTypes
<1>4. PICK of \in 1..size : of = command.of
  BY <1>1, <1>2
<1>5. PICK v \in Review : v = reviews[of] /\ v.run \in 1..long
  BY <1>2, <1>3, <1>4 DEF FeedbackInv, ReviewInv
<1>6. PICK e : e = [run |-> v.run, attempt |-> v.attempt, outcome |-> v.verdict, execution |-> of]
  OBVIOUS
<1>7. PICK new : new = (IF Judges(e) /\ Verified(e) THEN {e} ELSE {})
  OBVIOUS
<1>8. evaluations' = evaluations \cup new
  BY <1>4, <1>5, <1>6, <1>7 DEF JudgeReview
<1>9. ASSUME Judges(e), Verified(e) PROVE e \in Evaluation
  <2>1. v.verdict \in Outcomes
    BY <1>2, <1>4, <1>5, <1>6, <1>9 DEF Verified, FeedbackInv, ReviewInv
  <2>2. v.attempt \in 1..runs[v.run].attempt /\ runs[v.run].attempt \in 0..AttemptBound
    BY <1>3, <1>5, <1>6, <1>9 DEF Judges, FeedbackInv, MadeInv, Run
  <2>3. v.attempt \in 1..AttemptBound
    BY <2>2, Bounded
  <2>4. v.run \in 1..RunBound /\ of \in 0..ReviewBound
    BY <1>2, <1>3, <1>5, Bounded
  <2> QED BY <1>6, <2>1, <2>3, <2>4 DEF Evaluation
<1>10. new \in SUBSET Evaluation /\ \A d \in new : Judges(d) /\ d.run \in DOMAIN runs /\ (ByPerson(d) \/ Verified(d))
  BY <1>3, <1>5, <1>6, <1>7, <1>9
<1>11. /\ command' = NoCommand
       /\ UNCHANGED <<engine, selected, runs, comparisons, proposals, checked, reviews, everSelected>>
  BY DEF JudgeReview
<1> QED BY <1>8, <1>10, <1>11, EvaluationsKeep

\* Reviews after a step: what a reviewer has said is never changed.
ReviewsGoOn ==
    /\ reviews' \in Seq(Review) /\ Len(reviews') <= ReviewBound
    /\ \A k \in DOMAIN reviews' :
          /\ reviews'[k].run \in DOMAIN runs
          /\ reviews'[k].outcome = "generated" => reviews'[k].verdict \in Outcomes
          /\ reviews'[k].process = "live" => reviews'[k].outcome = "pending" /\ k = Len(reviews')
    /\ \A k \in DOMAIN reviews :
          /\ k \in DOMAIN reviews'
          /\ reviews[k].outcome = "generated" => reviews'[k] = reviews[k]

\* The command at work waits for the last review.
Waits == /\ command.op \in {"review", "judge"} => command.of \in DOMAIN reviews
         /\ command.op = "review" => command.of = Len(reviews) /\ reviews[command.of].outcome = "pending"

LEMMA ReviewsKeep ==
    ASSUME FeedbackInv, ReviewsGoOn, Waits', UNCHANGED <<engine, selected, runs, evidenceVars, everSelected>>,
           command' \in {NoCommand} \cup [op : {"review", "judge"}, of : Nat]
    PROVE  FeedbackInv'
<1>1. /\ engine' = engine /\ selected' = selected /\ evaluations' = evaluations /\ comparisons' = comparisons
      /\ proposals' = proposals /\ checked' = checked /\ runs' = runs /\ everSelected' = everSelected
  BY DEF evidenceVars
<1>2. FeedbackTypes' /\ MadeInv'
  BY <1>1 DEF FeedbackInv, FeedbackTypes, MadeInv, ReviewsGoOn
<1>3. ReviewInv'
  <2>1. \A e : Verified(e) => Verified(e)'
    BY DEF Verified, ReviewsGoOn
  <2>2. ReviewsAreAccountedFor'
    BY <1>1, <2>1 DEF FeedbackInv, ReviewInv, ReviewsAreAccountedFor, ReviewsGoOn
  <2> QED BY <1>1, <2>2 DEF Waits, ReviewInv, ReviewsGoOn
<1>4. EvidenceInv'
  BY <1>1 DEF FeedbackInv, EvidenceInv, Backed
<1>5. SelectedInv'
  BY <1>1 DEF FeedbackInv, SelectedInv
<1>6. DecisionInv'
  <2>1. command'.op # "select"
    BY DEF NoCommand
  <2> QED BY <2>1 DEF DecisionInv
<1> QED BY <1>2, <1>3, <1>4, <1>5, <1>6 DEF FeedbackInv

\* A review is replaced by what has become of it.
LEMMA ReviewGoesOn ==
    ASSUME FeedbackInv, NEW k \in DOMAIN reviews, NEW review \in Review, reviews' = [reviews EXCEPT ![k] = review],
           reviews[k].outcome # "generated", review.run = reviews[k].run,
           review.outcome = "generated" => review.verdict \in Outcomes,
           review.process = "live" => review.outcome = "pending" /\ k = Len(reviews)
    PROVE  ReviewsGoOn /\ DOMAIN reviews' = DOMAIN reviews /\ Len(reviews') = Len(reviews)
           /\ reviews'[k] = review
<1>1. PICK size \in Nat : size = Len(reviews) /\ DOMAIN reviews = 1..size /\ reviews \in [1..size -> Review]
  BY LenProperties DEF FeedbackInv, FeedbackTypes
<1>2. /\ DOMAIN reviews' = 1..size
      /\ \A q \in 1..size : reviews'[q] = IF q = k THEN review ELSE reviews[q]
  BY <1>1
<1>3. reviews' \in Seq(Review) /\ Len(reviews') = size /\ size <= ReviewBound
  BY <1>1, ExceptSeq DEF FeedbackInv, FeedbackTypes
<1>4. \A q \in 1..size :
          /\ reviews[q].run \in DOMAIN runs
          /\ reviews[q].outcome = "generated" => reviews[q].verdict \in Outcomes
          /\ reviews[q].process = "live" => reviews[q].outcome = "pending" /\ q = size
  BY <1>1 DEF FeedbackInv, ReviewInv, ReviewsAreAccountedFor
<1> QED BY <1>1, <1>2, <1>3, <1>4 DEF ReviewsGoOn

LEMMA InterruptedFacts ==
    ASSUME FeedbackInv, NEW size \in Nat, size = Len(reviews)
    PROVE  /\ Interrupted(reviews) \in Seq(Review) /\ DOMAIN reviews = 1..size
           /\ Len(Interrupted(reviews)) = size /\ DOMAIN Interrupted(reviews) = 1..size
           /\ \A k \in 1..size :
                 /\ Interrupted(reviews)[k].run \in DOMAIN runs
                 /\ Interrupted(reviews)[k].process # "live"
                 /\ Interrupted(reviews)[k].outcome = "generated" => Interrupted(reviews)[k].verdict \in Outcomes
                 /\ reviews[k].outcome = "generated" => Interrupted(reviews)[k] = reviews[k]
<1>1. DOMAIN reviews = 1..size /\ reviews \in [1..size -> Review]
  BY LenProperties DEF FeedbackInv, FeedbackTypes
<1>2. ASSUME NEW k \in 1..size, NEW x, NEW y,
             x = reviews[k], y = IF x.outcome = "pending" THEN [x EXCEPT !.outcome = "interrupted", !.process = "gone"] ELSE x
      PROVE  /\ y \in Review /\ y.run \in DOMAIN runs /\ y.process # "live"
             /\ y.outcome = "generated" => y.verdict \in Outcomes
             /\ x.outcome = "generated" => y = x
  <2>1. /\ x \in Review /\ x.run \in DOMAIN runs
        /\ x.outcome = "generated" => x.verdict \in Outcomes
        /\ x.process = "live" => x.outcome = "pending"
    BY <1>1, <1>2 DEF FeedbackInv, ReviewInv, ReviewsAreAccountedFor
  <2>2. CASE x.outcome = "pending"
    BY <1>2, <2>1, <2>2 DEF Review
  <2>3. CASE x.outcome # "pending"
    BY <1>2, <2>1, <2>3
  <2> QED BY <2>2, <2>3
<1>3. PICK f : f = Interrupted(reviews)
  OBVIOUS
<1>4. /\ f = [k \in 1..size |-> f[k]]
      /\ \A k \in 1..size : f[k] = IF reviews[k].outcome = "pending"
                                   THEN [reviews[k] EXCEPT !.outcome = "interrupted", !.process = "gone"]
                                   ELSE reviews[k]
  BY <1>1, <1>3 DEF Interrupted
<1>5. \A k \in 1..size : /\ f[k] \in Review /\ f[k].run \in DOMAIN runs /\ f[k].process # "live"
                         /\ f[k].outcome = "generated" => f[k].verdict \in Outcomes
                         /\ reviews[k].outcome = "generated" => f[k] = reviews[k]
  BY <1>2, <1>4
<1>6. f \in [1..size -> Review]
  BY <1>4, <1>5
<1>7. f \in Seq(Review) /\ Len(f) = size /\ DOMAIN f = 1..size
  BY <1>6, LenProperties, SeqDef
<1> QED BY <1>1, <1>3, <1>5, <1>7

LEMMA RecoverKeeps ==
    ASSUME FeedbackInv, RecoverReviews
    PROVE  FeedbackInv'
<1>1. PICK size \in Nat : size = Len(reviews) /\ size <= ReviewBound
  BY LenProperties DEF FeedbackInv, FeedbackTypes
<1>2. /\ reviews' = Interrupted(reviews) /\ command' = NoCommand
      /\ UNCHANGED <<engine, selected, runs, evidenceVars, everSelected>>
  BY DEF RecoverReviews, Free
<1>3. ReviewsGoOn
  BY <1>1, <1>2, InterruptedFacts DEF ReviewsGoOn
<1>4. Waits'
  BY <1>2 DEF Waits, NoCommand
<1> QED BY <1>2, <1>3, <1>4, ReviewsKeep

LEMMA RequestKeeps ==
    ASSUME FeedbackInv, NEW r \in DOMAIN runs, BeginReview(r) \/ Analyze(r)
    PROVE  FeedbackInv'
<1>1. PICK size \in Nat : size = Len(reviews) /\ size < ReviewBound
  BY LenProperties DEF FeedbackInv, FeedbackTypes, BeginReview, Analyze, RequestReview
<1>2. PICK f : f = Interrupted(reviews)
  OBVIOUS
<1>3. /\ f \in Seq(Review) /\ DOMAIN reviews = 1..size /\ Len(f) = size /\ DOMAIN f = 1..size
      /\ \A k \in 1..size :
            /\ f[k].run \in DOMAIN runs /\ f[k].process # "live"
            /\ f[k].outcome = "generated" => f[k].verdict \in Outcomes
            /\ reviews[k].outcome = "generated" => f[k] = reviews[k]
  BY <1>1, <1>2, InterruptedFacts
<1>4. PICK purpose \in {"evaluation", "analysis"} :
         /\ reviews' = Append(f, [purpose |-> purpose, run |-> r, attempt |-> runs[r].attempt,
                                  outcome |-> "pending", process |-> "none", verdict |-> "none"])
         /\ command' = [op |-> "review", of |-> size + 1]
         /\ UNCHANGED <<engine, selected, runs, evidenceVars, everSelected>>
  BY <1>1, <1>2 DEF BeginReview, Analyze, RequestReview
<1>5. runs[r].attempt \in 0..AttemptBound /\ r \in Nat
  <2>1. PICK long \in Nat : DOMAIN runs = 1..long /\ runs \in [1..long -> Run]
    BY LenProperties DEF FeedbackInv, FeedbackTypes
  <2> QED BY <2>1 DEF Run
<1>6. PICK review \in Review :
         /\ review.run = r /\ review.outcome = "pending" /\ review.process = "none"
         /\ reviews' = Append(f, review)
  <2>1. PICK review : review = [purpose |-> purpose, run |-> r, attempt |-> runs[r].attempt,
                                outcome |-> "pending", process |-> "none", verdict |-> "none"]
    OBVIOUS
  <2>2. review \in Review /\ review.run = r /\ review.outcome = "pending" /\ review.process = "none"
    BY <1>5, <2>1 DEF Review
  <2> QED BY <1>4, <2>1, <2>2
<1>7. /\ reviews' \in Seq(Review) /\ Len(reviews') = size + 1 /\ reviews'[size + 1] = review
      /\ \A k \in 1..size : reviews'[k] = f[k]
  BY <1>3, <1>6, AppendProperties
<1>8. DOMAIN reviews' = 1..(size + 1) /\ size + 1 <= ReviewBound
  BY <1>1, <1>7, LenProperties, Bounded
<1>9. ASSUME NEW k \in 1..(size + 1)
      PROVE  /\ reviews'[k].run \in DOMAIN runs
             /\ reviews'[k].outcome = "generated" => reviews'[k].verdict \in Outcomes
             /\ reviews'[k].process # "live"
  <2>1. CASE k = size + 1
    BY <1>6, <1>7, <2>1
  <2>2. CASE k \in 1..size
    BY <1>3, <1>7, <2>2
  <2> QED BY <2>1, <2>2
<1>10. ReviewsGoOn
  BY <1>3, <1>7, <1>8, <1>9 DEF ReviewsGoOn
<1>11. Waits'
  BY <1>4, <1>6, <1>7, <1>8 DEF Waits
<1> QED BY <1>4, <1>10, <1>11, ReviewsKeep

LEMMA ReviewerKeeps ==
    ASSUME FeedbackInv, StartReviewer \/ EndReviewer
    PROVE  FeedbackInv'
<1>1. command.op = "review"
  BY DEF StartReviewer, EndReviewer
<1>2. PICK size \in Nat : size = Len(reviews) /\ DOMAIN reviews = 1..size /\ reviews \in [1..size -> Review]
  BY LenProperties DEF FeedbackInv, FeedbackTypes
<1>3. command \in [op : {"review", "judge"}, of : Nat]
  BY <1>1 DEF FeedbackInv, FeedbackTypes, NoCommand, Decision
<1>4. PICK of \in DOMAIN reviews : of = command.of /\ of = size /\ reviews[of].outcome = "pending"
  BY <1>1, <1>2 DEF FeedbackInv, ReviewInv
<1>5. UNCHANGED <<engine, selected, runs, evidenceVars, everSelected>>
  BY DEF StartReviewer, EndReviewer
<1>6. PICK old \in Review : old = reviews[of] /\ old.outcome = "pending"
  BY <1>2, <1>4
<1>7. CASE StartReviewer
  <2>1. PICK review : review = [old EXCEPT !.process = "live"]
    OBVIOUS
  <2>2. reviews' = [reviews EXCEPT ![of] = review] /\ command' = command
    BY <1>4, <1>6, <1>7, <2>1 DEF StartReviewer
  <2>3. /\ review \in Review /\ review.run = old.run /\ review.outcome = "pending"
    BY <1>6, <2>1 DEF Review
  <2>4. /\ ReviewsGoOn /\ DOMAIN reviews' = DOMAIN reviews /\ Len(reviews') = Len(reviews)
        /\ reviews'[of] = review
    BY <1>2, <1>4, <1>6, <2>2, <2>3, ReviewGoesOn
  <2>5. Waits'
    BY <1>1, <1>2, <1>4, <2>2, <2>3, <2>4 DEF Waits
  <2> QED BY <1>3, <1>5, <2>2, <2>4, <2>5, ReviewsKeep
<1>8. CASE EndReviewer
  <2>1. PICK verdict \in Outcomes \cup {"none"} :
           LET outcome == IF verdict = "none" THEN "failed" ELSE "generated" IN
           /\ reviews' = [reviews EXCEPT ![command.of] =
                 [reviews[command.of] EXCEPT !.process = "gone", !.outcome = outcome, !.verdict = verdict]]
           /\ command' = IF outcome = "failed" \/ reviews[command.of].purpose = "analysis"
                         THEN NoCommand ELSE [command EXCEPT !.op = "judge"]
    BY <1>8 DEF EndReviewer
  <2>2. PICK outcome \in {"failed", "generated"} : outcome = IF verdict = "none" THEN "failed" ELSE "generated"
    OBVIOUS
  <2>3. PICK review : review = [old EXCEPT !.process = "gone", !.outcome = outcome, !.verdict = verdict]
    OBVIOUS
  <2>4. reviews' = [reviews EXCEPT ![of] = review]
    BY <1>4, <1>6, <2>1, <2>2, <2>3
  <2>5. /\ review \in Review /\ review.run = old.run /\ review.process = "gone"
        /\ review.outcome = "generated" => review.verdict \in Outcomes
    <3>1. verdict # "none" => verdict \in Outcomes
      OBVIOUS
    <3> QED BY <1>6, <2>2, <2>3, <3>1 DEF Review
  <2>6. /\ ReviewsGoOn /\ DOMAIN reviews' = DOMAIN reviews /\ Len(reviews') = Len(reviews)
        /\ reviews'[of] = review
    BY <1>2, <1>4, <1>6, <2>4, <2>5, ReviewGoesOn
  <2>7. command' = NoCommand \/ command' = [command EXCEPT !.op = "judge"]
    BY <2>1
  <2>8. CASE command' = NoCommand
    <3>1. Waits'
      BY <2>8 DEF Waits, NoCommand
    <3> QED BY <1>5, <2>6, <2>8, <3>1, ReviewsKeep
  <2>9. CASE command' = [command EXCEPT !.op = "judge"]
    <3>1. command' \in [op : {"review", "judge"}, of : Nat] /\ command'.op = "judge" /\ command'.of = of
      BY <1>3, <1>4, <2>9
    <3>2. Waits'
      BY <2>6, <3>1 DEF Waits
    <3> QED BY <1>5, <2>6, <3>1, <3>2, ReviewsKeep
  <2> QED BY <2>7, <2>8, <2>9
<1> QED BY <1>7, <1>8

LEMMA OrphanKeeps ==
    ASSUME FeedbackInv, OrphanEnds
    PROVE  FeedbackInv'
<1>1. PICK size \in Nat : size = Len(reviews) /\ DOMAIN reviews = 1..size /\ reviews \in [1..size -> Review]
  BY LenProperties DEF FeedbackInv, FeedbackTypes
<1>2. PICK k \in DOMAIN reviews : reviews[k].process = "live" /\ reviews' = [reviews EXCEPT ![k].process = "gone"]
  BY DEF OrphanEnds
<1>3. command' = NoCommand /\ UNCHANGED <<engine, selected, runs, evidenceVars, everSelected>>
  BY DEF OrphanEnds, Free
<1>4. PICK old \in Review : old = reviews[k] /\ old.outcome = "pending"
  BY <1>1, <1>2 DEF FeedbackInv, ReviewInv, ReviewsAreAccountedFor
<1>5. PICK review : review = [old EXCEPT !.process = "gone"]
  OBVIOUS
<1>6. review \in Review /\ review.run = old.run /\ review.process = "gone" /\ review.outcome = "pending"
  BY <1>4, <1>5 DEF Review
<1>7. reviews' = [reviews EXCEPT ![k] = review]
  BY <1>2, <1>4, <1>5
<1>8. ReviewsGoOn
  BY <1>4, <1>6, <1>7, ReviewGoesOn
<1>9. Waits'
  BY <1>3 DEF Waits, NoCommand
<1> QED BY <1>3, <1>8, <1>9, ReviewsKeep

LEMMA CompareKeeps ==
    ASSUME FeedbackInv, Compare
    PROVE  FeedbackInv'
<1>1. PICK e \in evaluations, f \in evaluations :
         /\ Comparable(Snapshot(e.run, e), Snapshot(f.run, f))
         /\ comparisons' = comparisons \cup {<<Snapshot(e.run, e), Snapshot(f.run, f)>>}
  BY DEF Compare
<1>2. /\ command' = NoCommand
      /\ UNCHANGED <<engine, selected, runs, evaluations, proposals, checked, reviews, everSelected>>
  BY DEF Compare, Free
<1>3. ASSUME NEW d \in evaluations, d.attempt = runs[d.run].attempt PROVE Backed(Snapshot(d.run, d))
  <2>1. d.run \in DOMAIN runs
    BY DEF FeedbackInv, EvidenceInv
  <2>2. runs[d.run].attempt \in Nat
    <3>1. PICK size \in Nat : DOMAIN runs = 1..size /\ runs \in [1..size -> Run]
      BY LenProperties DEF FeedbackInv, FeedbackTypes
    <3> QED BY <2>1, <3>1, Bounded DEF Run
  <2>3. PICK n \in Nat : n = runs[d.run].attempt /\ n <= n
    BY <2>2
  <2> QED BY <1>3, <2>1, <2>3 DEF Backed, Snapshot
<1>4. Backed(Snapshot(e.run, e)) /\ Backed(Snapshot(f.run, f))
  BY <1>1, <1>3 DEF Comparable, Snapshot
<1>5. PICK a, b : a = Snapshot(e.run, e) /\ b = Snapshot(f.run, f)
  OBVIOUS
<1>6. \A s : Backed(s) => Backed(s)'
  BY <1>2 DEF Backed
<1>7. EvidenceInv'
  <2>1. \A c \in comparisons' : Backed(c[1]) /\ Backed(c[2])
    BY <1>1, <1>4, <1>5 DEF FeedbackInv, EvidenceInv
  <2> QED BY <1>2, <1>6, <2>1 DEF FeedbackInv, EvidenceInv
<1>8. FeedbackTypes' /\ MadeInv' /\ SelectedInv'
  BY <1>2 DEF FeedbackInv, FeedbackTypes, MadeInv, SelectedInv
<1>9. ReviewInv' /\ DecisionInv'
  BY <1>2 DEF FeedbackInv, ReviewInv, ReviewsAreAccountedFor, Verified, DecisionInv, NoCommand
<1> QED BY <1>7, <1>8, <1>9 DEF FeedbackInv

LEMMA ProposeKeeps ==
    ASSUME FeedbackInv, Propose \/ \E p \in DOMAIN proposals : PassCheck(p)
    PROVE  FeedbackInv'
<1>1. /\ command' = NoCommand
      /\ UNCHANGED <<engine, selected, runs, evaluations, comparisons, reviews, everSelected>>
  BY DEF Propose, PassCheck, Free
<1>2. MadeInv' /\ ReviewInv' /\ EvidenceInv' /\ DecisionInv'
  <2>1. MadeInv' /\ EvidenceInv'
    BY <1>1 DEF FeedbackInv, MadeInv, EvidenceInv, Backed
  <2>2. ReviewInv' /\ DecisionInv'
    BY <1>1 DEF FeedbackInv, ReviewInv, ReviewsAreAccountedFor, Verified, DecisionInv, NoCommand
  <2> QED BY <2>1, <2>2
<1>3. PICK size \in Nat : size = Len(proposals) /\ DOMAIN proposals = 1..size /\ proposals \in [1..size -> Proposal]
  BY LenProperties DEF FeedbackInv, FeedbackTypes
<1>4. CASE \E p \in DOMAIN proposals : PassCheck(p)
  <2>1. proposals' = proposals /\ checked' \subseteq DOMAIN proposals
    BY <1>4 DEF PassCheck, FeedbackInv, FeedbackTypes
  <2> QED BY <1>1, <1>2, <2>1 DEF FeedbackInv, FeedbackTypes, SelectedInv
<1>5. CASE Propose
  <2>1. PICK instructions \in {BuiltIn, Plain}, parts \in {{}} \cup Compositions :
           LET app == IF parts = {} THEN "domain" ELSE "team"
               bundle == IF parts = {} THEN Domain(instructions) ELSE Compose(Active(app), parts)
           IN /\ Active(app) # NoBundle
              /\ proposals' = Append(proposals, [app |-> app, base |-> Active(app), candidate |-> bundle])
    BY <1>5 DEF Propose
  <2>2. PICK app \in Application : app = IF parts = {} THEN "domain" ELSE "team"
    BY Bounded
  <2>3. PICK bundle : bundle = IF parts = {} THEN Domain(instructions) ELSE Compose(Active(app), parts)
    OBVIOUS
  <2>4. PICK proposal : proposal = [app |-> app, base |-> Active(app), candidate |-> bundle]
    OBVIOUS
  <2>5. Active(app) # NoBundle /\ proposals' = Append(proposals, proposal)
    BY <2>1, <2>2, <2>3, <2>4
  <2>6. Active(app) \in AnyBundle /\ Active(app) \in everSelected[app] /\ Fits(Active(app), app)
    BY <2>5 DEF FeedbackInv, FeedbackTypes, SelectedInv, Active
  <2>7. bundle \in AnyBundle /\ Fits(bundle, app)
    <3>1. CASE parts = {}
      BY <2>1, <2>3, <3>1, BundleFacts DEF AnyBundle
    <3>2. CASE parts # {}
      <4>1. parts \in Compositions /\ app = "team" /\ bundle = Compose(Active(app), parts)
        BY <2>1, <2>2, <2>3, <3>2
      <4>2. bundle \in Bundles
        BY <2>5, <2>6, <4>1, BundleFacts
      <4> QED BY <4>1, <4>2, BundleFacts DEF AnyBundle
    <3> QED BY <3>1, <3>2
  <2>8. /\ proposal \in Proposal /\ proposal.app = app /\ proposal.base = Active(app)
        /\ proposal.candidate = bundle
    BY <2>4, <2>6, <2>7 DEF Proposal
  <2>9. /\ proposals' \in Seq(Proposal) /\ Len(proposals') = size + 1 /\ proposals'[size + 1] = proposal
        /\ \A p \in 1..size : proposals'[p] = proposals[p]
    BY <1>3, <2>5, <2>8, AppendProperties DEF FeedbackInv, FeedbackTypes
  <2>10. DOMAIN proposals' = 1..(size + 1) /\ \A p \in 1..size : p \in 1..(size + 1)
    BY <2>9, LenProperties
  <2>11. checked' \subseteq DOMAIN proposals'
    BY <1>3, <1>5, <2>10 DEF Propose, FeedbackInv, FeedbackTypes
  <2>12. FeedbackTypes'
    BY <1>1, <2>9, <2>11 DEF FeedbackInv, FeedbackTypes
  <2>13. ASSUME NEW p \in 1..(size + 1)
         PROVE  /\ proposals'[p].base \in everSelected[proposals'[p].app]
                /\ Fits(proposals'[p].base, proposals'[p].app)
                /\ Fits(proposals'[p].candidate, proposals'[p].app)
    <3>1. CASE p = size + 1
      BY <2>6, <2>7, <2>8, <2>9, <3>1
    <3>2. CASE p \in 1..size
      BY <1>3, <2>9, <3>2 DEF FeedbackInv, SelectedInv
    <3> QED BY <3>1, <3>2
  <2>14. SelectedInv'
    BY <1>1, <2>10, <2>13 DEF FeedbackInv, SelectedInv
  <2> QED BY <1>2, <2>12, <2>14 DEF FeedbackInv
<1> QED BY <1>4, <1>5

\* What is eligible has been shown to be good by a result that is still the present one.
LEMMA EligibleIsProven ==
    ASSUME FeedbackInv, NEW p \in DOMAIN proposals, NEW c \in comparisons, Eligible(p, c)
    PROVE  /\ Active(proposals[p].app) = proposals[p].base
           /\ Proven(proposals[p].candidate, proposals[p].app)
<1>1. PICK s \in {c[1], c[2]} :
         /\ s.app = proposals[p].app /\ s.pin = proposals[p].candidate
         /\ AsCompared(s) /\ s.status \in AllowedStatus /\ s.evaluation.outcome \in AllowedOutcome
  BY DEF Eligible
<1>2. Backed(s)
  BY <1>1 DEF FeedbackInv, EvidenceInv
<1>3. PICK e \in evaluations : e = s.evaluation
  BY <1>2 DEF Backed
<1>4. e.attempt \in runs[e.run].made
  BY DEF FeedbackInv, EvidenceInv
<1>5. PICK r \in DOMAIN runs : r = s.run
  BY <1>2 DEF Backed
<1>6. /\ runs[r].app = proposals[p].app /\ runs[r].attempt = s.attempt /\ runs[r].status \in AllowedStatus
      /\ runs[r].pin = proposals[p].candidate /\ e.run = r /\ e.attempt = s.attempt
  BY <1>1, <1>2, <1>3, <1>5 DEF AsCompared, Backed
<1>7. Proven(proposals[p].candidate, proposals[p].app)
  BY <1>1, <1>3, <1>4, <1>6 DEF Proven
<1> QED BY <1>7 DEF Eligible

\* A decision that may be made is recorded.
LEMMA DecideKeeps ==
    ASSUME FeedbackInv, NEW action \in {"adopt", "rollback", "initialize"}, NEW app \in Application,
           NEW base \in AnyBundle, NEW bundle \in AnyBundle, Decide(action, app, base, bundle),
           base = selected[app], Fits(bundle, app), action = "adopt" => Proven(bundle, app),
           action = "initialize" => base = NoBundle, action = "rollback" => bundle \in everSelected[app]
    PROVE  FeedbackInv'
<1>1. PICK d : d = [op |-> "select", action |-> action, app |-> app, base |-> base, selects |-> bundle]
  OBVIOUS
<1>2. /\ d \in Decision /\ d.op = "select" /\ d.action = action /\ d.app = app /\ d.base = base
      /\ d.selects = bundle
  BY <1>1 DEF Decision
<1>3. /\ command' = d
      /\ UNCHANGED <<engine, selected, runs, evaluations, comparisons, proposals, checked, reviews, everSelected>>
  BY <1>1 DEF Decide, evidenceVars
<1>4. FeedbackTypes' /\ MadeInv' /\ SelectedInv'
  BY <1>2, <1>3 DEF FeedbackInv, FeedbackTypes, MadeInv, SelectedInv
<1>5. EvidenceInv'
  BY <1>3 DEF FeedbackInv, EvidenceInv, Backed
<1>6. ReviewInv'
  <2>1. command'.op = "select"
    BY <1>2, <1>3
  <2> QED BY <1>3, <2>1 DEF FeedbackInv, ReviewInv, ReviewsAreAccountedFor, Verified
<1>7. DecisionInv'
  <2>1. Proven(bundle, app) => Proven(bundle, app)'
    BY <1>3 DEF Proven
  <2> QED BY <1>2, <1>3, <2>1 DEF DecisionInv
<1> QED BY <1>4, <1>5, <1>6, <1>7 DEF FeedbackInv

LEMMA DecisionsKeep ==
    ASSUME FeedbackInv, InitializeScope \/ \E p \in DOMAIN proposals : Adopt(p) \/ RollbackProposal(p)
    PROVE  FeedbackInv'
<1>1. selected \in [Application -> AnyBundle] /\ NoBundle \in AnyBundle
  BY DEF FeedbackInv, FeedbackTypes, AnyBundle
<1>2. CASE InitializeScope
  BY <1>1, <1>2, DecideKeeps, Bounded, BundleFacts DEF InitializeScope, Active
<1>3. ASSUME NEW p \in DOMAIN proposals, Adopt(p) \/ RollbackProposal(p) PROVE FeedbackInv'
  <2>1. PICK proposal \in Proposal : proposal = proposals[p]
    <3>1. PICK size \in Nat : DOMAIN proposals = 1..size /\ proposals \in [1..size -> Proposal]
      BY LenProperties DEF FeedbackInv, FeedbackTypes
    <3> QED BY <3>1
  <2>2. /\ proposal.app \in Application /\ proposal.base \in AnyBundle /\ proposal.candidate \in AnyBundle
        /\ proposal.base \in everSelected[proposal.app]
        /\ Fits(proposal.base, proposal.app) /\ Fits(proposal.candidate, proposal.app)
    BY <2>1 DEF Proposal, FeedbackInv, SelectedInv
  <2>3. CASE Adopt(p)
    <3>1. /\ selected[proposal.app] = proposal.base /\ Proven(proposal.candidate, proposal.app)
          /\ Decide("adopt", proposal.app, proposal.base, proposal.candidate)
      BY <2>1, <2>3, EligibleIsProven DEF Adopt, Active
    <3> QED BY <2>2, <3>1, DecideKeeps
  <2>4. CASE RollbackProposal(p)
    <3>1. /\ selected[proposal.app] = proposal.candidate
          /\ Decide("rollback", proposal.app, proposal.candidate, proposal.base)
      BY <2>1, <2>4 DEF RollbackProposal, Active
    <3> QED BY <2>2, <3>1, DecideKeeps
  <2> QED BY <1>3, <2>3, <2>4
<1> QED BY <1>2, <1>3

LEMMA SelectKeeps ==
    ASSUME FeedbackInv, Select \/ CommandDies
    PROVE  FeedbackInv'
<1>1. command' = NoCommand /\ UNCHANGED <<engine, runs, evaluations, comparisons, proposals, checked, reviews>>
  BY DEF Select, CommandDies, evidenceVars
<1>2. MadeInv' /\ ReviewInv' /\ EvidenceInv' /\ DecisionInv'
  <2>1. MadeInv' /\ EvidenceInv'
    BY <1>1 DEF FeedbackInv, MadeInv, EvidenceInv, Backed
  <2>2. ReviewInv' /\ DecisionInv'
    BY <1>1 DEF FeedbackInv, ReviewInv, ReviewsAreAccountedFor, Verified, DecisionInv, NoCommand
  <2> QED BY <2>1, <2>2
<1>3. CASE CommandDies
  <2>1. selected' = selected /\ everSelected' = everSelected
    BY <1>3 DEF CommandDies
  <2> QED BY <1>1, <1>2, <2>1 DEF FeedbackInv, FeedbackTypes, SelectedInv
<1>4. CASE Select
  <2>1. command \in Decision /\ command.op = "select"
    BY <1>4 DEF Select, FeedbackInv, FeedbackTypes, NoCommand
  <2>2. PICK app \in Application, bundle \in AnyBundle : app = command.app /\ bundle = command.selects
    BY <2>1 DEF Decision
  <2>3. /\ selected' = [selected EXCEPT ![app] = bundle]
        /\ everSelected' = [everSelected EXCEPT ![app] = @ \cup {bundle}]
    BY <1>4, <2>2 DEF Select
  <2>4. Fits(bundle, app)
    BY <2>1, <2>2 DEF FeedbackInv, DecisionInv
  <2>5. FeedbackTypes'
    BY <1>1, <2>3 DEF FeedbackInv, FeedbackTypes
  <2>6. /\ \A a \in Application : /\ everSelected[a] \subseteq everSelected'[a]
                                  /\ selected'[a] = IF a = app THEN bundle ELSE selected[a]
        /\ bundle \in everSelected'[app]
    BY <2>3 DEF FeedbackInv, FeedbackTypes
  <2>7. \A p \in DOMAIN proposals : proposals[p].app \in Application
    <3>1. PICK size \in Nat : DOMAIN proposals = 1..size /\ proposals \in [1..size -> Proposal]
      BY LenProperties DEF FeedbackInv, FeedbackTypes
    <3> QED BY <3>1 DEF Proposal
  <2>8. SelectedInv'
    <3>1. \A a \in Application : Fits(selected'[a], a) /\ (selected'[a] # NoBundle => selected'[a] \in everSelected'[a])
      BY <2>4, <2>6 DEF FeedbackInv, SelectedInv
    <3>2. \A p \in DOMAIN proposals :
             /\ proposals[p].base \in everSelected'[proposals[p].app]
             /\ Fits(proposals[p].base, proposals[p].app) /\ Fits(proposals[p].candidate, proposals[p].app)
      BY <2>6, <2>7 DEF FeedbackInv, SelectedInv
    <3> QED BY <1>1, <3>1, <3>2 DEF SelectedInv
  <2> QED BY <1>2, <2>5, <2>8 DEF FeedbackInv
<1> QED BY <1>3, <1>4

LEMMA FeedbackStarts == FeedbackInit => FeedbackInv
<1> SUFFICES ASSUME FeedbackInit PROVE FeedbackInv
  OBVIOUS
<1>1. /\ selected = [a \in Application |-> IF a = "domain" THEN Domain(BuiltIn) ELSE NoBundle]
      /\ everSelected = [a \in Application |-> {selected[a]} \ {NoBundle}]
      /\ runs = <<>> /\ reviews = <<>> /\ proposals = <<>> /\ evaluations = {} /\ comparisons = {}
      /\ checked = {} /\ command = NoCommand /\ engine \in {"legacy", "flow"}
  BY DEF FeedbackInit, Active
<1>2. \A a \in Application : /\ selected[a] \in AnyBundle /\ everSelected[a] = {selected[a]} \ {NoBundle}
                             /\ Fits(selected[a], a)
  <2>1. NoBundle \in AnyBundle /\ Domain(BuiltIn) \in AnyBundle
    BY BundleFacts DEF AnyBundle
  <2>2. \A a : Fits(NoBundle, a)
    BY BundleFacts DEF NoBundle
  <2> QED BY <1>1, <2>1, <2>2, BundleFacts
<1>3. \A S : <<>> \in Seq(S) /\ Len(<<>>) = 0 /\ DOMAIN <<>> = {}
  BY EmptySeq
<1>4. FeedbackTypes
  <2>1. selected \in [Application -> AnyBundle] /\ everSelected \in [Application -> SUBSET AnyBundle]
    BY <1>1, <1>2
  <2>2. /\ runs \in Seq(Run) /\ reviews \in Seq(Review) /\ proposals \in Seq(Proposal)
        /\ Len(runs) <= RunBound /\ Len(reviews) <= ReviewBound
    BY <1>1, <1>3, Bounded
  <2> QED BY <1>1, <2>1, <2>2 DEF FeedbackTypes
<1>5. MadeInv /\ EvidenceInv
  BY <1>1, <1>3 DEF MadeInv, EvidenceInv
<1>6. ReviewInv /\ DecisionInv
  BY <1>1, <1>3 DEF ReviewInv, ReviewsAreAccountedFor, DecisionInv, NoCommand
<1>7. SelectedInv
  BY <1>1, <1>2, <1>3 DEF SelectedInv
<1> QED BY <1>4, <1>5, <1>6, <1>7 DEF FeedbackInv

LEMMA FeedbackStep == FeedbackInv /\ [FeedbackNext]_feedbackVars => FeedbackInv'
<1> SUFFICES ASSUME FeedbackInv, [FeedbackNext]_feedbackVars PROVE FeedbackInv'
  OBVIOUS
<1>1. CASE RunNext
  <2>1. CASE ImportEvaluation
    BY <2>1, ImportKeeps
  <2>2. CASE SubmitRun \/ \E r \in DOMAIN runs : RunAttempt(r) \/ ResumeRun(r)
    BY <2>2, RunSteps, RunsKeep
  <2> QED BY <1>1, <2>1, <2>2 DEF RunNext
<1>2. CASE ReviewNext
  BY <1>2, RequestKeeps, RecoverKeeps, ReviewerKeeps, JudgeKeeps, OrphanKeeps DEF ReviewNext
<1>3. CASE SelectionNext
  BY <1>3, CompareKeeps, ProposeKeeps, DecisionsKeep, SelectKeeps DEF SelectionNext
<1>4. CASE CommandDies
  BY <1>4, SelectKeeps
<1>5. CASE UNCHANGED feedbackVars
  <2>1. /\ engine' = engine /\ selected' = selected /\ runs' = runs /\ evaluations' = evaluations
        /\ comparisons' = comparisons /\ proposals' = proposals /\ checked' = checked /\ reviews' = reviews
        /\ command' = command /\ everSelected' = everSelected
    BY <1>5 DEF feedbackVars, evidenceVars
  <2>2. FeedbackTypes' /\ MadeInv' /\ SelectedInv'
    BY <2>1 DEF FeedbackInv, FeedbackTypes, MadeInv, SelectedInv
  <2>3. EvidenceInv'
    BY <2>1 DEF FeedbackInv, EvidenceInv, Backed
  <2>4. ReviewInv'
    BY <2>1 DEF FeedbackInv, ReviewInv, ReviewsAreAccountedFor, Verified
  <2>5. DecisionInv'
    BY <2>1 DEF FeedbackInv, DecisionInv, Proven
  <2> QED BY <2>2, <2>3, <2>4, <2>5 DEF FeedbackInv
<1> QED BY <1>1, <1>2, <1>3, <1>4, <1>5 DEF FeedbackNext

\* Only a decision in effect changes what is selected.
LEMMA OnlySelectSelects ==
    ASSUME FeedbackNext, ~Select
    PROVE  selected' = selected
<1>1. CASE RunNext
  BY <1>1 DEF RunNext, SubmitRun, ImportEvaluation, RunAttempt, ResumeRun
<1>2. CASE ReviewNext
  BY <1>2 DEF ReviewNext, BeginReview, Analyze, RequestReview, RecoverReviews, StartReviewer, EndReviewer,
              JudgeReview, OrphanEnds
<1>3. CASE SelectionNext
  BY <1>3 DEF SelectionNext, Compare, Propose, InitializeScope, PassCheck, Adopt, RollbackProposal, Decide
<1>4. CASE CommandDies
  BY <1>4 DEF CommandDies
<1> QED BY <1>1, <1>2, <1>3, <1>4 DEF FeedbackNext

LEMMA SelectionRests ==
    ASSUME FeedbackInv, FeedbackInv', [FeedbackNext]_feedbackVars
    PROVE  [/\ ReviewsAreAccountedFor'
            /\ \A a \in Application : selected'[a] # selected[a] =>
                  /\ command.app = a /\ command.base = Active(a)
                  /\ CASE command.action = "adopt" -> Proven(Active(a)', a)
                       [] command.action = "initialize" -> Active(a) = NoBundle
                       [] OTHER -> Active(a)' \in everSelected[a]
           ]_feedbackVars
<1>1. ReviewsAreAccountedFor'
  BY DEF FeedbackInv, ReviewInv
<1>2. CASE UNCHANGED feedbackVars
  BY <1>2
<1>3. CASE FeedbackNext /\ ~Select
  BY <1>1, <1>3, OnlySelectSelects
<1>4. CASE Select
  <2>1. command \in Decision /\ command.op = "select"
    BY <1>4 DEF Select, FeedbackInv, FeedbackTypes, NoCommand
  <2>2. /\ command.app \in Application /\ command.action \in {"adopt", "rollback", "initialize"}
        /\ selected' = [selected EXCEPT ![command.app] = command.selects]
        /\ selected \in [Application -> AnyBundle]
    BY <1>4, <2>1 DEF Decision, Select, FeedbackInv, FeedbackTypes
  <2>3. /\ command.base = selected[command.app]
        /\ command.action = "adopt" => Proven(command.selects, command.app)
        /\ command.action = "initialize" => command.base = NoBundle
        /\ command.action = "rollback" => command.selects \in everSelected[command.app]
    BY <2>1 DEF FeedbackInv, DecisionInv
  <2>4. ASSUME NEW a \in Application, selected'[a] # selected[a]
        PROVE  /\ command.app = a /\ command.base = Active(a)
               /\ CASE command.action = "adopt" -> Proven(Active(a)', a)
                    [] command.action = "initialize" -> Active(a) = NoBundle
                    [] OTHER -> Active(a)' \in everSelected[a]
    <3>1. command.app = a /\ selected'[a] = command.selects
      BY <2>2, <2>4
    <3> QED BY <2>2, <2>3, <3>1 DEF Active
  <2> QED BY <1>1, <2>4
<1> QED BY <1>2, <1>3, <1>4

LEMMA FeedbackTyped == FeedbackInv => FeedbackTypeOK
<1> SUFFICES ASSUME FeedbackInv PROVE FeedbackTypeOK
  OBVIOUS
<1>1. PICK size \in Nat : DOMAIN runs = 1..size /\ runs \in [1..size -> Run]
  BY LenProperties DEF FeedbackInv, FeedbackTypes
<1>2. \A r \in DOMAIN runs : runs[r].pin \in AnyBundle /\ runs[r].made \subseteq 1..runs[r].attempt
  BY <1>1 DEF Run, FeedbackInv, MadeInv
<1>3. command.op \in {"none", "review", "judge", "select"}
  BY DEF FeedbackInv, FeedbackTypes, NoCommand, Decision
<1> QED BY <1>2, <1>3 DEF FeedbackInv, FeedbackTypes, FeedbackTypeOK, SelectedInv, AnyBundle, Active

-----------------------------------------------------------------------------
\* A carried item is followed and calls keep their distance; an event is some caller's
\* own, new one, an incident that arises or gets worse is planned for as what it has
\* become, and evidence is that of a report made from this revision, which holds at the
\* time it is for and is not for one before the latest record (ops.execute,
\* ops.applyAssessment).
THEOREM LedgerAccounts == RecordsSpec => LedgerIsAccountable
<1>1. RecordsInit => LedgerInv
  BY LedgerStarts DEF RecordsInit
<1>2. [RecordsNext]_recordsVars => [LedgerNext]_ledgerVars
  BY DEF RecordsNext, recordsVars
<1>3. LedgerInv /\ [LedgerNext]_ledgerVars => LedgerInv' /\ LedgerAccounted
  BY LedgerStep
<1>4. LedgerAccounted =>
         [/\ CarriedWorkIsFollowed' /\ CooldownIsKept'
          /\ revision' # revision => \E p \in informed : p \notin recorded /\ p \in recorded'
          /\ \A c \in Concern :
                LET i == incident[c]
                IN /\ Unresolved(c)' /\ (~Unresolved(c) \/ i.severity # i'.severity) =>
                         /\ Len(plans'[c]) > Len(plans[c])
                         /\ plans'[c][Len(plans'[c])].severity = i'.severity
                   /\ Evidence(i') # Evidence(i) =>
                         /\ Grounded(c, report.asOf) /\ headAt <= report.asOf
                         /\ Evidence(i')[2] \in Sources]_ledgerVars
  BY DEF LedgerAccounted, AccountedFor
<1> QED BY <1>1, <1>2, <1>3, <1>4, PTL DEF RecordsSpec, LedgerIsAccountable

LEMMA FeedbackInvariant == RecordsSpec => []FeedbackInv /\ [][FeedbackNext]_feedbackVars
<1>1. RecordsInit => FeedbackInv
  BY FeedbackStarts DEF RecordsInit
<1>2. [RecordsNext]_recordsVars => [FeedbackNext]_feedbackVars
  BY DEF RecordsNext, recordsVars, FeedbackNext
<1> QED BY <1>1, <1>2, FeedbackStep, PTL DEF RecordsSpec

\* Whatever happens to runs, reviews, selections and commands: an evaluation says what its
\* review said, and a bundle comes into use by a decision made against what was in use, for
\* which a present result speaks, or which starts a scope, or which goes back to a bundle
\* that was in use there (feedback.Decide, feedback.Select, runReview).
THEOREM SelectionsRest == RecordsSpec => SelectionsRestOnEvidence
<1>1. FeedbackInv /\ FeedbackInv' /\ [FeedbackNext]_feedbackVars =>
         [/\ ReviewsAreAccountedFor'
          /\ \A a \in Application : selected'[a] # selected[a] =>
                /\ command.app = a /\ command.base = Active(a)
                /\ CASE command.action = "adopt" -> Proven(Active(a)', a)
                     [] command.action = "initialize" -> Active(a) = NoBundle
                     [] OTHER -> Active(a)' \in everSelected[a]
         ]_feedbackVars
  BY SelectionRests
<1> QED BY <1>1, FeedbackInvariant, PTL DEF SelectionsRestOnEvidence

\* The records of all five components stay well typed, whichever a behaviour is about.
THEOREM RecordsTypeCorrect == RecordsSpec => []AllRecordsTypeOK
<1> DEFINE Inv == ConversationInv /\ LedgerInv /\ AccountInv /\ SecretTypes
<1>1. RecordsInit => Inv
  BY ConversationStarts, LedgerStarts, AccountStarts, SecretTypesStart DEF RecordsInit
<1>2. Inv /\ [RecordsNext]_recordsVars => Inv'
  <2> SUFFICES ASSUME Inv, [RecordsNext]_recordsVars PROVE Inv'
    OBVIOUS
  <2>1. /\ [ConversationNext]_convVars /\ [LedgerNext]_ledgerVars
        /\ [AccountNext]_accountVars /\ [SecretNext]_secretVars
    BY DEF RecordsNext, recordsVars
  <2> QED BY <2>1, ConversationStepInv, LedgerStep, AccountStep, SecretTypesStep
<1>3. Inv /\ FeedbackInv => AllRecordsTypeOK
  <2> SUFFICES ASSUME Inv, FeedbackInv PROVE AllRecordsTypeOK
    OBVIOUS
  <2>1. RecordsTypeOK /\ FeedbackTypeOK /\ LedgerTypeOK
    BY LedgerTyped, FeedbackTyped DEF ConversationInv, ConversationTypes
  <2>2. AccountTypeOK
    BY DEF AccountInv, AccountTypes, AccountTypeOK, Errand, Connection
  <2>3. SecretTypeOK
    BY DEF SecretTypes
  <2> QED BY <2>1, <2>2, <2>3 DEF AllRecordsTypeOK
<1> QED BY <1>1, <1>2, <1>3, FeedbackInvariant, PTL DEF RecordsSpec
=============================================================================
