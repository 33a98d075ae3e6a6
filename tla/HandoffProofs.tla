--------------------------- MODULE HandoffProofs ---------------------------
(***************************************************************************)
(* Sends and receipts of results agree, for any number of sessions,        *)
(* conversations, jobs, deaths, switches and requests that are served      *)
(* after their callers gave up.                                            *)
(***************************************************************************)
EXTENDS ResultHandoff, TLAPS

Command == [op : Aim, job : Job, version : Nat]
Marking == [op : {"mark"}, job : Job, to : {"sending", "delivered", "unconfirmed"}]

HandoffTypes ==
    /\ HandoffTypeOK
    /\ owner \in Command \cup {NoCommand}
    /\ late \subseteq Marking \cup Command

\* The labels of a session that has read a result and has not shown it yet, of one that has
\* marked it, and of both.
BeforeSend == {"reading", "read", "marking", "noting", "emitting"}
AfterMark == {"noting", "emitting", "confirming", "unsure"}
AtResult == BeforeSend \cup AfterMark

\* Only admitted jobs have results, and a result that is not there has no version.
RowInv ==
    \A j \in Job :
        /\ delivery[j] # "none" => origin[j] \in Conversation
        /\ delivery[j] = "none" => version[j] = 0

\* A consumer holds the delivery lease of its conversation, the owner's command that of the
\* conversation of its job; what a consumer lists or reads, its conversation may see.
DeliveryInv ==
    /\ \A p \in Session : pc[p] \in ConsumerPc => deliveryLease[conv[p]] = p
    /\ owner # NoCommand => origin[owner.job] \in Conversation /\ deliveryLease[origin[owner.job]] = Owner
    /\ \A p \in Session : pc[p] \in ConsumerPc => \A x \in listed[p] : Visible(conv[p], x[1])
    /\ \A p \in Session : pc[p] \in AtResult => Visible(conv[p], job[p])

\* A status that was seen with the present version is the present one.
SeenAs(j, v, status) == v <= version[j] /\ (v = version[j] => delivery[j] = status)

LooksFor(op) == IF op = "recover" THEN "sending" ELSE "unconfirmed"

VersionInv ==
    /\ owner # NoCommand => SeenAs(owner.job, owner.version, LooksFor(owner.op))
    /\ \A r \in late : r.op # "mark" => SeenAs(r.job, r.version, LooksFor(r.op))
    /\ \A p \in Session : pc[p] = "reconciling" => \A x \in listed[p] : SeenAs(x[1], x[2], "sending")

\* The result of j can still be shown without being asked for again.
Due(j) ==
    \/ delivery[j] \in {"none", "available"}
    \/ \E p \in Session : pc[p] \in BeforeSend /\ job[p] = j

\* As long as one conversation sees the result: it is shown once, requests of the owner that
\* are still on their way are outdated once a session has read it, and what a session has
\* marked is not offered again.
SendInv ==
    \A j \in Job : Undivided(j) =>
        /\ sent[j] <= 1 + retried[j]
        /\ Due(j) => sent[j] <= retried[j]
        /\ \A p \in Session : pc[p] \in AfterMark /\ job[p] = j => delivery[j] \notin {"none", "available"}
        /\ \A p \in Session : pc[p] \in AtResult /\ job[p] = j =>
              \A r \in late : r.op # "mark" /\ r.job = j => r.version < version[j]

\* What is confirmed was shown.
ReceiptInv ==
    /\ DeliveredWasSent
    /\ \A p \in Session : pc[p] = "confirming" => sent[job[p]] > 0
    /\ \A r \in late : r.op = "mark" /\ r.to = "delivered" => sent[r.job] > 0

\* A sender holds the lease of its conversation, in which no turn runs; a session that is
\* about to send and has read the latest record has read no running turn.
QuietInv ==
    /\ \A p \in Session : pc[p] \in SenderPc =>
          actionLease[conv[p]] = p /\ conv[p] \in open /\ turn[conv[p]] # "running"
    /\ \A p \in Session : pc[p] = "read" /\ p \in fresh => turn[conv[p]] # "running"

HandoffInv == HandoffTypes /\ RowInv /\ DeliveryInv /\ VersionInv /\ SendInv /\ ReceiptInv /\ QuietInv

-----------------------------------------------------------------------------
(***************************************************************************)
(* What the sessions do outside of their deliveries                        *)
(***************************************************************************)

\* Holders and labels are told apart.
LEMMA HandoffConstants ==
    /\ NoOne \notin Session /\ NoOne \notin Conversation /\ Owner \notin Session /\ Owner # NoOne
    /\ SessionPc \cap ConsumerPc = {} /\ {"off", "idle"} \subseteq SessionPc
    /\ SenderPc \subseteq ConsumerPc /\ AtResult \subseteq ConsumerPc /\ AfterMark \subseteq SenderPc
    /\ GuardPc \cup TurnPc \cup FlowPc \cup SwitchPc \subseteq SessionPc
BY ConversationAssumption, HandoffAssumption DEF Owner, SessionPc, ConsumerPc, SenderPc, AtResult, BeforeSend, AfterMark,
   GuardPc, TurnPc, FlowPc, SwitchPc

Labelled == pc \in [Session -> SessionPc \cup ConsumerPc]

\* What a session may do to the others in a step outside of a delivery: it takes no lease
\* from them, archives and lets a turn run only in conversations whose lease they do not
\* hold, and never takes a job or a selection back.
Considerate(p) ==
    /\ RecordsTypeOK' /\ Labelled' /\ pc'[p] \in SessionPc
    /\ \A q \in Session \ {p} : pc'[q] = pc[q] /\ conv'[q] = conv[q] /\ job'[q] = job[q]
    /\ \A c \in Conversation, q \in Session \ {p} : actionLease[c] = q => actionLease'[c] = q
    /\ \A c \in open : c \in open' \/ actionLease[c] = p
    /\ \A c \in Conversation : turn'[c] = "running" =>
          \/ turn[c] = "running"
          \/ actionLease[c] \in {NoOne, p} /\ \A q \in fresh' \ {p} : conv[q] # c
    /\ fresh' \subseteq fresh \cup {p}
    /\ \A c \in Conversation : linked[c] \subseteq linked'[c]
    /\ \A j \in Job : origin[j] \in {NoOne, origin'[j]}

\* A step of p that only moves it, may give its lease up and makes others read again.
LEMMA PlainStep ==
    ASSUME RecordsTypeOK, Labelled, NEW p \in Session, NEW to \in SessionPc, pc' = [pc EXCEPT ![p] = to],
           actionLease' = actionLease \/ actionLease' = Released(actionLease, p)
              \/ (actionLease[conv[p]] = NoOne /\ actionLease' = [actionLease EXCEPT ![conv[p]] = p]),
           fresh' \subseteq fresh,
           turn' \in [Conversation -> {"idle", "running", "uncertain"}],
           \A c \in Conversation : turn'[c] = "running" =>
              turn[c] = "running" \/ (actionLease[c] \in {NoOne, p} /\ \A q \in fresh' \ {p} : conv[q] # c),
           asked' \in [Conversation -> Session \cup {NoOne}],
           linked' \in [Conversation -> SUBSET Job], \A c \in Conversation : linked[c] \subseteq linked'[c],
           origin' \in [Job -> Conversation \cup {NoOne}], \A j \in Job : origin[j] \in {NoOne, origin'[j]},
           job' \in [Session -> Job], \A q \in Session \ {p} : job'[q] = job[q],
           UNCHANGED <<active, open, archived, storeLock, conv, target>>
    PROVE  Considerate(p)
<1>1. /\ actionLease \in [Conversation -> Session \cup {NoOne}] /\ conv[p] \in Conversation
      /\ fresh \subseteq Session
  BY DEF RecordsTypeOK
<1>2. Labelled' /\ pc'[p] \in SessionPc /\ \A q \in Session \ {p} : pc'[q] = pc[q]
  BY DEF Labelled
<1>3. /\ actionLease' \in [Conversation -> Session \cup {NoOne}]
      /\ \A c \in Conversation, q \in Session \ {p} : actionLease[c] = q => actionLease'[c] = q
  <2>1. CASE actionLease' = Released(actionLease, p)
    BY <1>1, <2>1 DEF Released
  <2>2. CASE actionLease[conv[p]] = NoOne /\ actionLease' = [actionLease EXCEPT ![conv[p]] = p]
    BY <1>1, <2>2, HandoffConstants
  <2> QED BY <1>1, <2>1, <2>2
<1>4. RecordsTypeOK'
  BY <1>1, <1>3 DEF RecordsTypeOK
<1> QED BY <1>2, <1>3, <1>4 DEF Considerate

\* A step that records something, or nothing, in a conversation p has read last.
LEMMA RecordingIsConsiderate ==
    ASSUME RecordsTypeOK, Labelled, NEW p \in Session,
           \/ BeginTurn(p) \/ Reply(p) \/ FlowEnds(p) \/ RecordAction(p, "linked", "turn")
           \/ RecordAction(p, "refused", "failing") \/ Link(p, "admitted", "linked")
           \/ Link(p, "flow admitted", "flow linked")
           \/ \E c \in Conversation, j \in Job : SelectPriorJob(p, c, j)
    PROVE  Considerate(p)
<1>1. /\ conv[p] \in Conversation /\ conv \in [Session -> Conversation] /\ job[p] \in Job /\ fresh \subseteq Session
      /\ turn \in [Conversation -> {"idle", "running", "uncertain"}] /\ asked \in [Conversation -> Session \cup {NoOne}]
      /\ linked \in [Conversation -> SUBSET Job] /\ origin \in [Job -> Conversation \cup {NoOne}] /\ job \in [Session -> Job]
  BY DEF RecordsTypeOK
<1>2. UNCHANGED <<active, open, archived, origin, storeLock, conv, job, target>>
  BY DEF BeginTurn, Reply, FlowEnds, RecordAction, Link, SelectPriorJob, boundVars, lockVars, recordVars
<1>3. ASSUME NEW from, NEW to \in SessionPc, Change(p, from, to),
             actionLease' = actionLease \/ actionLease' = Released(actionLease, p),
             turn' = turn \/ \E t \in {"idle", "running"} : turn' = [turn EXCEPT ![conv[p]] = t],
             asked' = asked \/ asked' = [asked EXCEPT ![conv[p]] = p],
             linked' = linked \/ \E j \in Job : linked' = [linked EXCEPT ![conv[p]] = @ \cup {j}]
      PROVE  Considerate(p)
  <2>1. /\ pc' = [pc EXCEPT ![p] = to] /\ fresh' \subseteq fresh /\ actionLease[conv[p]] \in {NoOne, p}
        /\ \A q \in fresh' \ {p} : conv[q] # conv[p]
    BY <1>1, <1>3 DEF Change, LeaseFree
  <2>2. /\ turn' \in [Conversation -> {"idle", "running", "uncertain"}]
        /\ \A c \in Conversation : turn'[c] = "running" => turn[c] = "running" \/ c = conv[p]
    BY <1>1, <1>3
  <2>3. asked' \in [Conversation -> Session \cup {NoOne}]
    BY <1>1, <1>3
  <2>4. /\ linked' \in [Conversation -> SUBSET Job]
        /\ \A c \in Conversation : linked[c] \subseteq linked'[c]
    <3>1. CASE linked' = linked
      BY <1>1, <3>1
    <3>2. CASE \E j \in Job : linked' = [linked EXCEPT ![conv[p]] = @ \cup {j}]
      <4>1. PICK j \in Job : linked' = [linked EXCEPT ![conv[p]] = @ \cup {j}]
        BY <3>2
      <4>2. PICK all \in SUBSET Job : all = linked[conv[p]] \cup {j}
        BY <1>1
      <4>3. linked' = [linked EXCEPT ![conv[p]] = all]
        BY <4>1, <4>2
      <4> QED BY <1>1, <4>2, <4>3
    <3> QED BY <1>3, <3>1, <3>2
  <2>5. origin' \in [Job -> Conversation \cup {NoOne}] /\ \A j \in Job : origin[j] \in {NoOne, origin'[j]}
    BY <1>1, <1>2
  <2>6. job' \in [Session -> Job] /\ \A q \in Session \ {p} : job'[q] = job[q]
    BY <1>1, <1>2
  <2> QED BY <1>2, <1>3, <2>1, <2>2, <2>3, <2>4, <2>5, <2>6, PlainStep
<1>4. {"turn", "idle", "off", "failing", "linked", "flow linked", "selected"} \subseteq SessionPc
  BY DEF SessionPc, TurnPc, FlowPc
<1>5. CASE BeginTurn(p)
  <2>1. /\ Change(p, "idle", "turn") /\ turn' = [turn EXCEPT ![conv[p]] = "running"]
        /\ asked' = [asked EXCEPT ![conv[p]] = p] /\ linked' = linked /\ actionLease' = actionLease
    BY <1>5 DEF BeginTurn, lockVars
  <2> QED BY <1>3, <1>4, <2>1
<1>6. CASE Reply(p)
  <2>1. /\ \E to \in {"idle", "failing"} : Change(p, "turn", to)
        /\ turn' = [turn EXCEPT ![conv[p]] = "idle"]
        /\ asked' = asked /\ linked' = linked /\ actionLease' = actionLease
    BY <1>6 DEF Reply, lockVars
  <2>2. PICK to \in {"idle", "failing"} : Change(p, "turn", to)
    BY <2>1
  <2>3. to \in SessionPc
    BY <1>4
  <2> QED BY <1>3, <2>1, <2>2, <2>3
<1>7. CASE FlowEnds(p)
  <2>1. /\ Change(p, "flow linked", "off") /\ turn' = [turn EXCEPT ![conv[p]] = "idle"]
        /\ asked' = asked /\ linked' = linked /\ actionLease' = actionLease
    BY <1>7 DEF FlowEnds, lockVars
  <2> QED BY <1>3, <1>4, <2>1
<1>8. ASSUME NEW from, NEW to \in {"turn", "failing"}, RecordAction(p, from, to)
      PROVE  Considerate(p)
  <2>1. /\ Change(p, from, to) /\ actionLease' = Released(actionLease, p)
        /\ linked' = linked /\ turn' = turn /\ asked' = asked
    BY <1>8 DEF RecordAction, recordVars
  <2>2. to \in SessionPc
    BY <1>4
  <2> QED BY <1>3, <2>1, <2>2
<1>9. ASSUME NEW from, NEW to \in {"linked", "flow linked"}, Link(p, from, to)
      PROVE  Considerate(p)
  <2>1. /\ Change(p, from, to) /\ linked' = [linked EXCEPT ![conv[p]] = @ \cup {job[p]}]
        /\ turn' = turn /\ asked' = asked /\ actionLease' = actionLease
    BY <1>9 DEF Link, lockVars
  <2>2. to \in SessionPc
    BY <1>4
  <2> QED BY <1>1, <1>3, <2>1, <2>2
<1>10. ASSUME NEW c \in Conversation, NEW j \in Job, SelectPriorJob(p, c, j)
       PROVE  Considerate(p)
  <2>1. /\ Change(p, "idle", "selected") /\ linked' = [linked EXCEPT ![conv[p]] = @ \cup {j}]
        /\ turn' = turn /\ asked' = asked /\ actionLease' = actionLease
    BY <1>10 DEF SelectPriorJob, lockVars
  <2> QED BY <1>3, <1>4, <2>1
<1> QED BY <1>5, <1>6, <1>7, <1>8, <1>9, <1>10

\* A step that fails, proposes, admits or notes something.
LEMMA MovingIsConsiderate ==
    ASSUME RecordsTypeOK, Labelled, NEW p \in Session,
           \/ ProposeAction(p) \/ DispatchFails(p) \/ TurnFails(p) \/ MarkUncertain(p) \/ NoteSelection(p)
           \/ FlowFails(p) \/ Crash(p)
           \/ \E j \in Job : Admit(p, j, "guard", "admitted") \/ Admit(p, j, "flow asked", "flow admitted")
    PROVE  Considerate(p)
<1>1. /\ conv[p] \in Conversation /\ conv \in [Session -> Conversation] /\ job \in [Session -> Job] /\ fresh \subseteq Session
      /\ turn \in [Conversation -> {"idle", "running", "uncertain"}] /\ asked \in [Conversation -> Session \cup {NoOne}]
      /\ linked \in [Conversation -> SUBSET Job] /\ origin \in [Job -> Conversation \cup {NoOne}]
  BY DEF RecordsTypeOK
<1>2. UNCHANGED <<active, open, archived, asked, linked, storeLock, conv, target>>
  BY DEF ProposeAction, DispatchFails, TurnFails, MarkUncertain, NoteSelection, FlowFails, Crash, Admit, boundVars,
         lockVars, recordVars
<1>3. ASSUME NEW to \in SessionPc, pc' = [pc EXCEPT ![p] = to],
             actionLease' = actionLease \/ actionLease' = Released(actionLease, p)
                \/ (actionLease[conv[p]] = NoOne /\ actionLease' = [actionLease EXCEPT ![conv[p]] = p]),
             fresh' \subseteq fresh,
             turn' = turn \/ turn' = [turn EXCEPT ![conv[p]] = "uncertain"],
             origin' = origin \/ (\E j \in Job : origin[j] = NoOne /\ origin' = [origin EXCEPT ![j] = conv[p]]),
             job' = job \/ \E j \in Job : job' = [job EXCEPT ![p] = j]
      PROVE  Considerate(p)
  <2>1. /\ turn' \in [Conversation -> {"idle", "running", "uncertain"}]
        /\ \A c \in Conversation : turn'[c] = "running" => turn[c] = "running"
    BY <1>1, <1>3
  <2>2. origin' \in [Job -> Conversation \cup {NoOne}] /\ \A j \in Job : origin[j] \in {NoOne, origin'[j]}
    BY <1>1, <1>3
  <2>3. job' \in [Session -> Job] /\ \A q \in Session \ {p} : job'[q] = job[q]
    <3>1. CASE job' = job
      BY <1>1, <3>1
    <3>2. ASSUME NEW j \in Job, job' = [job EXCEPT ![p] = j]
          PROVE  job' \in [Session -> Job] /\ \A q \in Session \ {p} : job'[q] = job[q]
      BY <1>1, <3>2
    <3> QED BY <1>3, <3>1, <3>2
  <2>4. asked' \in [Conversation -> Session \cup {NoOne}] /\ linked' \in [Conversation -> SUBSET Job]
    BY <1>1, <1>2
  <2>5. \A c \in Conversation : linked[c] \subseteq linked'[c]
    BY <1>2
  <2> QED BY <1>2, <1>3, <2>1, <2>2, <2>3, <2>4, <2>5, PlainStep
<1>4. CASE ProposeAction(p) \/ NoteSelection(p) \/ MarkUncertain(p)
  <2>1. PICK to \in {"guard", "idle"} :
            /\ pc' = [pc EXCEPT ![p] = to] /\ fresh' \subseteq fresh
            /\ \/ actionLease' = actionLease
               \/ actionLease[conv[p]] = NoOne /\ actionLease' = [actionLease EXCEPT ![conv[p]] = p]
            /\ turn' = turn \/ turn' = [turn EXCEPT ![conv[p]] = "uncertain"]
            /\ origin' = origin /\ job' = job
    BY <1>4 DEF ProposeAction, EnterGuard, NoteSelection, MarkUncertain, Change, recordVars, lockVars
  <2>2. to \in SessionPc
    BY DEF SessionPc, TurnPc
  <2> QED BY <1>3, <2>1, <2>2
<1>5. CASE DispatchFails(p) \/ \E j \in Job : Admit(p, j, "guard", "admitted") \/ Admit(p, j, "flow asked", "flow admitted")
  <2>1. PICK to \in {"refused", "admitted", "flow admitted"} :
            /\ pc' = [pc EXCEPT ![p] = to] /\ UNCHANGED <<fresh, actionLease, turn>>
            /\ origin' = origin \/ (\E j \in Job : origin[j] = NoOne /\ origin' = [origin EXCEPT ![j] = conv[p]])
            /\ job' = job \/ \E j \in Job : job' = [job EXCEPT ![p] = j]
    BY <1>5 DEF DispatchFails, Admit, recordVars, lockVars
  <2> QED BY <1>3, <2>1 DEF SessionPc, TurnPc, FlowPc
<1>6. CASE TurnFails(p) \/ FlowFails(p) \/ Crash(p)
  <2>1. PICK to \in {"failing", "off"} :
            /\ pc' = [pc EXCEPT ![p] = to] /\ fresh' \subseteq fresh
            /\ actionLease' = actionLease \/ actionLease' = Released(actionLease, p)
            /\ UNCHANGED <<turn, origin, job>>
    BY <1>6 DEF TurnFails, FlowFails, Crash, recordVars, lockVars
  <2> QED BY <1>3, <2>1 DEF SessionPc, TurnPc
<1> QED BY <1>4, <1>5, <1>6

\* A session that attaches, or asks with "flow submit".
LEMMA AttachingIsConsiderate ==
    ASSUME RecordsTypeOK, Labelled, NEW p \in Session, Attach(p) \/ FlowAsk(p)
    PROVE  Considerate(p)
<1>1. /\ conv \in [Session -> Conversation] /\ job \in [Session -> Job] /\ fresh \subseteq Session
      /\ turn \in [Conversation -> {"idle", "running", "uncertain"}] /\ asked \in [Conversation -> Session \cup {NoOne}]
      /\ active \in Conversation
  BY DEF RecordsTypeOK
<1>2. /\ active' = active /\ open' = open /\ archived' = archived /\ linked' = linked /\ origin' = origin
      /\ actionLease' = actionLease /\ storeLock' = storeLock /\ job' = job /\ target' = target
      /\ conv' = [conv EXCEPT ![p] = active] /\ fresh' \subseteq fresh \cup {p}
  BY DEF Attach, FlowAsk, lockVars
<1>3. PICK to \in {"idle", "flow asked"} : pc' = [pc EXCEPT ![p] = to]
  BY DEF Attach, FlowAsk
<1>4. to \in SessionPc
  BY DEF SessionPc, FlowPc
<1>5. Labelled' /\ pc'[p] \in SessionPc /\ \A q \in Session \ {p} : pc'[q] = pc[q]
  BY <1>3, <1>4 DEF Labelled
<1>6. conv' \in [Session -> Conversation] /\ \A q \in Session \ {p} : conv'[q] = conv[q]
  BY <1>1, <1>2
<1>7. asked' \in [Conversation -> Session \cup {NoOne}]
  BY <1>1 DEF Attach, FlowAsk
<1>8. /\ turn' \in [Conversation -> {"idle", "running", "uncertain"}]
      /\ \A c \in Conversation : turn'[c] = "running" =>
            \/ turn[c] = "running"
            \/ actionLease[c] \in {NoOne, p} /\ \A q \in fresh' \ {p} : conv[q] # c
  <2>1. CASE Attach(p)
    <3>1. turn' = [turn EXCEPT ![active] = IF @ = "running" THEN "uncertain" ELSE @]
      BY <2>1 DEF Attach
    <3> QED BY <1>1, <3>1
  <2>2. CASE FlowAsk(p)
    <3>1. /\ turn' = [turn EXCEPT ![active] = "running"] /\ actionLease[active] = NoOne
          /\ fresh' = (fresh \ {q \in Session : conv[q] = active}) \cup {p}
      BY <2>2 DEF FlowAsk
    <3> QED BY <1>1, <3>1
  <2> QED BY <2>1, <2>2
<1>9. RecordsTypeOK'
  BY <1>1, <1>2, <1>6, <1>7, <1>8 DEF RecordsTypeOK
<1>10. /\ \A c \in Conversation, q \in Session \ {p} : actionLease[c] = q => actionLease'[c] = q
       /\ \A c \in Conversation : linked[c] \subseteq linked'[c]
       /\ \A j \in Job : origin[j] \in {NoOne, origin'[j]}
       /\ \A q \in Session \ {p} : job'[q] = job[q]
       /\ \A c \in open : c \in open'
  BY <1>2
<1> QED BY <1>2, <1>5, <1>6, <1>8, <1>9, <1>10 DEF Considerate

\* A step of Reset or Select.
LEMMA SwitchingIsConsiderate ==
    ASSUME RecordsTypeOK, Labelled, NEW p \in Session, SwitchStep(p)
    PROVE  Considerate(p)
<1>1. /\ actionLease \in [Conversation -> Session \cup {NoOne}] /\ open \cap archived = {}
      /\ open \cup archived \subseteq Conversation /\ fresh \subseteq Session /\ storeLock \in Session \cup {NoOne}
      /\ target \in [Session -> Conversation] /\ active \in Conversation
  BY DEF RecordsTypeOK
<1>2. /\ turn' = turn /\ asked' = asked /\ linked' = linked /\ origin' = origin /\ conv' = conv /\ job' = job
      /\ fresh' \subseteq fresh
  BY DEF SwitchStep, BeginSwitch, MovePointer, ArchivePrior, SwitchFails, lockVars, recordVars
<1>3. PICK to \in {"moving", "archiving", "idle", "off"} : pc' = [pc EXCEPT ![p] = to]
  <2>1. CASE \E c \in Conversation : BeginSwitch(p, c)
    BY <2>1 DEF BeginSwitch
  <2>2. CASE MovePointer(p)
    BY <2>2 DEF MovePointer
  <2>3. CASE ArchivePrior(p)
    BY <2>3 DEF ArchivePrior
  <2>4. CASE SwitchFails(p)
    BY <2>4 DEF SwitchFails
  <2> QED BY <2>1, <2>2, <2>3, <2>4 DEF SwitchStep
<1>4. to \in SessionPc
  BY DEF SessionPc, SwitchPc
<1>5. Labelled' /\ pc'[p] \in SessionPc /\ \A q \in Session \ {p} : pc'[q] = pc[q]
  BY <1>3, <1>4 DEF Labelled
<1> DEFINE Fine ==
       /\ \A c \in Conversation, q \in Session \ {p} : actionLease[c] = q => actionLease'[c] = q
       /\ \A c \in open : c \in open' \/ actionLease[c] = p
       /\ active' \in Conversation /\ open' \cap archived' = {} /\ open' \cup archived' \subseteq Conversation
       /\ actionLease' \in [Conversation -> Session \cup {NoOne}] /\ storeLock' \in Session \cup {NoOne}
       /\ target' \in [Session -> Conversation]
<1>6. ASSUME actionLease' = Released(actionLease, p)
      PROVE  /\ actionLease' \in [Conversation -> Session \cup {NoOne}]
             /\ \A c \in Conversation, q \in Session \ {p} : actionLease[c] = q => actionLease'[c] = q
  BY <1>1, <1>6 DEF Released
<1>7. ASSUME NEW c \in Conversation, BeginSwitch(p, c) PROVE Fine
  <2>1. /\ actionLease[active] = NoOne /\ open' = open \cup {c} /\ archived' = archived \ {c}
        /\ actionLease' = [actionLease EXCEPT ![active] = p] /\ storeLock' = p
        /\ target' = [target EXCEPT ![p] = c] /\ active' = active
    BY <1>7 DEF BeginSwitch, MaySwitch, Unarchived
  <2>2. /\ actionLease' \in [Conversation -> Session \cup {NoOne}]
        /\ \A d \in Conversation, q \in Session \ {p} : actionLease[d] = q => actionLease'[d] = q
    BY <1>1, <2>1, HandoffConstants
  <2>3. target' \in [Session -> Conversation]
    BY <1>1, <2>1
  <2> QED BY <1>1, <2>1, <2>2, <2>3
<1>8. ASSUME MovePointer(p) PROVE Fine
  <2>1. /\ open' = open /\ archived' = archived /\ actionLease' = actionLease /\ storeLock' = storeLock
        /\ target' = target /\ active' = target[p]
    BY <1>8 DEF MovePointer, lockVars
  <2> QED BY <1>1, <2>1
<1>9. ASSUME ArchivePrior(p) PROVE Fine
  <2>1. /\ open' = open \ PriorConversation(p) /\ archived' = archived \cup PriorConversation(p)
        /\ actionLease' = Released(actionLease, p) /\ storeLock' = NoOne /\ target' = target /\ active' = active
    BY <1>9 DEF ArchivePrior
  <2>2. PriorConversation(p) \subseteq Conversation /\ \A c \in PriorConversation(p) : actionLease[c] = p
    BY DEF PriorConversation
  <2> QED BY <1>1, <1>6, <2>1, <2>2
<1>10. ASSUME SwitchFails(p) PROVE Fine
  <2>1. /\ open' = open /\ archived' = archived /\ actionLease' = Released(actionLease, p) /\ storeLock' = NoOne
        /\ target' = target /\ active' = active
    BY <1>10 DEF SwitchFails, recordVars
  <2> QED BY <1>1, <1>6, <2>1
<1>11. Fine
  BY <1>7, <1>8, <1>9, <1>10 DEF SwitchStep
<1>12. RecordsTypeOK'
  <2> HIDE DEF Fine
  <2>1. /\ turn' \in [Conversation -> {"idle", "running", "uncertain"}] /\ asked' \in [Conversation -> Session \cup {NoOne}]
        /\ linked' \in [Conversation -> SUBSET Job] /\ origin' \in [Job -> Conversation \cup {NoOne}]
        /\ conv' \in [Session -> Conversation] /\ job' \in [Session -> Job] /\ fresh' \subseteq Session
    BY <1>1, <1>2 DEF RecordsTypeOK
  <2> QED BY <1>11, <2>1 DEF RecordsTypeOK, Fine
<1>13. /\ \A q \in Session \ {p} : conv'[q] = conv[q] /\ job'[q] = job[q]
       /\ \A c \in Conversation : turn'[c] = "running" => turn[c] = "running"
       /\ \A c \in Conversation : linked[c] \subseteq linked'[c]
       /\ \A j \in Job : origin[j] \in {NoOne, origin'[j]}
       /\ fresh' \subseteq fresh \cup {p}
  BY <1>2
<1> QED BY <1>5, <1>11, <1>12, <1>13 DEF Considerate

\* Every step of a session outside of its deliveries, and its death.
LEMMA SessionIsConsiderate ==
    ASSUME RecordsTypeOK, Labelled, NEW p \in Session, ConversationStep(p) \/ Crash(p)
    PROVE  Considerate(p)
<1>1. CASE Attach(p) \/ FlowAsk(p)
  BY <1>1, AttachingIsConsiderate
<1>2. CASE SwitchStep(p)
  BY <1>2, SwitchingIsConsiderate
<1>3. CASE TurnStep(p)
  BY <1>3, RecordingIsConsiderate, MovingIsConsiderate DEF TurnStep
<1>4. CASE FlowStep(p)
  BY <1>1, <1>4, RecordingIsConsiderate, MovingIsConsiderate DEF FlowStep
<1>5. CASE SelectionStep(p)
  BY <1>5, RecordingIsConsiderate, MovingIsConsiderate DEF SelectionStep
<1>6. CASE Crash(p)
  BY <1>6, MovingIsConsiderate
<1> QED BY <1>1, <1>2, <1>3, <1>4, <1>5, <1>6 DEF ConversationStep

-----------------------------------------------------------------------------
(***************************************************************************)
(* What a step may do for each part of the invariant to stay               *)
(***************************************************************************)

\* No conversation loses a job it knows, and no job its origin.
NothingIsHidden ==
    /\ \A c \in Conversation : linked[c] \subseteq linked'[c]
    /\ \A j \in Job : origin[j] \in {NoOne, origin'[j]}

\* Visible, Undivided and SeenAs in the next state.
VisibleNext(c, j) ==
    \/ origin'[j] = c
    \/ origin'[j] \in Conversation /\ j \in linked'[c] \cap linked'[origin'[j]]

UndividedNext(j) == \A c \in Conversation : VisibleNext(c, j) => c = origin'[j]

SeenNext(j, v, status) == v <= version'[j] /\ (v = version'[j] => delivery'[j] = status)

\* What a conversation sees, it goes on to see.
LEMMA VisibleStays ==
    ASSUME RecordsTypeOK, NothingIsHidden
    PROVE  /\ \A c \in Conversation, j \in Job : Visible(c, j) => VisibleNext(c, j)
           /\ \A j \in Job : UndividedNext(j) => Undivided(j)
<1>1. /\ NoOne \notin Conversation /\ linked \in [Conversation -> SUBSET Job]
      /\ origin \in [Job -> Conversation \cup {NoOne}]
  BY HandoffConstants DEF RecordsTypeOK
<1>2. ASSUME NEW c \in Conversation, NEW j \in Job, Visible(c, j)
      PROVE  VisibleNext(c, j) /\ origin'[j] = origin[j]
  <2>1. origin[j] \in Conversation
    BY <1>2 DEF Visible
  <2>2. origin'[j] = origin[j]
    BY <1>1, <2>1 DEF NothingIsHidden
  <2> QED BY <1>1, <1>2, <2>1, <2>2 DEF Visible, VisibleNext, NothingIsHidden
<1>3. ASSUME NEW j \in Job, UndividedNext(j), NEW c \in Conversation, Visible(c, j)
      PROVE  c = origin[j]
  <2>1. VisibleNext(c, j) /\ origin'[j] = origin[j]
    BY <1>2, <1>3
  <2> QED BY <1>3, <2>1 DEF UndividedNext
<1> QED BY <1>2, <1>3 DEF Undivided, UndividedNext

\* What a step of the controller does to the rows: a status changes with its version, only
\* a decision of the owner offers a result again, and only what was shown, or the owner
\* says was shown, becomes delivered.
TableStep ==
    /\ \A j \in Job :
          /\ version[j] <= version'[j]
          /\ version'[j] = version[j] => delivery'[j] = delivery[j]
          /\ delivery'[j] = "none" => delivery[j] = "none" /\ version'[j] = version[j]
          /\ delivery'[j] # "none" => delivery[j] # "none" \/ origin[j] \in Conversation
          /\ delivery'[j] = "delivered" => delivery[j] = "delivered" \/ sent[j] > 0 \/ j \in attested'
          /\ retried[j] <= retried'[j]
          /\ delivery'[j] \in {"none", "available"} =>
                delivery[j] \in {"none", "available"} \/ retried[j] < retried'[j]
    /\ attested \subseteq attested'

\* One lemma for each part of the invariant.
LEMMA RowStays == ASSUME RecordsTypeOK, RowInv, NothingIsHidden, TableStep PROVE RowInv'
<1>1. NoOne \notin Conversation
  BY HandoffConstants
<1> QED BY <1>1 DEF RowInv, NothingIsHidden, TableStep

\* A consumer keeps its conversation.
Keeps(q) == pc'[q] \in ConsumerPc /\ pc[q] \in ConsumerPc => conv'[q] = conv[q]

LEMMA DeliveryStays ==
    ASSUME RecordsTypeOK, DeliveryInv, NothingIsHidden, conv' \in [Session -> Conversation],
           listed \in [Session -> SUBSET (Job \X Nat)], owner \in Command \cup {NoCommand}, job \in [Session -> Job],
           \A q \in Session : Keeps(q),
           \A c \in Conversation, q \in Session : deliveryLease[c] = q /\ pc'[q] \in ConsumerPc => deliveryLease'[c] = q,
           \A c \in Conversation : deliveryLease[c] = Owner /\ owner' # NoCommand => deliveryLease'[c] = Owner,
           owner' # NoCommand =>
              \/ owner' = owner
              \/ origin'[owner'.job] \in Conversation /\ deliveryLease'[origin'[owner'.job]] = Owner,
           \A q \in Session : pc'[q] \in ConsumerPc => pc[q] \in ConsumerPc \/ deliveryLease'[conv'[q]] = q,
           \A q \in Session : pc'[q] \in ConsumerPc => \A x \in listed'[q] :
              (pc[q] \in ConsumerPc /\ x \in listed[q]) \/ VisibleNext(conv'[q], x[1]),
           \A q \in Session : pc'[q] \in AtResult =>
              (pc[q] \in AtResult /\ job'[q] = job[q]) \/ VisibleNext(conv'[q], job'[q])
    PROVE  DeliveryInv'
<1>1. \A c \in Conversation, j \in Job : Visible(c, j) => VisibleNext(c, j)
  BY VisibleStays
<1>2. conv \in [Session -> Conversation] /\ AtResult \subseteq ConsumerPc /\ NoOne \notin Conversation
  BY HandoffConstants DEF RecordsTypeOK
<1>3. \A q \in Session : pc'[q] \in ConsumerPc => deliveryLease'[conv'[q]] = q
  BY <1>2 DEF DeliveryInv, Keeps
<1>4. owner' # NoCommand => origin'[owner'.job] \in Conversation /\ deliveryLease'[origin'[owner'.job]] = Owner
  <2> SUFFICES ASSUME owner' # NoCommand, owner' = owner
               PROVE  origin'[owner.job] \in Conversation /\ deliveryLease'[origin'[owner.job]] = Owner
    OBVIOUS
  <2>1. owner \in Command /\ owner.job \in Job
    BY DEF Command
  <2>2. origin[owner.job] \in Conversation /\ deliveryLease[origin[owner.job]] = Owner
    BY DEF DeliveryInv
  <2>3. origin'[owner.job] = origin[owner.job]
    BY <1>2, <2>1, <2>2 DEF NothingIsHidden
  <2> QED BY <2>2, <2>3
<1>5. ASSUME NEW q \in Session, pc'[q] \in ConsumerPc, NEW x \in listed'[q] PROVE VisibleNext(conv'[q], x[1])
  <2> SUFFICES ASSUME pc[q] \in ConsumerPc, x \in listed[q] PROVE VisibleNext(conv'[q], x[1])
    BY <1>5
  <2>1. x \in Job \X Nat
    OBVIOUS
  <2>2. x[1] \in Job /\ conv'[q] = conv[q] /\ Visible(conv[q], x[1])
    BY <1>5, <2>1 DEF DeliveryInv, Keeps
  <2> QED BY <1>1, <1>2, <2>2
<1>6. ASSUME NEW q \in Session, pc'[q] \in AtResult PROVE VisibleNext(conv'[q], job'[q])
  <2> SUFFICES ASSUME pc[q] \in AtResult, job'[q] = job[q] PROVE VisibleNext(conv'[q], job'[q])
    BY <1>6
  <2>1. conv'[q] = conv[q] /\ Visible(conv[q], job[q]) /\ job[q] \in Job /\ conv[q] \in Conversation
    BY <1>2, <1>6 DEF DeliveryInv, Keeps
  <2> QED BY <1>1, <2>1
<1> QED BY <1>3, <1>4, <1>5, <1>6 DEF DeliveryInv, Visible, VisibleNext

LEMMA VersionStays ==
    ASSUME HandoffTypes, VersionInv, TableStep, version' \in [Job -> Nat],
           owner' # NoCommand => owner' = owner \/ SeenNext(owner'.job, owner'.version, LooksFor(owner'.op)),
           \A r \in late' : r.op # "mark" => r \in late \/ SeenNext(r.job, r.version, LooksFor(r.op)),
           \A q \in Session : pc'[q] = "reconciling" => \A x \in listed'[q] :
              (pc[q] = "reconciling" /\ x \in listed[q]) \/ SeenNext(x[1], x[2], "sending")
    PROVE  VersionInv'
<1>1. /\ owner \in Command \cup {NoCommand} /\ late \subseteq Marking \cup Command /\ version \in [Job -> Nat]
      /\ listed \in [Session -> SUBSET (Job \X Nat)]
  BY DEF HandoffTypes, HandoffTypeOK
<1>2. ASSUME NEW j \in Job, NEW v \in Nat, NEW status, SeenAs(j, v, status) PROVE SeenNext(j, v, status)
  <2>1. /\ version[j] \in Nat /\ version'[j] \in Nat /\ version[j] <= version'[j]
        /\ version'[j] = version[j] => delivery'[j] = delivery[j]
    BY <1>1 DEF TableStep
  <2>2. v <= version[j] /\ (v = version[j] => delivery[j] = status)
    BY <1>2 DEF SeenAs
  <2> QED BY <2>1, <2>2 DEF SeenNext
<1>3. owner' # NoCommand => SeenNext(owner'.job, owner'.version, LooksFor(owner'.op))
  <2> SUFFICES ASSUME owner' # NoCommand, owner' = owner PROVE SeenNext(owner.job, owner.version, LooksFor(owner.op))
    OBVIOUS
  <2>1. owner.job \in Job /\ owner.version \in Nat
    BY <1>1 DEF Command
  <2>2. SeenAs(owner.job, owner.version, LooksFor(owner.op))
    BY DEF VersionInv
  <2> QED BY <1>2, <2>1, <2>2
<1>4. ASSUME NEW r \in late', r.op # "mark" PROVE SeenNext(r.job, r.version, LooksFor(r.op))
  <2> SUFFICES ASSUME r \in late PROVE SeenNext(r.job, r.version, LooksFor(r.op))
    BY <1>4
  <2>1. r \in Command
    BY <1>1, <1>4 DEF Marking
  <2>2. r.job \in Job /\ r.version \in Nat
    BY <2>1 DEF Command
  <2>3. SeenAs(r.job, r.version, LooksFor(r.op))
    BY <1>4 DEF VersionInv
  <2> QED BY <1>2, <2>2, <2>3
<1>5. ASSUME NEW q \in Session, pc'[q] = "reconciling", NEW x \in listed'[q] PROVE SeenNext(x[1], x[2], "sending")
  <2> SUFFICES ASSUME pc[q] = "reconciling", x \in listed[q] PROVE SeenNext(x[1], x[2], "sending")
    BY <1>5
  <2>1. x \in Job \X Nat
    BY <1>1
  <2>2. x[1] \in Job /\ x[2] \in Nat
    BY <2>1
  <2>3. SeenAs(x[1], x[2], "sending")
    BY DEF VersionInv
  <2> QED BY <1>2, <2>2, <2>3
<1> QED BY <1>3, <1>4, <1>5 DEF VersionInv, SeenAs, SeenNext

DueNext(j) ==
    \/ delivery'[j] \in {"none", "available"}
    \/ \E p \in Session : pc'[p] \in BeforeSend /\ job'[p] = j

\* A session at a result had read it before, or reads an available one now.
StaysOrReads(q, place) == (pc[q] \in place /\ job'[q] = job[q]) \/ delivery[job'[q]] = "available"

LEMMA SendStays ==
    ASSUME HandoffTypes, HandoffTypes', VersionInv, SendInv, NothingIsHidden, TableStep, sent' = sent,
           \A q \in Session : pc'[q] \in BeforeSend => StaysOrReads(q, BeforeSend),
           \A q \in Session : pc'[q] \in AtResult => StaysOrReads(q, AtResult),
           \A q \in Session : pc'[q] \in AfterMark =>
              (pc[q] \in AfterMark /\ job'[q] = job[q]) \/ delivery'[job'[q]] \notin {"none", "available"},
           \A q \in Session : pc[q] \in AfterMark /\ pc'[q] \in AfterMark /\ Undivided(job[q]) =>
              retried'[job[q]] = retried[job[q]],
           \A r \in late' : r \in late \/ r.op = "mark" \/ \A q \in Session :
              pc'[q] \in AtResult /\ job'[q] = r.job /\ Undivided(r.job) => r.version < version'[r.job]
    PROVE  SendInv'
<1>1. /\ RecordsTypeOK /\ version \in [Job -> Nat] /\ sent \in [Job -> Nat] /\ retried \in [Job -> Nat]
      /\ late \subseteq Marking \cup Command
  BY DEF HandoffTypes, HandoffTypeOK
<1>2. /\ version' \in [Job -> Nat] /\ retried' \in [Job -> Nat] /\ job' \in [Session -> Job]
      /\ late' \subseteq Marking \cup Command
  BY DEF HandoffTypes, HandoffTypeOK, RecordsTypeOK
<1> SUFFICES ASSUME NEW j \in Job, UndividedNext(j)
             PROVE  /\ sent'[j] <= 1 + retried'[j]
                    /\ DueNext(j) => sent'[j] <= retried'[j]
                    /\ \A p \in Session : pc'[p] \in AfterMark /\ job'[p] = j => delivery'[j] \notin {"none", "available"}
                    /\ \A p \in Session : pc'[p] \in AtResult /\ job'[p] = j =>
                          \A r \in late' : r.op # "mark" /\ r.job = j => r.version < version'[j]
  BY DEF SendInv, Due, DueNext, Undivided, UndividedNext, Visible, VisibleNext
<1>3. Undivided(j)
  BY <1>1, VisibleStays
<1>4. /\ sent[j] <= 1 + retried[j]
      /\ Due(j) => sent[j] <= retried[j]
      /\ \A p \in Session : pc[p] \in AfterMark /\ job[p] = j => delivery[j] \notin {"none", "available"}
      /\ \A p \in Session : pc[p] \in AtResult /\ job[p] = j =>
            \A r \in late : r.op # "mark" /\ r.job = j => r.version < version[j]
  BY <1>3 DEF SendInv
<1>5. /\ sent[j] \in Nat /\ retried[j] \in Nat /\ retried'[j] \in Nat /\ version[j] \in Nat /\ version'[j] \in Nat
      /\ version[j] <= version'[j] /\ retried[j] <= retried'[j] /\ sent'[j] = sent[j]
  BY <1>1, <1>2 DEF TableStep
<1>6. DueNext(j) => sent'[j] <= retried'[j]
  <2>1. CASE Due(j)
    BY <1>4, <1>5, <2>1
  <2>2. CASE retried[j] < retried'[j]
    BY <1>4, <1>5, <2>2
  <2>3. ASSUME DueNext(j) PROVE Due(j) \/ retried[j] < retried'[j]
    <3>1. ASSUME NEW q \in Session, pc'[q] \in BeforeSend, job'[q] = j PROVE Due(j)
      BY <3>1 DEF Due, StaysOrReads
    <3> QED BY <2>3, <3>1 DEF DueNext, Due, TableStep
  <2> QED BY <2>1, <2>2, <2>3
<1>7. ASSUME NEW q \in Session, pc'[q] \in AfterMark, job'[q] = j PROVE delivery'[j] \notin {"none", "available"}
  <2> SUFFICES ASSUME pc[q] \in AfterMark, job[q] = j PROVE delivery'[j] \notin {"none", "available"}
    BY <1>7
  <2>1. delivery[j] \notin {"none", "available"} /\ retried'[j] = retried[j]
    BY <1>3, <1>4, <1>7
  <2>2. ~(retried[j] < retried'[j])
    BY <1>5, <2>1
  <2> QED BY <2>1, <2>2 DEF TableStep
<1>8. ASSUME NEW q \in Session, pc'[q] \in AtResult, job'[q] = j, NEW r \in late', r.op # "mark", r.job = j
      PROVE  r.version < version'[j]
  <2> SUFFICES ASSUME r \in late PROVE r.version < version'[j]
    BY <1>3, <1>8
  <2>1. r.version \in Nat
    BY <1>1, <1>8 DEF Marking, Command
  <2>2. CASE pc[q] \in AtResult /\ job[q] = j
    BY <1>4, <1>5, <1>8, <2>1, <2>2
  <2>3. CASE delivery[j] = "available"
    <3>1. SeenAs(j, r.version, LooksFor(r.op)) /\ LooksFor(r.op) # "available"
      BY <1>8 DEF VersionInv, LooksFor
    <3>2. r.version <= version[j] /\ r.version # version[j]
      BY <2>3, <3>1 DEF SeenAs
    <3> QED BY <1>5, <2>1, <3>2
  <2> QED BY <1>8, <2>2, <2>3 DEF StaysOrReads
<1> QED BY <1>4, <1>5, <1>6, <1>7, <1>8

LEMMA ReceiptStays ==
    ASSUME HandoffTypes, ReceiptInv, TableStep, sent' \in [Job -> Nat], \A j \in Job : sent[j] <= sent'[j],
           job' \in [Session -> Job],
           \A q \in Session : pc'[q] = "confirming" => (pc[q] = "confirming" /\ job'[q] = job[q]) \/ sent'[job'[q]] > 0,
           \A r \in late' : r \in late \/ r.op # "mark" \/ r.to # "delivered" \/ sent'[r.job] > 0
    PROVE  ReceiptInv'
<1>1. /\ sent \in [Job -> Nat] /\ late \subseteq Marking \cup Command /\ job \in [Session -> Job]
  BY DEF HandoffTypes, HandoffTypeOK, RecordsTypeOK
<1>2. \A j \in Job : sent[j] > 0 => sent'[j] > 0
  BY <1>1
<1>3. \A j \in Job : delivery'[j] = "delivered" => sent'[j] > 0 \/ j \in attested'
  BY <1>2 DEF ReceiptInv, DeliveredWasSent, TableStep
<1>4. \A q \in Session : pc'[q] = "confirming" => sent'[job'[q]] > 0
  BY <1>1, <1>2 DEF ReceiptInv
<1>5. ASSUME NEW r \in late', r.op = "mark", r.to = "delivered" PROVE sent'[r.job] > 0
  <2> SUFFICES ASSUME r \in late PROVE sent'[r.job] > 0
    BY <1>5
  <2>1. r.job \in Job
    BY <1>1 DEF Marking, Command
  <2> QED BY <1>2, <1>5, <2>1 DEF ReceiptInv
<1> QED BY <1>3, <1>4, <1>5 DEF ReceiptInv, DeliveredWasSent

LEMMA QuietStays ==
    ASSUME RecordsTypeOK, QuietInv,
           \A q \in Session : pc'[q] \in SenderPc \cup {"read"} => conv'[q] = conv[q],
           \A q \in Session : pc'[q] \in SenderPc =>
              \/ pc[q] \in SenderPc /\ actionLease'[conv[q]] = actionLease[conv[q]]
              \/ actionLease'[conv[q]] = q /\ conv[q] \in open /\ turn[conv[q]] # "running",
           \A q \in Session : pc'[q] \in SenderPc /\ conv[q] \in open => conv[q] \in open',
           \A q \in Session : pc'[q] \in SenderPc /\ turn'[conv[q]] = "running" => turn[conv[q]] = "running",
           \A q \in Session : pc'[q] = "read" /\ q \in fresh' =>
              \/ pc[q] = "read" /\ q \in fresh /\ (turn'[conv[q]] = "running" => turn[conv[q]] = "running")
              \/ turn'[conv[q]] # "running"
    PROVE  QuietInv'
<1>1. ASSUME NEW q \in Session, pc'[q] \in SenderPc
      PROVE  actionLease'[conv'[q]] = q /\ conv'[q] \in open' /\ turn'[conv'[q]] # "running"
  BY <1>1 DEF QuietInv
<1>2. ASSUME NEW q \in Session, pc'[q] = "read", q \in fresh' PROVE turn'[conv'[q]] # "running"
  BY <1>2 DEF QuietInv
<1> QED BY <1>1, <1>2 DEF QuietInv

\* Two sessions at the result of one conversation are one: both hold its delivery lease.
LEMMA OneAtResult ==
    ASSUME HandoffTypes, DeliveryInv, NEW j \in Job, Undivided(j),
           NEW p \in Session, pc[p] \in ConsumerPc, Visible(conv[p], j),
           NEW q \in Session, pc[q] \in AtResult, job[q] = j
    PROVE  p = q /\ conv[q] = origin[j]
<1>1. conv[p] \in Conversation /\ conv[q] \in Conversation /\ pc[q] \in ConsumerPc
  BY HandoffConstants DEF HandoffTypes, HandoffTypeOK, RecordsTypeOK
<1>2. Visible(conv[q], j)
  BY DEF DeliveryInv
<1>3. conv[p] = origin[j] /\ conv[q] = origin[j]
  BY <1>1, <1>2 DEF Undivided
<1> QED BY <1>1, <1>3 DEF DeliveryInv

-----------------------------------------------------------------------------
(***************************************************************************)
(* The steps                                                               *)
(***************************************************************************)

\* A request that p leaves behind.
LeftBehind(p, r) ==
    \/ r.op = "mark" /\ (r.to = "delivered" => sent[r.job] > 0)
    \/ r.op = "recover" /\ pc[p] = "reconciling" /\ Visible(conv[p], r.job) /\ SeenAs(r.job, r.version, "sending")

\* A step of a session that is at no result afterwards.
LEMMA SessionStays ==
    ASSUME HandoffInv, NEW p \in Session, Considerate(p), TableStep,
           \/ deliveryLease' = deliveryLease /\ listed' = listed
           \/ deliveryLease' = Released(deliveryLease, p) /\ listed' = [listed EXCEPT ![p] = {}],
           owner' = owner, sent' = sent, noted' = noted, retried' = retried, attested' = attested,
           delivery' \in [Job -> DeliveryStatus], version' \in [Job -> Nat], late' \subseteq Marking \cup Command,
           \A r \in late' : r \in late \/ LeftBehind(p, r)
    PROVE  HandoffInv'
<1>1. /\ HandoffTypes /\ RecordsTypeOK /\ RowInv /\ DeliveryInv /\ VersionInv /\ SendInv /\ ReceiptInv /\ QuietInv
  BY DEF HandoffInv, HandoffTypes, HandoffTypeOK
<1>2. /\ conv \in [Session -> Conversation] /\ job \in [Session -> Job] /\ fresh \subseteq Session
      /\ deliveryLease \in [Conversation -> Session \cup {NoOne, Owner}] /\ listed \in [Session -> SUBSET (Job \X Nat)]
      /\ owner \in Command \cup {NoCommand} /\ sent \in [Job -> Nat] /\ retried \in [Job -> Nat] /\ attested \subseteq Job
      /\ noted \in [Conversation -> SUBSET Job] /\ late \subseteq Marking \cup Command /\ version \in [Job -> Nat]
  BY <1>1 DEF HandoffTypes, HandoffTypeOK, RecordsTypeOK
<1>3. /\ RecordsTypeOK' /\ Labelled' /\ NothingIsHidden
      /\ \A q \in Session : pc'[q] \in ConsumerPc => q # p
      /\ \A q \in Session \ {p} : pc'[q] = pc[q] /\ conv'[q] = conv[q] /\ job'[q] = job[q]
  BY HandoffConstants DEF Considerate, NothingIsHidden
<1>4. /\ \A q \in Session \ {p} : listed'[q] = listed[q]
      /\ \A c \in Conversation : \A h \in (Session \cup {Owner}) \ {p} : deliveryLease[c] = h => deliveryLease'[c] = h
      /\ deliveryLease' \in [Conversation -> Session \cup {NoOne, Owner}]
      /\ listed' \in [Session -> SUBSET (Job \X Nat)]
  <2>1. CASE deliveryLease' = deliveryLease /\ listed' = listed
    BY <1>2, <2>1
  <2>2. CASE deliveryLease' = Released(deliveryLease, p) /\ listed' = [listed EXCEPT ![p] = {}]
    BY <1>2, <2>2 DEF Released
  <2> QED BY <2>1, <2>2
<1>5. HandoffTypes'
  <2>1. sent' \in [Job -> Nat] /\ retried' \in [Job -> Nat] /\ attested' \subseteq Job /\ noted' \in [Conversation -> SUBSET Job]
        /\ owner' \in Command \cup {NoCommand}
    BY <1>2
  <2> QED BY <1>3, <1>4, <2>1 DEF HandoffTypes, HandoffTypeOK, Labelled
<1>6. RowInv'
  BY <1>1, <1>3, RowStays
<1>7. AtResult \subseteq ConsumerPc /\ SenderPc \subseteq ConsumerPc /\ BeforeSend \subseteq AtResult /\ AfterMark \subseteq AtResult
      /\ {"reconciling", "read", "confirming"} \subseteq ConsumerPc /\ Owner \notin Session
  BY HandoffConstants DEF AtResult, BeforeSend, ConsumerPc, SenderPc
<1>8. DeliveryInv'
  <2>1. conv' \in [Session -> Conversation] /\ \A q \in Session : Keeps(q)
    BY <1>3 DEF Keeps, RecordsTypeOK
  <2>2. \A c \in Conversation, q \in Session : deliveryLease[c] = q /\ pc'[q] \in ConsumerPc => deliveryLease'[c] = q
    BY <1>3, <1>4
  <2>3. \A c \in Conversation : deliveryLease[c] = Owner => deliveryLease'[c] = Owner
    BY <1>4, <1>7
  <2>4. \A q \in Session : pc'[q] \in ConsumerPc =>
           pc[q] \in ConsumerPc /\ listed'[q] = listed[q] /\ job'[q] = job[q] /\ pc'[q] = pc[q]
    BY <1>3, <1>4
  <2>5. \A q \in Session : pc'[q] \in AtResult => pc[q] \in AtResult /\ job'[q] = job[q]
    BY <1>7, <2>4
  <2> QED BY <1>1, <1>2, <1>3, <2>1, <2>2, <2>3, <2>4, <2>5, DeliveryStays
<1>9. VersionInv'
  <2>1. \A r \in late' : r.op # "mark" => r \in late \/ SeenNext(r.job, r.version, LooksFor(r.op))
    <3> SUFFICES ASSUME NEW r \in late', r.op = "recover", SeenAs(r.job, r.version, "sending")
                 PROVE  SeenNext(r.job, r.version, LooksFor(r.op))
      BY DEF LeftBehind
    <3>1. r.job \in Job /\ r.version \in Nat /\ LooksFor(r.op) = "sending"
      BY DEF Marking, Command, LooksFor
    <3>2. /\ version[r.job] \in Nat /\ version'[r.job] \in Nat /\ version[r.job] <= version'[r.job]
          /\ version'[r.job] = version[r.job] => delivery'[r.job] = delivery[r.job]
      BY <1>2, <3>1 DEF TableStep
    <3> QED BY <3>1, <3>2 DEF SeenAs, SeenNext
  <2>2. \A q \in Session : pc'[q] = "reconciling" => pc[q] = "reconciling" /\ listed'[q] = listed[q]
    BY <1>3, <1>4, <1>7
  <2> QED BY <1>1, <2>1, <2>2, VersionStays
<1>10. SendInv'
  <2>1. \A q \in Session : pc'[q] \in AtResult => q # p /\ pc[q] = pc'[q] /\ job'[q] = job[q]
    BY <1>3, <1>7
  <2>2. /\ \A q \in Session : pc'[q] \in BeforeSend => StaysOrReads(q, BeforeSend)
        /\ \A q \in Session : pc'[q] \in AtResult => StaysOrReads(q, AtResult)
        /\ \A q \in Session : pc'[q] \in AfterMark => pc[q] \in AfterMark /\ job'[q] = job[q]
    BY <1>7, <2>1 DEF StaysOrReads
  <2>3. ASSUME NEW r \in late', r \notin late, r.op # "mark", NEW q \in Session, pc'[q] \in AtResult,
               job'[q] = r.job, Undivided(r.job)
        PROVE  FALSE
    <3>1. pc[p] \in ConsumerPc /\ Visible(conv[p], r.job) /\ r.job \in Job
      BY <1>7, <2>3 DEF LeftBehind, Marking, Command
    <3>2. q # p /\ pc[q] \in AtResult /\ job[q] = r.job
      BY <2>1, <2>3
    <3> QED BY <1>1, <2>3, <3>1, <3>2, OneAtResult
  <2> QED BY <1>1, <1>3, <1>5, <2>2, <2>3, SendStays
<1>11. ReceiptInv'
  <2>1. \A j \in Job : sent[j] <= sent'[j]
    BY <1>2
  <2>2. \A q \in Session : pc'[q] = "confirming" => pc[q] = "confirming" /\ job'[q] = job[q]
    BY <1>3, <1>7
  <2>3. sent' \in [Job -> Nat] /\ job' \in [Session -> Job]
    BY <1>2, <1>3 DEF RecordsTypeOK
  <2>4. \A r \in late' : r \in late \/ r.op # "mark" \/ r.to # "delivered" \/ sent'[r.job] > 0
    BY DEF LeftBehind
  <2> QED BY <1>1, <2>1, <2>2, <2>3, <2>4, ReceiptStays
<1>12. QuietInv'
  <2>1. \A q \in Session : pc'[q] \in SenderPc \cup {"read"} => q # p /\ pc[q] = pc'[q] /\ conv'[q] = conv[q]
    BY <1>3, <1>7
  <2>2. ASSUME NEW q \in Session, pc'[q] \in SenderPc
        PROVE  /\ actionLease[conv[q]] = q /\ actionLease'[conv[q]] = q /\ conv[q] \in Conversation
               /\ conv[q] \in open' /\ turn'[conv[q]] # "running"
    <3>1. q # p /\ actionLease[conv[q]] = q /\ conv[q] \in open /\ turn[conv[q]] # "running" /\ conv[q] \in Conversation
          /\ actionLease[conv[q]] \notin {NoOne, p}
      BY <1>1, <1>2, <2>1, <2>2, HandoffConstants DEF QuietInv
    <3> QED BY <2>2, <3>1 DEF Considerate
  <2>3. ASSUME NEW q \in Session, pc'[q] = "read", q \in fresh'
        PROVE  pc[q] = "read" /\ q \in fresh /\ (turn'[conv[q]] = "running" => turn[conv[q]] = "running")
    <3>1. q # p /\ conv[q] \in Conversation
      BY <1>2, <2>1, <2>3
    <3> QED BY <2>1, <2>3, <3>1 DEF Considerate
  <2> QED BY <1>1, <2>1, <2>2, <2>3, QuietStays
<1> QED BY <1>5, <1>6, <1>8, <1>9, <1>10, <1>11, <1>12 DEF HandoffInv

TableTypes ==
    /\ delivery' \in [Job -> DeliveryStatus] /\ version' \in [Job -> Nat]
    /\ retried' \in [Job -> Nat] /\ attested' \subseteq Job

\* The rows stay as they are.
LEMMA TableRests ==
    ASSUME HandoffTypes, UNCHANGED <<delivery, version, retried, attested>>
    PROVE  TableStep /\ TableTypes
<1>1. /\ delivery \in [Job -> DeliveryStatus] /\ version \in [Job -> Nat] /\ retried \in [Job -> Nat] /\ attested \subseteq Job
  BY DEF HandoffTypes, HandoffTypeOK
<1>2. \A j \in Job : version[j] \in Nat /\ retried[j] \in Nat
  BY <1>1
<1> QED BY <1>1, <1>2 DEF TableStep, TableTypes

\* A row moves from one status to another and takes a new version.
LEMMA RowMoves ==
    ASSUME HandoffTypes, RowInv, NEW j \in Job, NEW to \in DeliveryStatus \ {"none"},
           delivery' = [delivery EXCEPT ![j] = to], version' = [version EXCEPT ![j] = @ + 1],
           retried' \in [Job -> Nat], \A k \in Job : retried[k] <= retried'[k],
           attested' \subseteq Job, attested \subseteq attested',
           delivery[j] # "none" \/ origin[j] \in Conversation,
           to = "delivered" => sent[j] > 0 \/ j \in attested',
           to = "available" => delivery[j] = "none" \/ retried[j] < retried'[j]
    PROVE  TableStep /\ TableTypes /\ \A k \in Job \ {j} : delivery'[k] = delivery[k] /\ version'[k] = version[k]
<1>1. /\ delivery \in [Job -> DeliveryStatus] /\ version \in [Job -> Nat]
  BY DEF HandoffTypes, HandoffTypeOK
<1>2. TableTypes
  BY <1>1 DEF TableTypes
<1>3. /\ delivery'[j] = to /\ version'[j] = version[j] + 1 /\ version[j] \in Nat
      /\ \A k \in Job \ {j} : delivery'[k] = delivery[k] /\ version'[k] = version[k] /\ version[k] \in Nat
  BY <1>1
<1>4. /\ version[j] <= version'[j] /\ version'[j] # version[j]
      /\ \A k \in Job \ {j} : version[k] <= version'[k]
  BY <1>3
<1>5. TableStep
  BY <1>3, <1>4 DEF TableStep
<1> QED BY <1>2, <1>3, <1>5

\* MarkResultDelivery, ReconcileAbandonedResultSend and ResolveUnconfirmedResult are such steps.
LEMMA MarkStep ==
    ASSUME HandoffTypes, RowInv, NEW j \in Job, NEW to \in {"sending", "delivered", "unconfirmed"}, Mark(j, to),
           to = "delivered" => sent[j] > 0
    PROVE  TableStep /\ TableTypes /\ delivery'[j] = to /\ retried' = retried /\ attested' = attested
<1>1. /\ delivery \in [Job -> DeliveryStatus] /\ version \in [Job -> Nat] /\ retried \in [Job -> Nat] /\ attested \subseteq Job
  BY DEF HandoffTypes, HandoffTypeOK
<1>2. /\ retried' = retried /\ attested' = attested /\ delivery' = [delivery EXCEPT ![j] = to]
  BY DEF Mark
<1>3. delivery'[j] = to
  BY <1>1, <1>2
<1>4. CASE to = delivery[j]
  <2>1. delivery' = delivery
    BY <1>1, <1>2, <1>4
  <2>2. version' = version
    BY <1>1, <1>4 DEF Mark
  <2> QED BY <1>2, <1>3, <2>1, <2>2, TableRests
<1>5. CASE to # delivery[j]
  <2>1. version' = [version EXCEPT ![j] = @ + 1] /\ delivery[j] # "none" /\ to \in DeliveryStatus \ {"none"}
    BY <1>5 DEF Mark, Allowed, DeliveryStatus
  <2>2. \A k \in Job : retried[k] <= retried'[k]
    BY <1>1, <1>2
  <2> QED BY <1>1, <1>2, <1>3, <2>1, <2>2, RowMoves
<1> QED BY <1>4, <1>5

LEMMA ReconcileStep ==
    ASSUME HandoffTypes, RowInv, NEW j \in Job, NEW v, Reconcile(j, v)
    PROVE  TableStep /\ TableTypes /\ retried' = retried /\ attested' = attested
<1>1. /\ retried \in [Job -> Nat] /\ attested \subseteq Job
  BY DEF HandoffTypes, HandoffTypeOK
<1>2. /\ retried' = retried /\ attested' = attested /\ delivery' = [delivery EXCEPT ![j] = "unconfirmed"]
      /\ version' = [version EXCEPT ![j] = @ + 1] /\ delivery[j] = "sending"
  BY DEF Reconcile, Reconciled
<1>3. /\ \A k \in Job : retried[k] <= retried'[k]
      /\ "unconfirmed" \in DeliveryStatus \ {"none"}
  BY <1>1, <1>2 DEF DeliveryStatus
<1> QED BY <1>1, <1>2, <1>3, RowMoves

LEMMA ResolveStep ==
    ASSUME HandoffTypes, RowInv, NEW j \in Job, NEW v, NEW aim \in {"sent", "retry"}, Resolve(j, v, aim)
    PROVE  TableStep /\ TableTypes /\ \A k \in Job \ {j} : retried'[k] = retried[k]
<1>1. /\ retried \in [Job -> Nat] /\ attested \subseteq Job
  BY DEF HandoffTypes, HandoffTypeOK
<1>2. /\ version' = [version EXCEPT ![j] = @ + 1] /\ delivery[j] = "unconfirmed"
      /\ delivery' = [delivery EXCEPT ![j] = IF aim = "sent" THEN "delivered" ELSE "available"]
      /\ retried' = [retried EXCEPT ![j] = IF aim = "retry" THEN @ + 1 ELSE @]
      /\ attested' = IF aim = "sent" THEN attested \cup {j} ELSE attested
  BY DEF Resolve
<1>3. \A k \in Job \ {j} : retried'[k] = retried[k]
  BY <1>1, <1>2
<1>4. CASE aim = "sent"
  <2>1. /\ delivery' = [delivery EXCEPT ![j] = "delivered"] /\ attested' = attested \cup {j} /\ retried' = retried
        /\ "delivered" \in DeliveryStatus \ {"none"}
    BY <1>1, <1>2, <1>4 DEF DeliveryStatus
  <2>2. \A k \in Job : retried[k] <= retried'[k]
    BY <1>1, <2>1
  <2> QED BY <1>1, <1>2, <1>3, <2>1, <2>2, RowMoves
<1>5. CASE aim = "retry"
  <2>1. /\ delivery' = [delivery EXCEPT ![j] = "available"] /\ attested' = attested
        /\ retried' = [retried EXCEPT ![j] = @ + 1] /\ "available" \in DeliveryStatus \ {"none"}
    BY <1>1, <1>2, <1>5 DEF DeliveryStatus
  <2>2. retried' \in [Job -> Nat] /\ retried[j] < retried'[j] /\ \A k \in Job : retried[k] <= retried'[k]
    BY <1>1, <2>1
  <2> QED BY <1>1, <1>2, <1>3, <2>1, <2>2, RowMoves
<1> QED BY <1>4, <1>5

\* Steps outside of a delivery, and the ends of a delivery.
LEMMA ConversationStays ==
    ASSUME HandoffInv, NEW p \in Session, (ConversationStep(p) /\ UNCHANGED handoffVars) \/ Die(p)
    PROVE  HandoffInv'
<1>1. HandoffTypes /\ RecordsTypeOK /\ Labelled /\ late \subseteq Marking \cup Command
  BY DEF HandoffInv, HandoffTypes, HandoffTypeOK, Labelled
<1>2. Considerate(p)
  BY <1>1, SessionIsConsiderate DEF Die
<1>3. /\ delivery' = delivery /\ version' = version /\ late' = late /\ retried' = retried /\ attested' = attested
      /\ owner' = owner /\ sent' = sent /\ noted' = noted
      /\ \/ deliveryLease' = deliveryLease /\ listed' = listed
         \/ deliveryLease' = Released(deliveryLease, p) /\ listed' = [listed EXCEPT ![p] = {}]
  BY DEF Die, handoffVars, resultVars
<1>4. TableStep /\ TableTypes
  BY <1>1, <1>3, TableRests
<1> QED BY <1>1, <1>2, <1>3, <1>4, SessionStays DEF TableTypes

\* The end of ConsumeResults, and the requests it leaves behind.
LEMMA LeavingIsConsiderate ==
    ASSUME HandoffTypes, NEW p \in Session, Leave(p)
    PROVE  Considerate(p)
<1>1. /\ pc' = [pc EXCEPT ![p] = "idle"] /\ actionLease' = Released(actionLease, p)
      /\ active' = active /\ open' = open /\ archived' = archived /\ turn' = turn /\ asked' = asked /\ linked' = linked
      /\ origin' = origin /\ storeLock' = storeLock /\ conv' = conv /\ fresh' = fresh /\ job' = job /\ target' = target
  BY DEF Leave, recordVars
<1>2. /\ RecordsTypeOK /\ Labelled /\ "idle" \in SessionPc
  BY HandoffConstants DEF HandoffTypes, HandoffTypeOK, Labelled
<1>3. /\ turn' \in [Conversation -> {"idle", "running", "uncertain"}]
      /\ asked' \in [Conversation -> Session \cup {NoOne}] /\ linked' \in [Conversation -> SUBSET Job]
      /\ origin' \in [Job -> Conversation \cup {NoOne}] /\ job' \in [Session -> Job]
  BY <1>1, <1>2 DEF RecordsTypeOK
<1> QED BY <1>1, <1>2, <1>3, PlainStep

LEMMA EndsStay ==
    ASSUME HandoffInv, NEW p \in Session, MarkUnsure(p) \/ EndDelivery(p) \/ GiveUp(p)
    PROVE  HandoffInv'
<1>1. /\ HandoffTypes /\ RowInv /\ DeliveryInv /\ VersionInv /\ ReceiptInv /\ late \subseteq Marking \cup Command
      /\ job \in [Session -> Job] /\ listed \in [Session -> SUBSET (Job \X Nat)]
  BY DEF HandoffInv, HandoffTypes, HandoffTypeOK, RecordsTypeOK
<1>2. /\ Leave(p) /\ owner' = owner /\ sent' = sent /\ noted' = noted
      /\ deliveryLease' = Released(deliveryLease, p) /\ listed' = [listed EXCEPT ![p] = {}]
  BY DEF MarkUnsure, EndDelivery, GiveUp, Leave
<1>3. Considerate(p)
  BY <1>1, <1>2, LeavingIsConsiderate
<1>4. TableStep /\ TableTypes /\ retried' = retried /\ attested' = attested
  <2>1. CASE MarkUnsure(p)
    BY <1>1, <2>1, MarkStep DEF MarkUnsure
  <2>2. CASE EndDelivery(p) \/ GiveUp(p)
    BY <1>1, <2>2, TableRests DEF EndDelivery, GiveUp, resultVars
  <2> QED BY <2>1, <2>2
<1>5. late' \subseteq Marking \cup Command /\ \A r \in late' : r \in late \/ LeftBehind(p, r)
  <2>1. CASE MarkUnsure(p) \/ EndDelivery(p)
    BY <1>1, <2>1 DEF MarkUnsure, EndDelivery, resultVars
  <2>2. CASE pc[p] = "marking" /\ late' = late \cup {MarkRequest(job[p], "sending")}
    BY <1>1, <2>2 DEF MarkRequest, Marking, LeftBehind
  <2>3. CASE pc[p] = "confirming" /\ late' = late \cup {MarkRequest(job[p], "delivered")}
    <3>1. sent[job[p]] > 0
      BY <1>1, <2>3 DEF ReceiptInv
    <3> QED BY <1>1, <2>3, <3>1 DEF MarkRequest, Marking, LeftBehind
  <2>4. CASE pc[p] = "unsure" /\ late' = late \cup {MarkRequest(job[p], "unconfirmed")}
    BY <1>1, <2>4 DEF MarkRequest, Marking, LeftBehind
  <2>5. CASE pc[p] = "reconciling" /\ \E x \in listed[p] : late' = late \cup {CommandRequest("recover", x[1], x[2])}
    <3>1. PICK x \in listed[p] : late' = late \cup {CommandRequest("recover", x[1], x[2])}
      BY <2>5
    <3>2. x[1] \in Job /\ x[2] \in Nat
      BY <1>1
    <3>3. Visible(conv[p], x[1]) /\ SeenAs(x[1], x[2], "sending")
      BY <1>1, <2>5 DEF DeliveryInv, VersionInv, ConsumerPc
    <3>4. CommandRequest("recover", x[1], x[2]) \in Command /\ LeftBehind(p, CommandRequest("recover", x[1], x[2]))
      BY <2>5, <3>2, <3>3 DEF CommandRequest, Command, Aim, LeftBehind
    <3> QED BY <1>1, <3>1, <3>4
  <2> QED BY <2>1, <2>2, <2>3, <2>4, <2>5 DEF GiveUp
<1> QED BY <1>2, <1>3, <1>4, <1>5, SessionStays DEF TableTypes

\* The owner's command keeps the sessions away from the result it decides on.
LEMMA OwnerAlone ==
    ASSUME HandoffTypes, DeliveryInv, owner # NoCommand, Undivided(owner.job),
           NEW q \in Session, pc[q] \in AtResult, job[q] = owner.job
    PROVE  FALSE
<1>1. /\ conv[q] \in Conversation /\ pc[q] \in ConsumerPc /\ Owner \notin Session
  BY HandoffConstants DEF HandoffTypes, HandoffTypeOK, RecordsTypeOK
<1>2. conv[q] = origin[owner.job]
  BY <1>1 DEF DeliveryInv, Undivided
<1> QED BY <1>1, <1>2 DEF DeliveryInv

\* A step that the controller takes for somebody who is not a session in a delivery.
LEMMA ControllerStays ==
    ASSUME HandoffInv, UNCHANGED convVars, noted' = noted, listed' = listed, sent' = sent, TableStep, TableTypes,
           \A r \in late' : r \in late \/ (r = owner /\ owner # NoCommand),
           \A q \in Session : pc[q] \in AfterMark /\ Undivided(job[q]) => retried'[job[q]] = retried[job[q]],
           owner' \in Command \cup {NoCommand}, deliveryLease' \in [Conversation -> Session \cup {NoOne, Owner}],
           \A c \in Conversation, q \in Session : deliveryLease[c] = q => deliveryLease'[c] = q,
           \A c \in Conversation : deliveryLease[c] = Owner /\ owner' # NoCommand => deliveryLease'[c] = Owner,
           owner' # NoCommand =>
              \/ owner' = owner
              \/ /\ origin[owner'.job] \in Conversation /\ deliveryLease'[origin[owner'.job]] = Owner
                 /\ SeenNext(owner'.job, owner'.version, LooksFor(owner'.op))
    PROVE  HandoffInv'
<1>1. /\ HandoffTypes /\ RecordsTypeOK /\ RowInv /\ DeliveryInv /\ VersionInv /\ SendInv /\ ReceiptInv /\ QuietInv
  BY DEF HandoffInv, HandoffTypes, HandoffTypeOK
<1>2. /\ conv \in [Session -> Conversation] /\ job \in [Session -> Job]
      /\ listed \in [Session -> SUBSET (Job \X Nat)] /\ owner \in Command \cup {NoCommand} /\ sent \in [Job -> Nat]
      /\ late \subseteq Marking \cup Command /\ noted \in [Conversation -> SUBSET Job]
      /\ pc \in [Session -> SessionPc \cup ConsumerPc]
  BY <1>1 DEF HandoffTypes, HandoffTypeOK, RecordsTypeOK
<1>3. /\ pc' = pc /\ conv' = conv /\ job' = job /\ fresh' = fresh /\ linked' = linked /\ origin' = origin
      /\ actionLease' = actionLease /\ open' = open /\ turn' = turn
  BY DEF convVars, recordVars, lockVars, sessionVars
<1>4. RecordsTypeOK'
  BY <1>1 DEF convVars, recordVars, lockVars, sessionVars, RecordsTypeOK
<1>5. late' \subseteq Marking \cup Command
  BY <1>2
<1>6. HandoffTypes'
  <2>1. /\ pc' \in [Session -> SessionPc \cup ConsumerPc] /\ noted' \in [Conversation -> SUBSET Job]
        /\ listed' \in [Session -> SUBSET (Job \X Nat)] /\ sent' \in [Job -> Nat]
    BY <1>2, <1>3
  <2> QED BY <1>4, <1>5, <2>1 DEF HandoffTypes, HandoffTypeOK, TableTypes
<1>7. NothingIsHidden
  BY <1>3 DEF NothingIsHidden
<1>8. RowInv'
  BY <1>1, <1>7, RowStays
<1>9. DeliveryInv'
  <2>1. conv' \in [Session -> Conversation] /\ \A q \in Session : Keeps(q)
    BY <1>2, <1>3 DEF Keeps
  <2>2. owner' # NoCommand =>
           \/ owner' = owner
           \/ origin'[owner'.job] \in Conversation /\ deliveryLease'[origin'[owner'.job]] = Owner
    BY <1>3
  <2> QED BY <1>1, <1>2, <1>3, <1>7, <2>1, <2>2, DeliveryStays
<1>10. VersionInv'
  <2>1. version' \in [Job -> Nat]
    BY DEF TableTypes
  <2>2. ASSUME owner # NoCommand PROVE SeenNext(owner.job, owner.version, LooksFor(owner.op))
    <3>1. owner.job \in Job /\ owner.version \in Nat /\ SeenAs(owner.job, owner.version, LooksFor(owner.op))
      BY <1>1, <1>2, <2>2 DEF Command, VersionInv
    <3>2. /\ version[owner.job] \in Nat /\ version'[owner.job] \in Nat /\ version[owner.job] <= version'[owner.job]
          /\ version'[owner.job] = version[owner.job] => delivery'[owner.job] = delivery[owner.job]
      BY <1>1, <2>1, <3>1 DEF TableStep, HandoffTypes, HandoffTypeOK
    <3> QED BY <3>1, <3>2 DEF SeenAs, SeenNext
  <2>3. \A r \in late' : r.op # "mark" => r \in late \/ SeenNext(r.job, r.version, LooksFor(r.op))
    BY <2>2
  <2>4. \A q \in Session : pc'[q] = "reconciling" => pc[q] = "reconciling" /\ listed'[q] = listed[q]
    BY <1>3
  <2>5. owner' # NoCommand => owner' = owner \/ SeenNext(owner'.job, owner'.version, LooksFor(owner'.op))
    OBVIOUS
  <2> QED BY <1>1, <2>1, <2>3, <2>4, <2>5, VersionStays
<1>11. SendInv'
  <2>1. /\ \A q \in Session : pc'[q] \in BeforeSend => StaysOrReads(q, BeforeSend)
        /\ \A q \in Session : pc'[q] \in AtResult => StaysOrReads(q, AtResult)
        /\ \A q \in Session : pc'[q] \in AfterMark => pc[q] \in AfterMark /\ job'[q] = job[q]
    BY <1>3 DEF StaysOrReads
  <2>2. ASSUME NEW r \in late', r \notin late, NEW q \in Session, pc'[q] \in AtResult, job'[q] = r.job, Undivided(r.job)
        PROVE  FALSE
    BY <1>1, <1>3, <2>2, OwnerAlone
  <2> QED BY <1>1, <1>6, <1>7, <2>1, <2>2, SendStays
<1>12. ReceiptInv'
  <2>1. \A j \in Job : sent[j] <= sent'[j]
    BY <1>2
  <2>2. \A q \in Session : pc'[q] = "confirming" => pc[q] = "confirming" /\ job'[q] = job[q]
    BY <1>3
  <2>3. sent' \in [Job -> Nat] /\ job' \in [Session -> Job]
    BY <1>2, <1>3
  <2>4. \A r \in late' : r \in late \/ r.op # "mark"
    BY <1>2 DEF Command, Aim
  <2> QED BY <1>1, <2>1, <2>2, <2>3, <2>4, ReceiptStays
<1>13. QuietInv'
  BY <1>1, <1>3 DEF QuietInv
<1> QED BY <1>6, <1>8, <1>9, <1>10, <1>11, <1>12, <1>13 DEF HandoffInv

\* The controller publishes a result, and serves the requests that are late.
LEMMA PublishStays ==
    ASSUME HandoffInv, NEW j \in Job, Publish(j)
    PROVE  HandoffInv'
<1>1. /\ HandoffTypes /\ RowInv /\ version \in [Job -> Nat] /\ retried \in [Job -> Nat] /\ attested \subseteq Job
      /\ origin \in [Job -> Conversation \cup {NoOne}] /\ owner \in Command \cup {NoCommand}
      /\ deliveryLease \in [Conversation -> Session \cup {NoOne, Owner}]
  BY DEF HandoffInv, HandoffTypes, HandoffTypeOK, RecordsTypeOK
<1>2. /\ UNCHANGED convVars /\ noted' = noted /\ listed' = listed /\ sent' = sent /\ late' = late /\ owner' = owner
      /\ deliveryLease' = deliveryLease /\ retried' = retried /\ attested' = attested
      /\ delivery[j] = "none" /\ origin[j] # NoOne
      /\ delivery' = [delivery EXCEPT ![j] = "available"] /\ version' = [version EXCEPT ![j] = 1]
  BY DEF Publish
<1>3. TableStep /\ TableTypes
  <2>1. version[j] = 0
    BY <1>1, <1>2 DEF RowInv
  <2>2. version' = [version EXCEPT ![j] = @ + 1] /\ \A k \in Job : retried[k] <= retried'[k]
    BY <1>1, <1>2, <2>1
  <2>3. "available" \in DeliveryStatus \ {"none"} /\ origin[j] \in Conversation
    BY <1>1, <1>2 DEF DeliveryStatus
  <2> QED BY <1>1, <1>2, <2>2, <2>3, RowMoves
<1> QED BY <1>1, <1>2, <1>3, ControllerStays

LEMMA ApplyStep ==
    ASSUME HandoffInv, NEW r \in Marking \cup Command, Apply(r),
           r.op = "mark" /\ r.to = "delivered" => sent[r.job] > 0
    PROVE  /\ TableStep /\ TableTypes
           /\ \A k \in Job : retried'[k] = retried[k] \/ (k = r.job /\ r.op # "mark" /\ r.version = version[r.job])
<1>1. HandoffTypes /\ RowInv /\ r.job \in Job
  BY DEF HandoffInv, Marking, Command
<1>2. CASE r.op = "mark"
  <2>1. r.to \in {"sending", "delivered", "unconfirmed"} /\ Mark(r.job, r.to)
    BY <1>2 DEF Apply, Marking, Command, Aim
  <2> QED BY <1>1, <1>2, <2>1, MarkStep
<1>3. CASE r.op = "recover"
  <2>1. Reconcile(r.job, r.version)
    BY <1>3 DEF Apply
  <2> QED BY <1>1, <2>1, ReconcileStep
<1>4. CASE r.op \in {"sent", "retry"}
  <2>1. Resolve(r.job, r.version, r.op)
    BY <1>4 DEF Apply
  <2>2. r.version = version[r.job]
    BY <2>1 DEF Resolve
  <2> QED BY <1>1, <1>4, <2>1, <2>2, ResolveStep
<1> QED BY <1>2, <1>3, <1>4 DEF Marking, Command, Aim

LEMMA ServeLateStays ==
    ASSUME HandoffInv, NEW r \in late, ServeLate(r)
    PROVE  HandoffInv'
<1>1. /\ HandoffTypes /\ SendInv /\ ReceiptInv /\ version \in [Job -> Nat]
      /\ late \subseteq Marking \cup Command /\ owner \in Command \cup {NoCommand} /\ job \in [Session -> Job]
      /\ deliveryLease \in [Conversation -> Session \cup {NoOne, Owner}]
  BY DEF HandoffInv, HandoffTypes, HandoffTypeOK, RecordsTypeOK
<1>2. /\ UNCHANGED convVars /\ noted' = noted /\ listed' = listed /\ sent' = sent /\ late' = late \ {r} /\ owner' = owner
      /\ deliveryLease' = deliveryLease /\ Apply(r)
  BY DEF ServeLate
<1>3. /\ TableStep /\ TableTypes
      /\ \A k \in Job : retried'[k] = retried[k] \/ (k = r.job /\ r.op # "mark" /\ r.version = version[r.job])
  BY <1>1, <1>2, ApplyStep DEF ReceiptInv
<1>4. ASSUME NEW q \in Session, pc[q] \in AfterMark, Undivided(job[q]) PROVE retried'[job[q]] = retried[job[q]]
  <2>1. job[q] \in Job /\ pc[q] \in AtResult /\ version[job[q]] \in Nat
    BY <1>1, <1>4 DEF AtResult
  <2>2. r.op # "mark" /\ r.job = job[q] => r.version < version[job[q]]
    BY <1>1, <1>4, <2>1 DEF SendInv
  <2> QED BY <1>3, <2>1, <2>2
<1> QED BY <1>1, <1>2, <1>3, <1>4, ControllerStays

\* "flow result recover" and "flow result resolve".
LEMMA OwnerStays ==
    ASSUME HandoffInv, OwnerStep
    PROVE  HandoffInv'
<1>1. /\ HandoffTypes /\ RowInv /\ DeliveryInv /\ version \in [Job -> Nat] /\ job \in [Session -> Job]
      /\ late \subseteq Marking \cup Command /\ owner \in Command \cup {NoCommand}
      /\ deliveryLease \in [Conversation -> Session \cup {NoOne, Owner}] /\ origin \in [Job -> Conversation \cup {NoOne}]
      /\ Owner \notin Session /\ Owner # NoOne /\ NoOne \notin Session
  BY HandoffConstants DEF HandoffInv, HandoffTypes, HandoffTypeOK, RecordsTypeOK
<1>2. UNCHANGED convVars /\ noted' = noted /\ listed' = listed /\ sent' = sent
  BY DEF OwnerStep, OwnerLooks, OwnerApplies, OwnerGivesUp, OwnerDone
<1>3. ASSUME NEW j \in Job, NEW aim \in Aim, OwnerLooks(j, aim) PROVE HandoffInv'
  <2>1. /\ owner = NoCommand /\ delivery[j] = LooksFor(aim) /\ deliveryLease[origin[j]] = NoOne
        /\ deliveryLease' = [deliveryLease EXCEPT ![origin[j]] = Owner]
        /\ owner' = [op |-> aim, job |-> j, version |-> version[j]]
        /\ delivery' = delivery /\ version' = version /\ late' = late /\ retried' = retried /\ attested' = attested
    BY <1>3 DEF OwnerLooks, FreeLease, CommandRequest, resultVars, LooksFor
  <2>2. TableStep /\ TableTypes
    BY <1>1, <2>1, TableRests
  <2>3. owner' \in Command /\ owner'.job = j /\ owner'.version = version[j] /\ owner'.op = aim
    BY <1>1, <2>1 DEF Command
  <2>4. origin[j] \in Conversation
    BY <1>1, <2>1 DEF RowInv, LooksFor
  <2>5. SeenNext(j, version[j], LooksFor(aim))
    BY <1>1, <2>1 DEF SeenNext
  <2>6. /\ deliveryLease' \in [Conversation -> Session \cup {NoOne, Owner}] /\ deliveryLease'[origin[j]] = Owner
        /\ \A c \in Conversation, q \in Session : deliveryLease[c] = q => deliveryLease'[c] = q
        /\ \A c \in Conversation : deliveryLease[c] = Owner => deliveryLease'[c] = Owner
    BY <1>1, <2>1, <2>4
  <2>7. \A r \in late' : r \in late
    BY <2>1
  <2>8. \A q \in Session : retried'[job[q]] = retried[job[q]]
    BY <2>1
  <2> QED BY <1>2, <2>2, <2>3, <2>4, <2>5, <2>6, <2>7, <2>8, ControllerStays
<1>4. ASSUME OwnerDone, owner # NoCommand
      PROVE  /\ owner' = NoCommand /\ deliveryLease' \in [Conversation -> Session \cup {NoOne, Owner}]
             /\ \A c \in Conversation, q \in Session : deliveryLease[c] = q => deliveryLease'[c] = q
  BY <1>1, <1>4 DEF OwnerDone, Released
<1>5. CASE OwnerApplies
  <2>1. owner # NoCommand /\ owner \in Command /\ Apply(owner) /\ OwnerDone /\ late' = late
    BY <1>1, <1>5 DEF OwnerApplies
  <2>2. /\ TableStep /\ TableTypes /\ \A k \in Job : retried'[k] = retried[k] \/ k = owner.job
    <3>1. owner.op # "mark"
      BY <2>1 DEF Command, Aim
    <3> QED BY <2>1, <3>1, ApplyStep
  <2>3. ASSUME NEW q \in Session, pc[q] \in AfterMark, Undivided(job[q]) PROVE retried'[job[q]] = retried[job[q]]
    <3>1. pc[q] \in AtResult /\ job[q] \in Job
      BY <1>1, <2>3 DEF AtResult
    <3>2. job[q] # owner.job
      BY <1>1, <2>1, <2>3, <3>1, OwnerAlone
    <3> QED BY <2>2, <3>1, <3>2
  <2> QED BY <1>2, <1>4, <2>1, <2>2, <2>3, ControllerStays
<1>6. CASE OwnerGivesUp
  <2>1. /\ owner # NoCommand /\ OwnerDone /\ delivery' = delivery /\ version' = version /\ retried' = retried
        /\ attested' = attested /\ late' \subseteq late \cup {owner}
    BY <1>6 DEF OwnerGivesUp
  <2>2. TableStep /\ TableTypes
    BY <1>1, <2>1, TableRests
  <2>3. \A q \in Session : retried'[job[q]] = retried[job[q]]
    BY <2>1
  <2>4. \A r \in late' : r \in late \/ (r = owner /\ owner # NoCommand)
    BY <2>1
  <2> QED BY <1>2, <1>4, <2>1, <2>2, <2>3, <2>4, ControllerStays
<1> QED BY <1>3, <1>5, <1>6 DEF OwnerStep

\* A step of p inside of its delivery.
Inside(p, to) ==
    /\ pc' = [pc EXCEPT ![p] = to]
    /\ active' = active /\ open' = open /\ archived' = archived /\ turn' = turn /\ asked' = asked /\ linked' = linked
    /\ origin' = origin /\ storeLock' = storeLock /\ conv' = conv /\ target' = target /\ late' = late /\ owner' = owner
    /\ retried' = retried
    /\ \A q \in Session \ {p} : job'[q] = job[q] /\ listed'[q] = listed[q]
    /\ fresh' \subseteq fresh \cup {p}
    /\ \A c \in Conversation, q \in Session \ {p} : actionLease[c] = q => actionLease'[c] = q
    /\ \A c \in Conversation, h \in Session \cup {Owner} : deliveryLease[c] = h => deliveryLease'[c] = h

\* The types of what such a step may change.
InsideTypes ==
    /\ job' \in [Session -> Job] /\ listed' \in [Session -> SUBSET (Job \X Nat)]
    /\ actionLease' \in [Conversation -> Session \cup {NoOne}]
    /\ deliveryLease' \in [Conversation -> Session \cup {NoOne, Owner}]
    /\ noted' \in [Conversation -> SUBSET Job] /\ sent' \in [Job -> Nat]

\* It neither shows the result nor gets at one that cannot be delivered.
ShowsNothing(p, to) ==
    /\ sent' = sent
    /\ to \in BeforeSend => StaysOrReads(p, BeforeSend)
    /\ to \in AtResult => StaysOrReads(p, AtResult)
    /\ to \in AfterMark =>
          (pc[p] \in AfterMark /\ job'[p] = job[p]) \/ delivery'[job'[p]] \notin {"none", "available"}

\* Such a step keeps the invariant if what it adds to each part is in order.
LEMMA InsideStays ==
    ASSUME HandoffInv, NEW p \in Session, NEW to \in ConsumerPc, Inside(p, to), InsideTypes, TableStep, TableTypes,
           \A j \in Job : sent[j] <= sent'[j],
           deliveryLease'[conv[p]] = p,
           \A x \in listed'[p] : Visible(conv[p], x[1]) /\ (to = "reconciling" => SeenNext(x[1], x[2], "sending")),
           to \in AtResult => Visible(conv[p], job'[p]),
           to = "confirming" => sent'[job'[p]] > 0,
           to \in SenderPc => actionLease'[conv[p]] = p /\ conv[p] \in open /\ turn[conv[p]] # "running",
           to = "read" /\ p \in fresh' => turn[conv[p]] # "running",
           ShowsNothing(p, to) \/ SendInv'
    PROVE  HandoffInv'
<1>1. /\ HandoffTypes /\ RecordsTypeOK /\ RowInv /\ DeliveryInv /\ VersionInv /\ SendInv /\ ReceiptInv /\ QuietInv
  BY DEF HandoffInv, HandoffTypes, HandoffTypeOK
<1>2. /\ conv \in [Session -> Conversation] /\ job \in [Session -> Job] /\ fresh \subseteq Session
      /\ listed \in [Session -> SUBSET (Job \X Nat)] /\ owner \in Command \cup {NoCommand}
      /\ late \subseteq Marking \cup Command /\ pc \in [Session -> SessionPc \cup ConsumerPc]
  BY <1>1 DEF HandoffTypes, HandoffTypeOK, RecordsTypeOK
<1>3. /\ pc' \in [Session -> SessionPc \cup ConsumerPc] /\ pc'[p] = to
      /\ \A q \in Session \ {p} : pc'[q] = pc[q] /\ job'[q] = job[q] /\ listed'[q] = listed[q]
  BY <1>2 DEF Inside
<1>4. /\ linked' = linked /\ origin' = origin /\ conv' = conv /\ owner' = owner /\ late' = late /\ retried' = retried
      /\ open' = open /\ turn' = turn
  BY DEF Inside
<1>5. NothingIsHidden /\ \A c, j : Visible(c, j) => VisibleNext(c, j)
  BY <1>4 DEF NothingIsHidden, Visible, VisibleNext
<1>6. RecordsTypeOK'
  <2>1. fresh' \subseteq Session
    BY <1>2 DEF Inside
  <2> QED BY <1>1, <2>1 DEF Inside, InsideTypes, RecordsTypeOK
<1>7. HandoffTypes'
  BY <1>2, <1>3, <1>4, <1>6 DEF InsideTypes, TableTypes, HandoffTypes, HandoffTypeOK
<1>8. RowInv'
  BY <1>1, <1>5, RowStays
<1>9. DeliveryInv'
  <2>1. conv' \in [Session -> Conversation] /\ \A q \in Session : Keeps(q)
    BY <1>2, <1>4 DEF Keeps
  <2>2. /\ \A c \in Conversation, q \in Session : deliveryLease[c] = q => deliveryLease'[c] = q
        /\ \A c \in Conversation : deliveryLease[c] = Owner => deliveryLease'[c] = Owner
    BY DEF Inside
  <2>3. \A q \in Session : pc'[q] \in ConsumerPc => pc[q] \in ConsumerPc \/ deliveryLease'[conv'[q]] = q
    BY <1>3, <1>4
  <2>4. ASSUME NEW q \in Session, pc'[q] \in ConsumerPc, NEW x \in listed'[q]
        PROVE  (pc[q] \in ConsumerPc /\ x \in listed[q]) \/ VisibleNext(conv'[q], x[1])
    BY <1>3, <1>4, <1>5, <2>4
  <2>5. ASSUME NEW q \in Session, pc'[q] \in AtResult
        PROVE  (pc[q] \in AtResult /\ job'[q] = job[q]) \/ VisibleNext(conv'[q], job'[q])
    BY <1>3, <1>4, <1>5, <2>5
  <2> QED BY <1>1, <1>2, <1>4, <1>5, <2>1, <2>2, <2>3, <2>4, <2>5, DeliveryStays
<1>10. VersionInv'
  <2>1. \A q \in Session : pc'[q] = "reconciling" => \A x \in listed'[q] :
            (pc[q] = "reconciling" /\ x \in listed[q]) \/ SeenNext(x[1], x[2], "sending")
    BY <1>3
  <2>2. version' \in [Job -> Nat]
    BY DEF TableTypes
  <2> QED BY <1>1, <1>4, <2>1, <2>2, VersionStays
<1>11. SendInv'
  <2> SUFFICES ASSUME ShowsNothing(p, to) PROVE SendInv'
    OBVIOUS
  <2>1. /\ \A q \in Session : pc'[q] \in BeforeSend => StaysOrReads(q, BeforeSend)
        /\ \A q \in Session : pc'[q] \in AtResult => StaysOrReads(q, AtResult)
        /\ \A q \in Session : pc'[q] \in AfterMark =>
              (pc[q] \in AfterMark /\ job'[q] = job[q]) \/ delivery'[job'[q]] \notin {"none", "available"}
    BY <1>3 DEF ShowsNothing, StaysOrReads
  <2>2. sent' = sent
    BY DEF ShowsNothing
  <2> QED BY <1>1, <1>4, <1>5, <1>7, <2>1, <2>2, SendStays
<1>12. ReceiptInv'
  <2>1. \A q \in Session : pc'[q] = "confirming" => (pc[q] = "confirming" /\ job'[q] = job[q]) \/ sent'[job'[q]] > 0
    BY <1>3
  <2>2. sent' \in [Job -> Nat] /\ job' \in [Session -> Job]
    BY DEF InsideTypes
  <2> QED BY <1>1, <1>4, <2>1, <2>2, ReceiptStays
<1>13. QuietInv'
  <2>1. ASSUME NEW q \in Session, pc'[q] \in SenderPc
        PROVE  actionLease'[conv[q]] = q /\ conv[q] \in open /\ turn[conv[q]] # "running"
    <3>1. CASE q = p
      BY <1>3, <2>1, <3>1
    <3>2. CASE q # p
      <4>1. pc[q] \in SenderPc /\ conv[q] \in Conversation
        BY <1>2, <1>3, <2>1, <3>2
      <4> QED BY <1>1, <3>2, <4>1 DEF QuietInv, Inside
    <3> QED BY <3>1, <3>2
  <2>2. ASSUME NEW q \in Session, pc'[q] = "read", q \in fresh' PROVE turn[conv[q]] # "running"
    <3>1. CASE q = p
      BY <1>3, <2>2, <3>1
    <3>2. CASE q # p
      <4>1. pc[q] = "read" /\ q \in fresh
        BY <1>3, <2>2, <3>2 DEF Inside
      <4> QED BY <1>1, <4>1 DEF QuietInv
    <3> QED BY <3>1, <3>2
  <2> QED BY <1>4, <2>1, <2>2 DEF QuietInv
<1> QED BY <1>7, <1>8, <1>9, <1>10, <1>11, <1>12, <1>13 DEF HandoffInv

\* What holds at the start of every step of a delivery.
LEMMA InsideFacts ==
    ASSUME HandoffInv, NEW p \in Session
    PROVE  /\ HandoffTypes /\ RowInv /\ DeliveryInv /\ VersionInv /\ SendInv /\ ReceiptInv /\ QuietInv
           /\ pc \in [Session -> SessionPc \cup ConsumerPc] /\ conv \in [Session -> Conversation]
           /\ job \in [Session -> Job] /\ listed \in [Session -> SUBSET (Job \X Nat)] /\ fresh \subseteq Session
           /\ actionLease \in [Conversation -> Session \cup {NoOne}]
           /\ deliveryLease \in [Conversation -> Session \cup {NoOne, Owner}]
           /\ noted \in [Conversation -> SUBSET Job] /\ sent \in [Job -> Nat] /\ version \in [Job -> Nat]
           /\ conv[p] \in Conversation /\ job[p] \in Job
           /\ pc[p] \in ConsumerPc => deliveryLease[conv[p]] = p /\ \A x \in listed[p] : Visible(conv[p], x[1])
           /\ pc[p] \in AtResult => Visible(conv[p], job[p])
BY DEF HandoffInv, HandoffTypes, HandoffTypeOK, RecordsTypeOK, DeliveryInv

\* The session takes the delivery lease, or lists what is to be delivered.
LEMMA ListsStay ==
    ASSUME HandoffInv, NEW p \in Session, BeginDelivery(p) \/ ListPending(p)
    PROVE  HandoffInv'
<1>1. /\ HandoffTypes /\ pc \in [Session -> SessionPc \cup ConsumerPc] /\ conv \in [Session -> Conversation]
      /\ job \in [Session -> Job] /\ listed \in [Session -> SUBSET (Job \X Nat)]
      /\ actionLease \in [Conversation -> Session \cup {NoOne}]
      /\ deliveryLease \in [Conversation -> Session \cup {NoOne, Owner}]
      /\ noted \in [Conversation -> SUBSET Job] /\ sent \in [Job -> Nat] /\ version \in [Job -> Nat]
      /\ pc[p] \in ConsumerPc => deliveryLease[conv[p]] = p
      /\ Owner # NoOne /\ NoOne \notin Session
  BY InsideFacts, HandoffConstants
<1>2. PICK to \in {"reconciling", "pending"}, d \in {"sending", "available"} :
          /\ pc' = [pc EXCEPT ![p] = to] /\ listed' = [listed EXCEPT ![p] = Listed(conv[p], d)]
          /\ to = "reconciling" => d = "sending"
  BY DEF BeginDelivery, ListPending, List, Goto
<1>3. /\ active' = active /\ open' = open /\ archived' = archived /\ turn' = turn /\ asked' = asked /\ linked' = linked
      /\ origin' = origin /\ storeLock' = storeLock /\ conv' = conv /\ target' = target /\ late' = late /\ owner' = owner
      /\ retried' = retried /\ job' = job /\ fresh' = fresh /\ actionLease' = actionLease /\ noted' = noted
      /\ sent' = sent /\ delivery' = delivery /\ version' = version /\ attested' = attested
  BY DEF BeginDelivery, ListPending, List, OnlyLabels, recordVars, lockVars, resultVars
<1>4. /\ deliveryLease' \in [Conversation -> Session \cup {NoOne, Owner}] /\ deliveryLease'[conv[p]] = p
      /\ \A c \in Conversation, h \in Session \cup {Owner} : deliveryLease[c] = h => deliveryLease'[c] = h
  <2>1. CASE BeginDelivery(p)
    <3>1. deliveryLease[conv[p]] = NoOne /\ deliveryLease' = [deliveryLease EXCEPT ![conv[p]] = p]
      BY <2>1 DEF BeginDelivery, FreeLease
    <3> QED BY <1>1, <3>1
  <2>2. CASE ListPending(p)
    <3>1. deliveryLease' = deliveryLease /\ pc[p] = "reconciling"
      BY <2>2 DEF ListPending, List, Goto
    <3> QED BY <1>1, <3>1 DEF ConsumerPc
  <2> QED BY <2>1, <2>2
<1>5. TableStep /\ TableTypes
  BY <1>1, <1>3, TableRests
<1>6. /\ Listed(conv[p], d) \in SUBSET (Job \X Nat)
      /\ \A x \in Listed(conv[p], d) : Visible(conv[p], x[1]) /\ delivery[x[1]] = d /\ x[2] = version[x[1]] /\ x[1] \in Job
  BY <1>1 DEF Listed
<1>7. /\ listed' \in [Session -> SUBSET (Job \X Nat)] /\ listed'[p] = Listed(conv[p], d)
      /\ \A q \in Session \ {p} : listed'[q] = listed[q]
  BY <1>1, <1>2, <1>6
<1>8. \A x \in listed'[p] : Visible(conv[p], x[1]) /\ (to = "reconciling" => SeenNext(x[1], x[2], "sending"))
  BY <1>1, <1>2, <1>3, <1>6, <1>7 DEF SeenNext
<1>9. Inside(p, to) /\ InsideTypes /\ to \in ConsumerPc
  BY <1>1, <1>2, <1>3, <1>4, <1>7 DEF Inside, InsideTypes, ConsumerPc
<1>10. to \notin AtResult \cup SenderPc \cup {"confirming", "read"} /\ to \notin BeforeSend \cup AfterMark
  BY DEF AtResult, BeforeSend, AfterMark, SenderPc
<1>11. ShowsNothing(p, to) /\ \A j \in Job : sent[j] <= sent'[j]
  BY <1>1, <1>3, <1>10 DEF ShowsNothing
<1> QED BY <1>4, <1>5, <1>8, <1>9, <1>10, <1>11, InsideStays

\* The session reconciles what others have left, or reads a result.
LEMMA ListedStay ==
    ASSUME HandoffInv, NEW p \in Session, NEW x \in listed[p], ReconcileListed(p, x) \/ ReadResult(p, x)
    PROVE  HandoffInv'
<1>1. /\ HandoffTypes /\ RowInv /\ VersionInv /\ pc \in [Session -> SessionPc \cup ConsumerPc]
      /\ job \in [Session -> Job] /\ listed \in [Session -> SUBSET (Job \X Nat)] /\ conv \in [Session -> Conversation]
      /\ actionLease \in [Conversation -> Session \cup {NoOne}]
      /\ deliveryLease \in [Conversation -> Session \cup {NoOne, Owner}]
      /\ noted \in [Conversation -> SUBSET Job] /\ sent \in [Job -> Nat] /\ version \in [Job -> Nat]
  BY InsideFacts
<1>2. x[1] \in Job /\ x[2] \in Nat
  BY <1>1
<1>3. /\ pc[p] \in {"reconciling", "pending"} /\ deliveryLease[conv[p]] = p /\ \A y \in listed[p] : Visible(conv[p], y[1])
  BY InsideFacts DEF ReconcileListed, ReadResult, Goto, ConsumerPc
<1>4. /\ active' = active /\ open' = open /\ archived' = archived /\ turn' = turn /\ asked' = asked /\ linked' = linked
      /\ origin' = origin /\ storeLock' = storeLock /\ conv' = conv /\ target' = target /\ late' = late /\ owner' = owner
      /\ fresh' = fresh /\ actionLease' = actionLease /\ deliveryLease' = deliveryLease /\ noted' = noted
      /\ sent' = sent /\ listed' = [listed EXCEPT ![p] = @ \ {x}]
  BY DEF ReconcileListed, ReadResult, OnlyLabels, convVars, recordVars, lockVars, sessionVars, resultVars
<1>5. /\ listed' \in [Session -> SUBSET (Job \X Nat)] /\ listed'[p] \subseteq listed[p]
      /\ \A q \in Session \ {p} : listed'[q] = listed[q]
  BY <1>1, <1>4
<1>6. \A j \in Job : sent[j] <= sent'[j]
  BY <1>1, <1>4
<1>7. CASE ReconcileListed(p, x)
  <2>1. pc[p] = "reconciling" /\ Reconcile(x[1], x[2]) /\ pc' = pc /\ job' = job
    BY <1>7 DEF ReconcileListed, convVars, sessionVars
  <2>2. TableStep /\ TableTypes /\ retried' = retried
    BY <1>1, <1>2, <2>1, ReconcileStep
  <2>3. ASSUME NEW y \in listed'[p] PROVE SeenNext(y[1], y[2], "sending")
    <3>1. y[1] \in Job /\ y[2] \in Nat /\ SeenAs(y[1], y[2], "sending")
      BY <1>1, <1>5, <2>1, <2>3 DEF VersionInv
    <3>2. /\ version[y[1]] \in Nat /\ version'[y[1]] \in Nat /\ version[y[1]] <= version'[y[1]]
          /\ version'[y[1]] = version[y[1]] => delivery'[y[1]] = delivery[y[1]]
      BY <1>1, <2>2, <3>1 DEF TableStep, TableTypes
    <3> QED BY <3>1, <3>2 DEF SeenAs, SeenNext
  <2>4. pc' = [pc EXCEPT ![p] = "reconciling"]
    BY <1>1, <2>1
  <2>5. Inside(p, "reconciling") /\ InsideTypes
    BY <1>1, <1>4, <1>5, <2>1, <2>2, <2>4 DEF Inside, InsideTypes
  <2>6. /\ "reconciling" \in ConsumerPc /\ "reconciling" \notin AtResult \cup SenderPc
        /\ "reconciling" \notin BeforeSend \cup AfterMark
    BY DEF ConsumerPc, AtResult, BeforeSend, AfterMark, SenderPc
  <2>7. ShowsNothing(p, "reconciling")
    BY <1>4, <2>6 DEF ShowsNothing
  <2> QED BY <1>3, <1>4, <1>5, <1>6, <2>2, <2>3, <2>5, <2>6, <2>7, InsideStays
<1>8. CASE ReadResult(p, x)
  <2>1. /\ pc' = [pc EXCEPT ![p] = "reading"] /\ job' = [job EXCEPT ![p] = x[1]] /\ delivery[x[1]] = "available"
        /\ delivery' = delivery /\ version' = version /\ retried' = retried /\ attested' = attested
    BY <1>8 DEF ReadResult, Goto, MayDeliver, resultVars
  <2>2. TableStep /\ TableTypes
    BY <1>1, <2>1, TableRests
  <2>3. job' \in [Session -> Job] /\ job'[p] = x[1] /\ \A q \in Session \ {p} : job'[q] = job[q]
    BY <1>1, <1>2, <2>1
  <2>4. Inside(p, "reading") /\ InsideTypes
    BY <1>1, <1>4, <1>5, <2>1, <2>3 DEF Inside, InsideTypes
  <2>5. /\ "reading" \in ConsumerPc /\ "reading" \notin SenderPc /\ "reading" \notin AfterMark
    BY DEF ConsumerPc, AfterMark, SenderPc
  <2>6. ShowsNothing(p, "reading")
    BY <1>4, <2>1, <2>3, <2>5 DEF ShowsNothing, StaysOrReads
  <2> QED BY <1>3, <1>4, <1>5, <1>6, <2>2, <2>3, <2>4, <2>5, <2>6, InsideStays
<1> QED BY <1>7, <1>8

\* A step at a result that changes no list, no record and no delivery lease.
LEMMA AtResultIsInside ==
    ASSUME HandoffInv, NEW p \in Session, NEW to \in AtResult \cup {"pending"}, pc[p] \in AtResult,
           pc' = [pc EXCEPT ![p] = to],
           recordVars' = recordVars, origin' = origin, storeLock' = storeLock, conv' = conv, target' = target,
           job' = job, late' = late, owner' = owner, retried' = retried, listed' = listed, deliveryLease' = deliveryLease,
           fresh' \subseteq fresh \cup {p},
           \/ actionLease' = actionLease \/ actionLease' = Released(actionLease, p)
           \/ actionLease[conv[p]] = NoOne /\ actionLease' = [actionLease EXCEPT ![conv[p]] = p],
           noted' \in [Conversation -> SUBSET Job], sent' \in [Job -> Nat]
    PROVE  /\ Inside(p, to) /\ InsideTypes /\ to \in ConsumerPc /\ deliveryLease'[conv[p]] = p
           /\ \A x \in listed'[p] : Visible(conv[p], x[1])
           /\ Visible(conv[p], job'[p]) /\ to # "reconciling" /\ job'[p] = job[p]
<1>1. /\ pc \in [Session -> SessionPc \cup ConsumerPc] /\ job \in [Session -> Job]
      /\ listed \in [Session -> SUBSET (Job \X Nat)] /\ fresh \subseteq Session
      /\ actionLease \in [Conversation -> Session \cup {NoOne}]
      /\ deliveryLease \in [Conversation -> Session \cup {NoOne, Owner}]
      /\ conv[p] \in Conversation /\ NoOne \notin Session
  BY InsideFacts, HandoffConstants
<1>2. pc[p] \in ConsumerPc /\ to \in ConsumerPc /\ to # "reconciling"
  BY HandoffConstants DEF AtResult, BeforeSend, AfterMark, ConsumerPc
<1>3. /\ deliveryLease[conv[p]] = p /\ \A x \in listed[p] : Visible(conv[p], x[1])
      /\ Visible(conv[p], job[p])
  BY <1>2, InsideFacts
<1>4. /\ actionLease' \in [Conversation -> Session \cup {NoOne}]
      /\ \A c \in Conversation, q \in Session \ {p} : actionLease[c] = q => actionLease'[c] = q
  <2>1. CASE actionLease' = Released(actionLease, p)
    BY <1>1, <2>1 DEF Released
  <2>2. CASE actionLease[conv[p]] = NoOne /\ actionLease' = [actionLease EXCEPT ![conv[p]] = p]
    BY <1>1, <2>2
  <2> QED BY <1>1, <2>1, <2>2
<1>5. /\ active' = active /\ open' = open /\ archived' = archived /\ turn' = turn /\ asked' = asked /\ linked' = linked
  BY DEF recordVars
<1> QED BY <1>1, <1>2, <1>3, <1>4, <1>5 DEF Inside, InsideTypes

\* A step that changes no row and shows nothing.
LEMMA BetweenSendsStay ==
    ASSUME HandoffInv, NEW p \in Session, Refresh(p) \/ EnterSend(p) \/ NoteResult(p) \/ NoteFails(p)
    PROVE  HandoffInv'
<1>1. /\ HandoffTypes /\ QuietInv /\ pc \in [Session -> SessionPc \cup ConsumerPc]
      /\ actionLease \in [Conversation -> Session \cup {NoOne}] /\ fresh \subseteq Session
      /\ noted \in [Conversation -> SUBSET Job] /\ sent \in [Job -> Nat] /\ conv[p] \in Conversation /\ job[p] \in Job
  BY InsideFacts
<1>2. /\ recordVars' = recordVars /\ origin' = origin /\ storeLock' = storeLock /\ conv' = conv /\ target' = target
      /\ job' = job /\ late' = late /\ owner' = owner /\ listed' = listed /\ deliveryLease' = deliveryLease
      /\ sent' = sent /\ delivery' = delivery /\ version' = version /\ retried' = retried /\ attested' = attested
  BY DEF Refresh, EnterSend, NoteResult, NoteFails, OnlyLabels, handoffVars, resultVars, lockVars
<1>3. TableStep /\ TableTypes /\ \A j \in Job : sent[j] <= sent'[j]
  BY <1>1, <1>2, TableRests
<1>4. open' = open /\ turn' = turn
  BY <1>2 DEF recordVars
<1>5. CASE Refresh(p)
  <2>1. /\ pc[p] = "reading" /\ pc' = [pc EXCEPT ![p] = "read"] /\ fresh' = fresh \cup {p} /\ turn[conv[p]] # "running"
        /\ actionLease' = actionLease /\ noted' = noted
    BY <1>5 DEF Refresh, Goto, BetweenTurns, lockVars, handoffVars
  <2>2. /\ {"reading", "read"} \subseteq AtResult \cap BeforeSend /\ "read" \notin SenderPc \cup AfterMark
    BY DEF AtResult, BeforeSend, AfterMark, SenderPc
  <2>3. ShowsNothing(p, "read")
    BY <1>2, <2>1, <2>2 DEF ShowsNothing, StaysOrReads
  <2>4. /\ Inside(p, "read") /\ InsideTypes /\ "read" \in ConsumerPc /\ deliveryLease'[conv[p]] = p
        /\ \A x \in listed'[p] : Visible(conv[p], x[1])
        /\ Visible(conv[p], job'[p])
    BY <1>1, <1>2, <2>1, <2>2, AtResultIsInside
  <2> QED BY <1>3, <2>1, <2>2, <2>3, <2>4, InsideStays
<1>6. CASE EnterSend(p)
  <2>1. /\ pc[p] = "read" /\ pc' = [pc EXCEPT ![p] = "marking"] /\ fresh' = fresh /\ conv[p] \in open /\ p \in fresh
        /\ actionLease[conv[p]] = NoOne /\ actionLease' = [actionLease EXCEPT ![conv[p]] = p] /\ noted' = noted
    BY <1>6 DEF EnterSend, EnterGuard, Unchanged, handoffVars
  <2>2. /\ {"read", "marking"} \subseteq AtResult \cap BeforeSend /\ "marking" \notin AfterMark
    BY DEF AtResult, BeforeSend, AfterMark
  <2>3. ShowsNothing(p, "marking")
    BY <1>2, <2>1, <2>2 DEF ShowsNothing, StaysOrReads
  <2>4. /\ Inside(p, "marking") /\ InsideTypes /\ "marking" \in ConsumerPc /\ deliveryLease'[conv[p]] = p
        /\ \A x \in listed'[p] : Visible(conv[p], x[1])
        /\ Visible(conv[p], job'[p])
    BY <1>1, <1>2, <2>1, <2>2, AtResultIsInside
  <2>5. actionLease'[conv[p]] = p /\ turn[conv[p]] # "running"
    BY <1>1, <2>1 DEF QuietInv
  <2> QED BY <1>3, <2>1, <2>3, <2>4, <2>5, InsideStays
<1>7. CASE NoteResult(p)
  <2>1. /\ pc[p] = "noting" /\ pc' = [pc EXCEPT ![p] = "emitting"] /\ fresh' \subseteq fresh /\ actionLease' = actionLease
        /\ noted' = [noted EXCEPT ![conv[p]] = @ \cup {job[p]}]
    BY <1>7 DEF NoteResult, Change, lockVars
  <2>2. noted' \in [Conversation -> SUBSET Job]
    <3>1. PICK all \in SUBSET Job : all = noted[conv[p]] \cup {job[p]}
      BY <1>1
    <3>2. noted' = [noted EXCEPT ![conv[p]] = all]
      BY <2>1, <3>1
    <3> QED BY <1>1, <3>1, <3>2
  <2>3. /\ {"noting", "emitting"} \subseteq AtResult \cap BeforeSend \cap AfterMark \cap SenderPc
    BY DEF AtResult, BeforeSend, AfterMark, SenderPc
  <2>4. ShowsNothing(p, "emitting")
    BY <1>2, <2>1, <2>3 DEF ShowsNothing, StaysOrReads
  <2>5. /\ Inside(p, "emitting") /\ InsideTypes /\ "emitting" \in ConsumerPc /\ deliveryLease'[conv[p]] = p
        /\ \A x \in listed'[p] : Visible(conv[p], x[1])
        /\ Visible(conv[p], job'[p])
    BY <1>1, <1>2, <2>1, <2>2, <2>3, AtResultIsInside
  <2>6. actionLease'[conv[p]] = p /\ turn[conv[p]] # "running" /\ conv[p] \in open
    BY <1>1, <2>1, <2>3 DEF QuietInv
  <2> QED BY <1>3, <2>4, <2>5, <2>6, InsideStays
<1>8. CASE NoteFails(p)
  <2>1. /\ pc[p] = "noting" /\ pc' = [pc EXCEPT ![p] = "unsure"] /\ fresh' = fresh /\ actionLease' = actionLease
        /\ noted' = noted
    BY <1>8 DEF NoteFails, Goto, OnlyLabels, lockVars, handoffVars
  <2>2. /\ {"noting", "unsure"} \subseteq AtResult \cap AfterMark \cap SenderPc /\ "unsure" \notin BeforeSend
    BY DEF AtResult, BeforeSend, AfterMark, SenderPc
  <2>3. ShowsNothing(p, "unsure")
    BY <1>2, <2>1, <2>2 DEF ShowsNothing, StaysOrReads
  <2>4. /\ Inside(p, "unsure") /\ InsideTypes /\ "unsure" \in ConsumerPc /\ deliveryLease'[conv[p]] = p
        /\ \A x \in listed'[p] : Visible(conv[p], x[1])
        /\ Visible(conv[p], job'[p])
    BY <1>1, <1>2, <2>1, <2>2, AtResultIsInside
  <2>5. actionLease'[conv[p]] = p /\ turn[conv[p]] # "running" /\ conv[p] \in open
    BY <1>1, <2>1, <2>2 DEF QuietInv
  <2> QED BY <1>3, <2>3, <2>4, <2>5, InsideStays
<1> QED BY <1>5, <1>6, <1>7, <1>8

\* The rows that a session marks before and after it shows a result.
LEMMA MarksStay ==
    ASSUME HandoffInv, NEW p \in Session, MarkSending(p) \/ Delivered(p)
    PROVE  HandoffInv'
<1>1. /\ HandoffTypes /\ RowInv /\ ReceiptInv /\ QuietInv /\ pc \in [Session -> SessionPc \cup ConsumerPc]
      /\ noted \in [Conversation -> SUBSET Job] /\ sent \in [Job -> Nat] /\ conv[p] \in Conversation /\ job[p] \in Job
  BY InsideFacts
<1>2. /\ recordVars' = recordVars /\ origin' = origin /\ storeLock' = storeLock /\ conv' = conv /\ target' = target
      /\ job' = job /\ late' = late /\ owner' = owner /\ listed' = listed /\ deliveryLease' = deliveryLease
      /\ sent' = sent /\ noted' = noted /\ fresh' = fresh
  BY DEF MarkSending, Delivered, OnlyLabels, lockVars
<1>3. \A j \in Job : sent[j] <= sent'[j]
  BY <1>1, <1>2
<1>4. CASE MarkSending(p)
  <2>1. PICK to \in {"noting", "emitting"} : pc' = [pc EXCEPT ![p] = to]
    BY <1>4 DEF MarkSending, Goto
  <2>2. /\ pc[p] = "marking" /\ actionLease' = actionLease /\ Mark(job[p], "sending")
    BY <1>4 DEF MarkSending, Goto, OnlyLabels, lockVars
  <2>3. TableStep /\ TableTypes /\ delivery'[job[p]] = "sending" /\ retried' = retried
    BY <1>1, <2>2, MarkStep
  <2>4. /\ {"marking", "noting", "emitting"} \subseteq AtResult \cap BeforeSend \cap SenderPc
        /\ to \notin {"confirming", "read"}
    BY DEF AtResult, BeforeSend, AfterMark, SenderPc
  <2>5. ShowsNothing(p, to)
    BY <1>2, <2>2, <2>3, <2>4 DEF ShowsNothing, StaysOrReads
  <2>6. /\ Inside(p, to) /\ InsideTypes /\ to \in ConsumerPc /\ deliveryLease'[conv[p]] = p
        /\ \A x \in listed'[p] : Visible(conv[p], x[1])
        /\ Visible(conv[p], job'[p]) /\ to # "reconciling"
    BY <1>1, <1>2, <2>1, <2>2, <2>3, <2>4, AtResultIsInside
  <2>7. actionLease'[conv[p]] = p /\ turn[conv[p]] # "running" /\ conv[p] \in open
    BY <1>1, <2>2, <2>4 DEF QuietInv
  <2> QED BY <1>3, <2>3, <2>4, <2>5, <2>6, <2>7, InsideStays
<1>5. CASE Delivered(p)
  <2>1. /\ pc[p] = "confirming" /\ pc' = [pc EXCEPT ![p] = "pending"] /\ actionLease' = Released(actionLease, p)
        /\ Mark(job[p], "delivered")
    BY <1>5 DEF Delivered, Goto
  <2>2. sent[job[p]] > 0
    BY <1>1, <2>1 DEF ReceiptInv
  <2>3. TableStep /\ TableTypes /\ retried' = retried
    BY <1>1, <2>1, <2>2, MarkStep
  <2>4. /\ "confirming" \in AtResult /\ "pending" \notin AtResult \cup SenderPc /\ "pending" \notin BeforeSend \cup AfterMark
    BY DEF AtResult, BeforeSend, AfterMark, SenderPc
  <2>5. ShowsNothing(p, "pending")
    BY <1>2, <2>4 DEF ShowsNothing
  <2>6. /\ Inside(p, "pending") /\ InsideTypes /\ "pending" \in ConsumerPc /\ deliveryLease'[conv[p]] = p
        /\ \A x \in listed'[p] : Visible(conv[p], x[1])
    BY <1>1, <1>2, <2>1, <2>3, <2>4, AtResultIsInside
  <2> QED BY <1>3, <2>3, <2>4, <2>5, <2>6, InsideStays
<1> QED BY <1>4, <1>5

\* A result that a session shows is not shown again: its row is marked, and whoever else is
\* at a result in the same conversation holds the same lease.
LEMMA ShowingIsCounted ==
    ASSUME HandoffInv, NEW p \in Session, pc[p] = "emitting", NEW to \in {"confirming", "unsure"}, NEW n \in {0, 1},
           pc' = [pc EXCEPT ![p] = to], job' = job, linked' = linked, origin' = origin,
           delivery' = delivery, version' = version, retried' = retried, late' = late,
           sent' = [sent EXCEPT ![job[p]] = @ + n]
    PROVE  SendInv'
<1>1. /\ HandoffTypes /\ DeliveryInv /\ SendInv /\ pc \in [Session -> SessionPc \cup ConsumerPc]
      /\ sent \in [Job -> Nat] /\ job \in [Session -> Job] /\ retried \in [Job -> Nat]
  BY InsideFacts DEF HandoffTypes, HandoffTypeOK
<1>2. /\ "emitting" \in BeforeSend \cap AfterMark \cap AtResult \cap ConsumerPc /\ to \notin BeforeSend
      /\ to \in AfterMark \cap AtResult /\ BeforeSend \subseteq AtResult
  BY DEF BeforeSend, AfterMark, AtResult, ConsumerPc, SenderPc
<1>3. \A q \in Session : /\ pc'[q] \in BeforeSend => pc[q] \in BeforeSend /\ q # p
                         /\ pc'[q] \in AfterMark => pc[q] \in AfterMark
                         /\ pc'[q] \in AtResult => pc[q] \in AtResult
  BY <1>1, <1>2
<1> SUFFICES ASSUME NEW j \in Job, Undivided(j)
             PROVE  /\ sent'[j] <= 1 + retried[j]
                    /\ DueNext(j) => sent'[j] <= retried[j]
                    /\ \A q \in Session : pc'[q] \in AfterMark /\ job[q] = j => delivery[j] \notin {"none", "available"}
                    /\ \A q \in Session : pc'[q] \in AtResult /\ job[q] = j =>
                          \A r \in late : r.op # "mark" /\ r.job = j => r.version < version[j]
  BY DEF SendInv, Due, DueNext, Undivided, Visible
<1>4. /\ sent[j] <= 1 + retried[j]
      /\ Due(j) => sent[j] <= retried[j]
      /\ \A q \in Session : pc[q] \in AfterMark /\ job[q] = j => delivery[j] \notin {"none", "available"}
      /\ \A q \in Session : pc[q] \in AtResult /\ job[q] = j =>
            \A r \in late : r.op # "mark" /\ r.job = j => r.version < version[j]
  BY <1>1 DEF SendInv
<1>5. sent[j] \in Nat /\ retried[j] \in Nat
  BY <1>1
<1>6. CASE j = job[p]
  <2>1. sent[j] <= retried[j] /\ delivery[j] \notin {"none", "available"}
    BY <1>2, <1>4, <1>6 DEF Due
  <2>2. sent'[j] = sent[j] + n
    BY <1>1, <1>6
  <2>3. ~DueNext(j)
    <3> SUFFICES ASSUME NEW q \in Session, pc'[q] \in BeforeSend, job[q] = j PROVE FALSE
      BY <2>1 DEF DueNext
    <3>1. pc[q] \in AtResult /\ q # p
      BY <1>2, <1>3
    <3>2. pc[p] \in ConsumerPc /\ Visible(conv[p], j)
      BY <1>1, <1>2, <1>6 DEF DeliveryInv
    <3> QED BY <1>1, <3>1, <3>2, OneAtResult
  <2>4. sent'[j] <= 1 + retried[j]
    BY <1>5, <2>1, <2>2
  <2> QED BY <1>3, <1>4, <2>3, <2>4
<1>7. CASE j # job[p]
  <2>1. sent'[j] = sent[j]
    BY <1>1, <1>7
  <2>2. DueNext(j) => Due(j)
    BY <1>3 DEF Due, DueNext
  <2> QED BY <1>3, <1>4, <2>1, <2>2
<1> QED BY <1>6, <1>7

\* The result is shown, or may have been.
LEMMA EmitsStay ==
    ASSUME HandoffInv, NEW p \in Session, Emit(p) \/ EmitFails(p)
    PROVE  HandoffInv'
<1>1. /\ HandoffTypes /\ QuietInv /\ pc \in [Session -> SessionPc \cup ConsumerPc]
      /\ noted \in [Conversation -> SUBSET Job] /\ sent \in [Job -> Nat] /\ conv[p] \in Conversation /\ job[p] \in Job
  BY InsideFacts
<1>2. /\ recordVars' = recordVars /\ origin' = origin /\ storeLock' = storeLock /\ conv' = conv /\ target' = target
      /\ job' = job /\ late' = late /\ owner' = owner /\ listed' = listed /\ deliveryLease' = deliveryLease
      /\ noted' = noted /\ fresh' = fresh /\ actionLease' = actionLease
      /\ delivery' = delivery /\ version' = version /\ retried' = retried /\ attested' = attested /\ pc[p] = "emitting"
  BY DEF Emit, EmitFails, Goto, OnlyLabels, lockVars, resultVars
<1>3. PICK to \in {"confirming", "unsure"}, n \in {0, 1} :
          /\ pc' = [pc EXCEPT ![p] = to] /\ sent' = [sent EXCEPT ![job[p]] = @ + n]
          /\ to = "confirming" => n = 1
  <2>1. CASE Emit(p)
    <3>1. pc' = [pc EXCEPT ![p] = "confirming"] /\ sent' = [sent EXCEPT ![job[p]] = @ + 1]
      BY <2>1 DEF Emit, Goto
    <3> QED BY <3>1
  <2>2. CASE EmitFails(p)
    <3>1. PICK n \in {0, 1} : sent' = [sent EXCEPT ![job[p]] = @ + n]
      BY <2>2 DEF EmitFails
    <3>2. pc' = [pc EXCEPT ![p] = "unsure"]
      BY <2>2 DEF EmitFails, Goto, AfterFailedSend
    <3> QED BY <3>1, <3>2
  <2> QED BY <2>1, <2>2
<1>4. /\ sent' \in [Job -> Nat] /\ \A j \in Job : sent[j] <= sent'[j]
      /\ to = "confirming" => sent'[job[p]] > 0
  BY <1>1, <1>3
<1>5. TableStep /\ TableTypes
  BY <1>1, <1>2, TableRests
<1>6. {"emitting", "confirming", "unsure"} \subseteq AtResult \cap SenderPc
  BY DEF AtResult, BeforeSend, AfterMark, SenderPc
<1>7. /\ Inside(p, to) /\ InsideTypes /\ to \in ConsumerPc /\ deliveryLease'[conv[p]] = p
      /\ \A x \in listed'[p] : Visible(conv[p], x[1])
      /\ Visible(conv[p], job'[p]) /\ to # "reconciling" /\ job'[p] = job[p]
  BY <1>1, <1>2, <1>3, <1>4, <1>6, AtResultIsInside
<1>8. actionLease'[conv[p]] = p /\ turn[conv[p]] # "running" /\ conv[p] \in open
  BY <1>1, <1>2, <1>6 DEF QuietInv
<1>9. SendInv'
  <2>1. linked' = linked
    BY <1>2 DEF recordVars
  <2> QED BY <1>2, <1>3, <2>1, ShowingIsCounted
<1> QED BY <1>4, <1>5, <1>6, <1>7, <1>8, <1>9, InsideStays

-----------------------------------------------------------------------------
(***************************************************************************)
(* The invariant and what follows from it                                  *)
(***************************************************************************)

\* The invariant is inductive.
LEMMA HandoffStepInv == HandoffInv /\ [Next]_vars => HandoffInv'
<1> SUFFICES ASSUME HandoffInv, [Next]_vars PROVE HandoffInv'
  OBVIOUS
<1>1. CASE UNCHANGED vars
  BY <1>1 DEF vars, handoffVars, resultVars, convVars, recordVars, lockVars, sessionVars, HandoffInv, HandoffTypes,
     HandoffTypeOK, RecordsTypeOK, RowInv, DeliveryInv, VersionInv, SeenAs, SendInv, Due, Undivided, Visible, ReceiptInv,
     DeliveredWasSent, QuietInv
<1>2. ASSUME NEW p \in Session, ConsumerStep(p) PROVE HandoffInv'
  BY <1>2, ListsStay, ListedStay, BetweenSendsStay, MarksStay, EmitsStay, EndsStay DEF ConsumerStep
<1> QED BY <1>1, <1>2, ConversationStays, PublishStays, ServeLateStays, OwnerStays DEF Next

LEMMA HandoffStarts == Init => HandoffInv
<1> SUFFICES ASSUME Init PROVE HandoffInv
  OBVIOUS
<1>1. First \in Conversation /\ NoOne \notin Conversation
  BY ConversationAssumption
<1>2. \A p \in Session : pc[p] = "off" /\ pc[p] \notin ConsumerPc \cup AtResult /\ pc[p] \in SessionPc
  BY DEF Init, ConversationInit, ConsumerPc, AtResult, BeforeSend, AfterMark, SenderPc, SessionPc
<1>3. RecordsTypeOK
  BY <1>1 DEF Init, ConversationInit, RecordsTypeOK
<1>4. HandoffTypes
  BY <1>2, <1>3 DEF Init, ConversationInit, HandoffTypes, HandoffTypeOK, DeliveryStatus
<1>5. RowInv
  BY DEF Init, RowInv
<1>6. DeliveryInv /\ VersionInv
  BY <1>2 DEF Init, DeliveryInv, VersionInv, ConsumerPc
<1>7. SendInv
  BY <1>2 DEF Init, SendInv, AtResult
<1>8. ReceiptInv /\ QuietInv
  BY <1>2 DEF Init, ReceiptInv, DeliveredWasSent, QuietInv, ConsumerPc, SenderPc
<1> QED BY <1>4, <1>5, <1>6, <1>7, <1>8 DEF HandoffInv

LEMMA HandoffInvariant == Spec => []HandoffInv
BY HandoffStarts, HandoffStepInv, PTL DEF Spec

\* The state stays well typed.
THEOREM HandoffTypeCorrect == Spec => []HandoffTypeOK
<1>1. HandoffInv => HandoffTypeOK
  BY DEF HandoffInv, HandoffTypes
<1> QED BY <1>1, HandoffInvariant, PTL

\* Sends and receipts agree, whoever dies between the send and its receipt and whatever
\* requests are served late: a result that one conversation sees is shown once, and once
\* more for each time the owner asked for it; what counts as delivered was shown, or the
\* owner said so; and nothing is shown in the middle of a turn (store/result_events.go,
\* reception/results.go).
THEOREM ReceiptsMatch == Spec => []ReceiptsMatchSends
<1>1. HandoffInv => ReceiptsMatchSends
  <2> SUFFICES ASSUME HandoffInv PROVE ReceiptsMatchSends
    OBVIOUS
  <2>1. SentOnceByOneConversation
    BY DEF HandoffInv, SendInv, SentOnceByOneConversation
  <2>2. DeliveredWasSent /\ ResultsBetweenTurns
    BY DEF HandoffInv, ReceiptInv, QuietInv, ResultsBetweenTurns, SenderPc
  <2> QED BY <2>1, <2>2 DEF ReceiptsMatchSends
<1> QED BY <1>1, HandoffInvariant, PTL

\* A session that takes over a delivery marks a send as abandoned only when no live session
\* is still about to show it or has shown it: the lease of the sender was released, and what
\* the session listed before has kept its version (reception.ConsumeResults).
THEOREM AbandonedIsReconciled == Spec => ReconciledSendIsAbandoned
<1> DEFINE Abandons == \A p \in Session, j \in Job :
        pc[p] = "reconciling" /\ listed'[p] # listed[p] /\ AbandonsSend(j) /\ Undivided(j) => ~HasSender(j)
<1>1. HandoffInv /\ [Next]_vars => Abandons
  <2> SUFFICES ASSUME HandoffInv, [Next]_vars, NEW p \in Session, NEW j \in Job, pc[p] = "reconciling",
                      listed'[p] # listed[p], AbandonsSend(j), Undivided(j), HasSender(j)
               PROVE  FALSE
    OBVIOUS
  <2>1. /\ HandoffTypes /\ DeliveryInv /\ listed \in [Session -> SUBSET (Job \X Nat)] /\ delivery \in [Job -> DeliveryStatus]
    BY InsideFacts DEF HandoffTypes, HandoffTypeOK
  <2>2. delivery' # delivery
    BY DEF AbandonsSend
  <2>3. ASSUME NEW x \in listed[p], ReconcileListed(p, x) PROVE FALSE
    <3>1. delivery' = [delivery EXCEPT ![x[1]] = "unconfirmed"]
      BY <2>3 DEF ReconcileListed, Reconcile, Reconciled
    <3>2. x[1] = j
      BY <2>1, <3>1 DEF AbandonsSend
    <3>3. PICK q \in Session : pc[q] \in {"noting", "emitting", "confirming"} /\ job[q] = j
      BY DEF HasSender
    <3>4. pc[q] \in AtResult /\ q # p
      BY <3>3 DEF AtResult, AfterMark
    <3>5. pc[p] \in ConsumerPc /\ Visible(conv[p], j)
      BY <2>1, <2>3, <3>2 DEF DeliveryInv, ConsumerPc
    <3> QED BY <2>1, <3>3, <3>4, <3>5, OneAtResult
  <2>4. ASSUME NEW q \in Session, ConsumerStep(q) PROVE FALSE
    <3>1. ASSUME NEW x \in listed[q], ReconcileListed(q, x) PROVE FALSE
      <4>1. listed' = [listed EXCEPT ![q] = @ \ {x}]
        BY <3>1 DEF ReconcileListed
      <4>2. q = p
        BY <2>1, <4>1
      <4> QED BY <2>3, <3>1, <4>2
    <3>2. CASE MarkUnsure(q)
      <4>1. listed' = [listed EXCEPT ![q] = {}] /\ pc[q] = "unsure"
        BY <3>2 DEF MarkUnsure, Leave
      <4> QED BY <2>1, <4>1
    <3>3. CASE MarkSending(q) \/ Delivered(q)
      BY <3>3 DEF MarkSending, Delivered
    <3>4. CASE \/ BeginDelivery(q) \/ ListPending(q) \/ Refresh(q) \/ EnterSend(q) \/ NoteResult(q) \/ NoteFails(q)
               \/ Emit(q) \/ EmitFails(q) \/ EndDelivery(q) \/ GiveUp(q)
               \/ \E x \in listed[q] : ReadResult(q, x)
      BY <2>2, <3>4 DEF BeginDelivery, ListPending, List, Refresh, EnterSend, NoteResult, NoteFails, Emit, EmitFails,
                       EndDelivery, GiveUp, ReadResult, resultVars, handoffVars
    <3> QED BY <2>4, <3>1, <3>2, <3>3, <3>4 DEF ConsumerStep
  <2>5. CASE UNCHANGED vars
    BY <2>2, <2>5 DEF vars, handoffVars, resultVars
  <2>6. ASSUME NEW q \in Session, (ConversationStep(q) /\ UNCHANGED handoffVars) \/ Die(q) PROVE FALSE
    BY <2>2, <2>6 DEF Die, handoffVars, resultVars
  <2>7. CASE OwnerStep \/ (\E k \in Job : Publish(k)) \/ (\E r \in late : ServeLate(r))
    BY <2>7 DEF OwnerStep, OwnerLooks, OwnerApplies, OwnerGivesUp, OwnerDone, Publish, ServeLate
  <2> QED BY <2>4, <2>5, <2>6, <2>7 DEF Next
<1> QED BY <1>1, HandoffInvariant, PTL DEF Spec, ReconciledSendIsAbandoned
=============================================================================
