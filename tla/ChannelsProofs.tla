--------------------------- MODULE ChannelsProofs ---------------------------
(***************************************************************************)
(* One chat acts for the owner, for any number of supervisors, receiver    *)
(* processes and updates, and for any kills, lost writes and restarts; and *)
(* a receiver keeps the promises of a mailbox in every step it takes.      *)
(***************************************************************************)
EXTENDS MCChannels, FiniteSetTheorems, SequenceTheorems, TLAPS

\* At most one element of S.
Slots(S) == {{}} \cup {{x} : x \in S}

-----------------------------------------------------------------------------
(***************************************************************************)
(* The supervisors                                                         *)
(***************************************************************************)

\* The receivers that a supervisor started and that are alive.
Living == {r \in supervised : Alive(r)}

Outside == Down \cup {"lock", "quit"}
Locked(s) == doing[s] \notin Outside

IntentTypes ==
    start \in {"none", "asked", "waiting", "made", "unsure"} /\ {enabled, halted} \subseteq BOOLEAN

SupervisorTypes ==
    /\ IntentTypes
    /\ doing \in [Supervisor -> Doing]
    /\ signalled \subseteq Supervisor /\ supervised \subseteq Receiver
    /\ child \in [Supervisor -> Slots(Receiver)]
    /\ record \in [state : {"none", "starting", "running", "not_started", "exited"}, of : Slots(Receiver)]
    /\ life \in [Receiver -> {"gone", "started", "serving"}]

\* The lock of the supervisors, and the lock of the channel.
LockInv ==
    /\ guardian \in Slots(Supervisor)
    /\ \A s \in Supervisor : Locked(s) <=> guardian = {s}
    /\ transport \in Slots(Receiver)
    /\ \A r \in Receiver : life[r] = "serving" <=> transport = {r}

\* What the record says of the receivers alive: none, the one it names, or one it cannot name.
RecordInv ==
    /\ record.state \in {"none", "not_started", "exited"} => Living = {}
    /\ record.state = "running" => Living \subseteq record.of
    /\ record.state = "starting" => \E slot \in Slots(Receiver) : Living \subseteq slot

\* What the supervisor at work knows: nothing is alive when it starts a receiver.
StartInv ==
    \A s \in Supervisor :
        /\ doing[s] \in {"transport", "spawn"} => record.state \notin {"starting", "running"}
        /\ doing[s] = "start" => record.state = "starting" /\ Living = {}
        /\ doing[s] = "identify" => record.state = "starting" /\ Living \subseteq child[s]
        /\ doing[s] \in {"watch", "stop"} => record.state = "running" /\ record.of = child[s]

SupervisorInv == SupervisorTypes /\ LockInv /\ RecordInv /\ StartInv

\* Only one supervisor is past the lock.
LEMMA OneGuardian ==
    ASSUME SupervisorInv, NEW s \in Supervisor, NEW t \in Supervisor, Locked(s), Locked(t)
    PROVE  s = t
BY DEF SupervisorInv, LockInv

LEMMA EmptySlot == ASSUME NEW S PROVE {} \in Slots(S)
BY DEF Slots

\* The processes of gone end.
LEMMA EndedReceivers ==
    ASSUME SupervisorTypes, LockInv, NEW gone \in SUBSET Receiver, Ended(gone)
    PROVE  /\ life' \in [Receiver -> {"gone", "started", "serving"}]
           /\ supervised' = supervised
           /\ transport' \in Slots(Receiver)
           /\ \A r \in Receiver : life'[r] = "serving" <=> transport' = {r}
           /\ Living' = Living \ gone
<1>1. /\ \A r \in Receiver : life'[r] = IF r \in gone THEN "gone" ELSE life[r]
      /\ transport' = transport \ gone /\ supervised' = supervised /\ supervised \subseteq Receiver
      /\ life' \in [Receiver -> {"gone", "started", "serving"}]
  BY DEF Ended, SupervisorTypes
<1>2. transport' \in Slots(Receiver)
  BY <1>1 DEF LockInv, Slots
<1>3. \A r \in Receiver : life'[r] = "serving" <=> transport' = {r}
  BY <1>1 DEF LockInv, Slots
<1>4. Living' = Living \ gone
  BY <1>1 DEF Living, Alive
<1> QED BY <1>1, <1>2, <1>3, <1>4

\* A step that only moves supervisors, and none of them to the start of a receiver.
LEMMA MovedSupervisor ==
    ASSUME SupervisorInv, UNCHANGED <<record, processVars>>, IntentTypes',
           signalled' \subseteq Supervisor, child' \in [Supervisor -> Slots(Receiver)],
           NEW s \in Supervisor, NEW to \in Doing \ {"spawn", "start", "identify", "watch", "stop"}, Goes(s, to),
           \A t \in Supervisor \ {s} : child'[t] = child[t],
           to = "transport" => record.state \notin {"starting", "running"},
           guardian' \in Slots(Supervisor), \A t \in Supervisor : Locked(t)' <=> guardian' = {t}
    PROVE  SupervisorInv'
<1>1. \A t \in Supervisor : doing'[t] = IF t = s THEN to ELSE doing[t]
  BY DEF Goes, SupervisorInv, SupervisorTypes
<1>2. Living' = Living
  BY DEF Living, Alive, processVars
<1>3. SupervisorTypes'
  BY DEF SupervisorInv, SupervisorTypes, Goes, processVars
<1>4. LockInv' /\ RecordInv'
  BY <1>2 DEF SupervisorInv, LockInv, RecordInv, processVars
<1>5. StartInv'
  BY <1>1, <1>2 DEF SupervisorInv, StartInv
<1> QED BY <1>3, <1>4, <1>5 DEF SupervisorInv

\* The lock is taken, waited for, given back or not wanted.
LEMMA LockSteps ==
    ASSUME SupervisorInv, NEW s \in Supervisor,
           RunByHand(s) \/ TakeLock(s) \/ LockTimesOut(s) \/ Quit(s) \/ Ends(s) \/ Begin(s)
    PROVE  SupervisorInv'
<1>1. /\ doing[s] \in Doing /\ ~Locked(s) => guardian # {s}
      /\ \A t \in Supervisor : Locked(t) <=> guardian = {t}
      /\ guardian \in Slots(Supervisor) /\ {s} \in Slots(Supervisor) /\ {} \in Slots(Supervisor)
  BY DEF SupervisorInv, SupervisorTypes, LockInv, Slots
<1> DEFINE Past == {"check", "wait", "cleanup"}
<1>2. /\ Past \subseteq Doing \ Outside /\ Outside \subseteq Doing
      /\ (Past \cup Outside) \cap {"transport", "spawn", "start", "identify", "watch", "stop"} = {}
      /\ EndsAs(s) \in Down /\ Down = {"off", "failed", "unread"} /\ Outside = Down \cup {"lock", "quit"}
  BY DEF Doing, Cleaning, EndsAs, Down, Outside
<1>3. UNCHANGED <<record, processVars>>
  BY DEF RunByHand, TakeLock, LockTimesOut, Quit, Ends, Begin
<1>4. signalled' \subseteq Supervisor
  BY DEF RunByHand, TakeLock, LockTimesOut, Quit, Ends, Begin, SupervisorInv, SupervisorTypes
<1>5. child' \in [Supervisor -> Slots(Receiver)] /\ \A t \in Supervisor \ {s} : child'[t] = child[t]
  BY EmptySlot DEF RunByHand, TakeLock, LockTimesOut, Quit, Ends, Begin, SupervisorInv, SupervisorTypes
<1>6. PICK to \in Past \cup Outside :
          /\ Goes(s, to)
          /\ \/ Locked(s) /\ to \in Past /\ guardian' = guardian
             \/ Locked(s) /\ to = "quit" /\ guardian' = {}
             \/ doing[s] = "lock" /\ to = "check" /\ guardian = {} /\ guardian' = {s}
             \/ ~Locked(s) /\ to \in Outside /\ guardian' = guardian
  <2>1. CASE RunByHand(s) \/ TakeLock(s) \/ LockTimesOut(s)
    BY <1>2, <2>1 DEF RunByHand, TakeLock, LockTimesOut, Locked
  <2>2. CASE Quit(s) \/ Ends(s)
    BY <1>2, <2>2 DEF Quit, Ends, Locked
  <2>3. CASE Begin(s)
    BY <1>2, <2>3 DEF Begin, Locked
  <2> QED BY <2>1, <2>2, <2>3
<1>7. \A t \in Supervisor : doing'[t] = IF t = s THEN to ELSE doing[t]
  BY <1>6 DEF Goes, SupervisorInv, SupervisorTypes
<1>8. guardian' \in Slots(Supervisor) /\ \A t \in Supervisor : Locked(t)' <=> guardian' = {t}
  <2>1. guardian' \in Slots(Supervisor)
    BY <1>1, <1>6
  <2>2. ASSUME NEW t \in Supervisor PROVE Locked(t)' <=> guardian' = {t}
    <3>1. Locked(t)' <=> IF t = s THEN to \notin Outside ELSE Locked(t)
      BY <1>7 DEF Locked
    <3>2. (to \in Past => to \notin Outside) /\ "check" \in Past /\ {"lock", "quit"} \subseteq Outside
      BY <1>2
    <3>3. CASE t = s
      BY <1>1, <1>6, <3>1, <3>2, <3>3
    <3>4. CASE t # s
      BY <1>1, <1>6, <3>1, <3>4 DEF Locked
    <3> QED BY <3>3, <3>4
  <2> QED BY <2>1, <2>2
<1>9. IntentTypes'
  BY DEF RunByHand, TakeLock, LockTimesOut, Quit, Ends, Begin, intentVars, SupervisorInv, SupervisorTypes, IntentTypes
<1> QED BY <1>2, <1>3, <1>4, <1>5, <1>6, <1>8, <1>9, MovedSupervisor

\* The owner commands, and the service manager starts its unit or tells it to end; nobody is
\* past the lock by it.
LEMMA UnitSteps ==
    ASSUME SupervisorInv,
           Enable \/ StartUnit \/ StartReturns \/ Disable \/ StopUnit \/ RestartUnit
               \/ \E s \in Supervisor : Signal(s)
    PROVE  SupervisorInv'
<1>0. IntentTypes'
  BY DEF Enable, StartUnit, StartReturns, Disable, StopUnit, RestartUnit, Signal, Commanding, intentVars,
         SupervisorInv, SupervisorTypes, IntentTypes
<1>1. CASE Enable \/ StartReturns \/ Disable \/ StopUnit \/ \E s \in Supervisor : Signal(s)
  <2>1. signalled' \subseteq Supervisor /\ UNCHANGED <<doing, child, guardian, record, life, supervised, transport>>
    BY <1>1, SupervisorAssumption
       DEF Enable, StartReturns, Disable, StopUnit, Signal, processVars, SupervisorInv, SupervisorTypes
  <2>2. Living' = Living
    BY <2>1 DEF Living, Alive
  <2> QED BY <1>0, <2>1, <2>2 DEF SupervisorInv, SupervisorTypes, LockInv, Locked, RecordInv, StartInv
<1>2. CASE StartUnit /\ UNCHANGED doing
  <2>1. UNCHANGED <<signalled, doing, child, guardian, record, life, supervised, transport>>
    BY <1>2 DEF StartUnit, processVars
  <2>2. Living' = Living
    BY <2>1 DEF Living, Alive
  <2> QED BY <1>0, <2>1, <2>2 DEF SupervisorInv, SupervisorTypes, LockInv, Locked, RecordInv, StartInv
<1>3. CASE RestartUnit \/ (StartUnit /\ ~UNCHANGED doing)
  <2>1. /\ doing[ServiceUnit] \in Outside /\ Goes(ServiceUnit, "lock")
        /\ UNCHANGED <<signalled, child, guardian, record, processVars>>
    BY <1>3 DEF StartUnit, RestartUnit, Outside, Down
  <2>2. /\ ServiceUnit \in Supervisor /\ "lock" \in Doing \ {"spawn", "start", "identify", "watch", "stop"}
        /\ "lock" \in Outside
    BY SupervisorAssumption DEF Doing, Outside
  <2>3. \A t \in Supervisor : Locked(t)' <=> Locked(t)
    BY <2>1, <2>2 DEF Goes, Locked, SupervisorInv, SupervisorTypes
  <2>4. /\ signalled' \subseteq Supervisor /\ child' \in [Supervisor -> Slots(Receiver)]
        /\ \A t \in Supervisor \ {ServiceUnit} : child'[t] = child[t]
        /\ guardian' \in Slots(Supervisor) /\ \A t \in Supervisor : Locked(t)' <=> guardian' = {t}
    BY <2>1, <2>3 DEF SupervisorInv, SupervisorTypes, LockInv
  <2> QED BY <1>0, <2>1, <2>2, <2>4, MovedSupervisor
<1> QED BY <1>1, <1>2, <1>3

\* The supervisor past the lock goes on: only its own place, the record and the processes change.
LEMMA WorkingSupervisor ==
    ASSUME SupervisorInv, NEW s \in Supervisor, Locked(s), NEW to \in Doing \ Outside,
           Goes(s, to), UNCHANGED <<intentVars, guardian, signalled>>,
           child' \in [Supervisor -> Slots(Receiver)],
           record' \in [state : {"none", "starting", "running", "not_started", "exited"}, of : Slots(Receiver)],
           supervised' \subseteq Receiver, life' \in [Receiver -> {"gone", "started", "serving"}],
           transport' \in Slots(Receiver), \A r \in Receiver : life'[r] = "serving" <=> transport' = {r},
           RecordInv',
           to \in {"transport", "spawn"} => record'.state \notin {"starting", "running"},
           to = "start" => record'.state = "starting" /\ Living' = {},
           to = "identify" => record'.state = "starting" /\ Living' \subseteq child'[s],
           to \in {"watch", "stop"} => record'.state = "running" /\ record'.of = child'[s]
    PROVE  SupervisorInv'
<1>1. \A t \in Supervisor : doing'[t] = IF t = s THEN to ELSE doing[t]
  BY DEF Goes, SupervisorInv, SupervisorTypes
<1>2. \A t \in Supervisor : t # s => doing'[t] \in Outside
  <2> SUFFICES ASSUME NEW t \in Supervisor, t # s PROVE doing[t] \in Outside
    BY <1>1
  <2> QED BY OneGuardian DEF Locked
<1>3. SupervisorTypes'
  BY DEF SupervisorInv, SupervisorTypes, Goes, IntentTypes, intentVars
<1>4. LockInv'
  <2>1. \A t \in Supervisor : Locked(t)' <=> Locked(t)
    BY <1>1 DEF Locked
  <2> QED BY <2>1 DEF SupervisorInv, LockInv
<1>5. StartInv'
  BY <1>1, <1>2 DEF StartInv, Outside, Down
<1> QED BY <1>3, <1>4, <1>5 DEF SupervisorInv

\* Receivers that end leave the record as true as it was.
LEMMA FewerLiving ==
    ASSUME RecordInv, record' = record, Living' \subseteq Living
    PROVE  RecordInv'
BY DEF RecordInv

LEMMA KillStep ==
    ASSUME SupervisorInv, NEW s \in Supervisor, Kill(s)
    PROVE  SupervisorInv'
<1>1. PICK gone \in SUBSET child[s] : Ended(gone)
  BY DEF Kill
<1>2. child[s] \subseteq Receiver /\ gone \in SUBSET Receiver
  BY DEF SupervisorInv, SupervisorTypes, Slots
<1>3. SupervisorTypes /\ LockInv /\ RecordInv
  BY DEF SupervisorInv
<1>4. /\ life' \in [Receiver -> {"gone", "started", "serving"}] /\ supervised' = supervised
      /\ transport' \in Slots(Receiver) /\ \A r \in Receiver : life'[r] = "serving" <=> transport' = {r}
      /\ Living' = Living \ gone
  BY <1>1, <1>2, <1>3, EndedReceivers
<1>5. /\ \A t \in Supervisor : doing'[t] = IF t = s THEN "failed" ELSE doing[t]
      /\ \A t \in Supervisor \ {s} : child'[t] = child[t]
      /\ record' = record /\ guardian' = guardian \ {s}
      /\ "failed" \in Doing
  BY DEF Kill, Goes, SupervisorInv, SupervisorTypes, Doing, Down
<1>6. SupervisorTypes'
  BY <1>4, <1>5, EmptySlot DEF Kill, Goes, SupervisorInv, SupervisorTypes, IntentTypes, intentVars
<1>7. LockInv'
  <2>1. guardian' \in Slots(Supervisor)
    BY <1>3, <1>5 DEF LockInv, Slots
  <2>2. ASSUME NEW t \in Supervisor PROVE Locked(t)' <=> guardian' = {t}
    BY <1>3, <1>5 DEF LockInv, Slots, Locked, Outside, Down
  <2> QED BY <1>4, <2>1, <2>2 DEF LockInv
<1>8. RecordInv'
  BY <1>3, <1>4, <1>5, FewerLiving
<1>9. StartInv'
  BY <1>4, <1>5 DEF SupervisorInv, StartInv
<1> QED BY <1>6, <1>7, <1>8, <1>9 DEF SupervisorInv

\* executor.Reconcile: what the record names is ended before another receiver is started; what
\* it cannot name holds the start up.
LEMMA CleanUpStep ==
    ASSUME SupervisorInv, NEW s \in Supervisor, CleanUp(s)
    PROVE  SupervisorInv'
<1> DEFINE orphans == {r \in record.of : Alive(r)}
           onward == IF doing[s] = "cleanup" THEN "transport" ELSE "reconcile"
<1>1. /\ SupervisorTypes /\ LockInv /\ RecordInv /\ Locked(s)
      /\ record.of \in SUBSET Receiver /\ orphans \in SUBSET Receiver
      /\ {"wait", "transport", "reconcile"} \subseteq Doing \ Outside
      /\ UNCHANGED <<intentVars, guardian, signalled, child>>
  BY DEF CleanUp, SupervisorInv, SupervisorTypes, Slots, Locked, Cleaning, Doing, Outside, Down, Excluding
<1>2. /\ record \in [state : {"none", "starting", "running", "not_started", "exited"}, of : Slots(Receiver)]
      /\ supervised \subseteq Receiver /\ child \in [Supervisor -> Slots(Receiver)]
  BY <1>1 DEF SupervisorTypes
<1>3. CASE record.state \in Unknown /\ Goes(s, "wait") /\ UNCHANGED <<record, processVars>>
  <2>1. Living' = Living
    BY <1>3 DEF processVars, Living, Alive
  <2>2. RecordInv'
    BY <1>1, <1>3, <2>1, FewerLiving
  <2> QED BY <1>1, <1>2, <1>3, <2>2, WorkingSupervisor DEF processVars, SupervisorTypes, LockInv
<1>4. CASE /\ record.state \notin Unknown /\ Ended(orphans) /\ Goes(s, onward)
           /\ IF record.state = "running" THEN Note("exited", record.of) ELSE UNCHANGED record
  <2>1. /\ life' \in [Receiver -> {"gone", "started", "serving"}] /\ supervised' = supervised
        /\ transport' \in Slots(Receiver) /\ \A r \in Receiver : life'[r] = "serving" <=> transport' = {r}
        /\ Living' = Living \ orphans
    BY <1>1, <1>4, EndedReceivers
  <2>2. Living' = {}
    <3>1. CASE record.state = "running"
      BY <1>1, <2>1, <3>1 DEF RecordInv, Living
    <3>2. CASE record.state \in {"none", "not_started", "exited"}
      BY <1>1, <2>1, <3>2 DEF RecordInv
    <3> QED BY <1>2, <1>4, <3>1, <3>2 DEF Unknown
  <2>3. /\ record' \in [state : {"none", "starting", "running", "not_started", "exited"}, of : Slots(Receiver)]
        /\ record'.state \in {"none", "not_started", "exited"}
    BY <1>2, <1>4 DEF Note, Unknown
  <2>4. RecordInv'
    BY <2>2, <2>3, EmptySlot DEF RecordInv
  <2>5. onward \in {"transport", "reconcile"}
    OBVIOUS
  <2> QED BY <1>1, <1>2, <1>4, <2>1, <2>2, <2>3, <2>4, <2>5, WorkingSupervisor
<1>5. ASSUME NEW gone \in SUBSET orphans, Ended(gone), record.state = "running", Goes(s, "wait"), UNCHANGED record
      PROVE  SupervisorInv'
  <2>1. gone \in SUBSET Receiver
    BY <1>1, <1>5
  <2>2. /\ life' \in [Receiver -> {"gone", "started", "serving"}] /\ supervised' = supervised
        /\ transport' \in Slots(Receiver) /\ \A r \in Receiver : life'[r] = "serving" <=> transport' = {r}
        /\ Living' = Living \ gone
    BY <1>1, <1>5, <2>1, EndedReceivers
  <2>3. RecordInv'
    BY <1>1, <1>5, <2>2, FewerLiving
  <2> QED BY <1>1, <1>2, <1>5, <2>2, <2>3, WorkingSupervisor
<1> QED BY <1>3, <1>4, <1>5 DEF CleanUp

\* The steps of the supervisor past the lock that change no process.
LEMMA QuietSupervisorStep ==
    ASSUME SupervisorInv, NEW s \in Supervisor, Exclude(s) \/ AnnounceStart(s) \/ LeaveWatch(s)
    PROVE  SupervisorInv'
<1>1. /\ SupervisorTypes /\ LockInv /\ RecordInv /\ StartInv /\ Locked(s)
      /\ UNCHANGED <<intentVars, guardian, signalled, child, processVars>>
      /\ {"wait", "spawn", "start", "stop"} \subseteq Doing \ Outside
  BY DEF Exclude, AnnounceStart, LeaveWatch, SupervisorInv, Locked, Excluding, Doing, Outside, Down
<1>2. Living' = Living
  BY <1>1 DEF processVars, Living, Alive
<1>3. /\ record \in [state : {"none", "starting", "running", "not_started", "exited"}, of : Slots(Receiver)]
      /\ child' \in [Supervisor -> Slots(Receiver)]
      /\ supervised' \subseteq Receiver /\ life' \in [Receiver -> {"gone", "started", "serving"}]
      /\ transport' \in Slots(Receiver) /\ \A r \in Receiver : life'[r] = "serving" <=> transport' = {r}
  BY <1>1 DEF SupervisorTypes, LockInv, processVars
<1>4. CASE Exclude(s)
  <2>1. /\ record' = record
        /\ \/ Goes(s, "wait")
           \/ Goes(s, "spawn") /\ doing[s] = "transport"
    BY <1>4 DEF Exclude, Excluding
  <2>2. RecordInv'
    BY <1>1, <1>2, <2>1, FewerLiving
  <2>3. doing[s] = "transport" => record'.state \notin {"starting", "running"}
    BY <1>1, <2>1 DEF StartInv
  <2> QED BY <1>1, <1>3, <2>1, <2>2, <2>3, WorkingSupervisor
<1>5. CASE AnnounceStart(s)
  <2>1. CASE Note("starting", {}) /\ Goes(s, "start")
    <3>1. /\ record' \in [state : {"none", "starting", "running", "not_started", "exited"}, of : Slots(Receiver)]
          /\ record'.state = "starting"
      BY <2>1, EmptySlot DEF Note
    <3>2. Living = {}
      BY <1>1, <1>3, <1>5 DEF AnnounceStart, StartInv, RecordInv
    <3>3. RecordInv'
      BY <1>2, <3>1, <3>2, EmptySlot DEF RecordInv
    <3> QED BY <1>1, <1>2, <1>3, <2>1, <3>1, <3>2, <3>3, WorkingSupervisor
  <2>2. CASE Goes(s, "wait") /\ record' = record
    <3>1. RecordInv'
      BY <1>1, <1>2, <2>2, FewerLiving
    <3> QED BY <1>1, <1>3, <2>2, <3>1, WorkingSupervisor
  <2> QED BY <1>5, <2>1, <2>2 DEF AnnounceStart
<1>6. CASE LeaveWatch(s)
  <2>1. record' = record /\ Goes(s, "stop") /\ doing[s] = "watch"
    BY <1>6 DEF LeaveWatch
  <2>2. RecordInv'
    BY <1>1, <1>2, <2>1, FewerLiving
  <2>3. record'.state = "running" /\ record'.of = child'[s]
    BY <1>1, <2>1 DEF StartInv
  <2> QED BY <1>1, <1>3, <2>1, <2>2, <2>3, WorkingSupervisor
<1> QED BY <1>4, <1>5, <1>6

\* exec.Cmd.Start: the record says "starting" and nothing else is alive.
LEMMA StartChildStep ==
    ASSUME SupervisorInv, NEW s \in Supervisor, StartChild(s)
    PROVE  SupervisorInv'
<1>1. /\ SupervisorTypes /\ LockInv /\ RecordInv /\ Locked(s)
      /\ record.state = "starting" /\ Living = {}
      /\ UNCHANGED <<intentVars, guardian, signalled>>
      /\ {"identify", "wait"} \subseteq Doing \ Outside
  BY DEF StartChild, SupervisorInv, StartInv, Locked, Doing, Outside, Down
<1>2. ASSUME NEW r \in Receiver, ~Alive(r), life' = [life EXCEPT ![r] = "started"],
             supervised' = supervised \cup {r}, child' = [child EXCEPT ![s] = {r}], Goes(s, "identify"),
             UNCHANGED <<transport, record>>
      PROVE  SupervisorInv'
  <2>1. /\ life' \in [Receiver -> {"gone", "started", "serving"}] /\ supervised' \subseteq Receiver
        /\ \A q \in Receiver : life'[q] = IF q = r THEN "started" ELSE life[q]
        /\ {r} \in Slots(Receiver) /\ child' \in [Supervisor -> Slots(Receiver)] /\ child'[s] = {r}
    BY <1>1, <1>2 DEF SupervisorTypes, Slots
  <2>2. transport' \in Slots(Receiver) /\ \A q \in Receiver : life'[q] = "serving" <=> transport' = {q}
    BY <1>1, <1>2, <2>1 DEF LockInv, Alive
  <2>3. Living' \subseteq {r}
    <3> SUFFICES ASSUME NEW q \in Living' PROVE q = r
      OBVIOUS
    <3>1. q \in supervised' /\ life'[q] \in {"started", "serving"}
      BY DEF Living, Alive
    <3>2. q # r => q \in supervised /\ life[q] \in {"started", "serving"}
      BY <1>2, <2>1, <3>1
    <3> QED BY <1>1, <3>2 DEF Living, Alive
  <2>4. RecordInv'
    BY <1>1, <1>2, <2>1, <2>3 DEF RecordInv
  <2>5. record' \in [state : {"none", "starting", "running", "not_started", "exited"}, of : Slots(Receiver)]
        /\ record'.state = "starting"
    BY <1>1, <1>2 DEF SupervisorTypes
  <2> QED BY <1>1, <1>2, <2>1, <2>2, <2>3, <2>4, <2>5, WorkingSupervisor
<1>3. ASSUME Note("not_started", {}) \/ UNCHANGED record, Goes(s, "wait"), UNCHANGED <<processVars, child>>
      PROVE  SupervisorInv'
  <2>1. Living' = Living
    BY <1>3 DEF processVars, Living, Alive
  <2>2. record' \in [state : {"none", "starting", "running", "not_started", "exited"}, of : Slots(Receiver)]
        /\ record'.state \in {"starting", "not_started"}
    <3>1. CASE record' = record
      BY <1>1, <3>1 DEF SupervisorTypes
    <3>2. CASE record' = [state |-> "not_started", of |-> {}]
      BY <3>2, EmptySlot
    <3> QED BY <1>3, <3>1, <3>2 DEF Note
  <2>3. RecordInv'
    BY <1>1, <2>1, <2>2, EmptySlot DEF RecordInv
  <2> QED BY <1>1, <1>3, <2>2, <2>3, WorkingSupervisor DEF processVars, SupervisorTypes, LockInv
<1> QED BY <1>2, <1>3 DEF StartChild

\* The identity of the child is saved, or the child is killed.
LEMMA IdentifyChildStep ==
    ASSUME SupervisorInv, NEW s \in Supervisor, IdentifyChild(s)
    PROVE  SupervisorInv'
<1>1. /\ SupervisorTypes /\ LockInv /\ RecordInv /\ Locked(s)
      /\ record.state = "starting" /\ Living \subseteq child[s]
      /\ child[s] \in Slots(Receiver) /\ child[s] \in SUBSET Receiver
      /\ UNCHANGED <<intentVars, guardian, signalled, child>>
      /\ {"watch", "wait"} \subseteq Doing \ Outside
  BY DEF IdentifyChild, SupervisorInv, SupervisorTypes, StartInv, Locked, Doing, Outside, Down, Slots
<1>2. CASE Note("running", child[s]) /\ Goes(s, "watch") /\ UNCHANGED processVars
  <2>1. Living' = Living
    BY <1>2 DEF processVars, Living, Alive
  <2>2. record' \in [state : {"none", "starting", "running", "not_started", "exited"}, of : Slots(Receiver)]
        /\ record'.state = "running" /\ record'.of = child[s]
    BY <1>1, <1>2 DEF Note
  <2>3. RecordInv'
    BY <1>1, <2>1, <2>2 DEF RecordInv
  <2> QED BY <1>1, <1>2, <2>2, <2>3, WorkingSupervisor DEF processVars, SupervisorTypes, LockInv
<1>3. CASE Ended(child[s]) /\ Goes(s, "wait") /\ UNCHANGED record
  <2>1. /\ life' \in [Receiver -> {"gone", "started", "serving"}] /\ supervised' = supervised
        /\ transport' \in Slots(Receiver) /\ \A r \in Receiver : life'[r] = "serving" <=> transport' = {r}
        /\ Living' = Living \ child[s]
    BY <1>1, <1>3, EndedReceivers
  <2>2. RecordInv'
    BY <1>1, <1>3, <2>1, FewerLiving
  <2> QED BY <1>1, <1>3, <2>1, <2>2, WorkingSupervisor DEF SupervisorTypes
<1> QED BY <1>2, <1>3 DEF IdentifyChild

\* The child is ended for good before the record says so.
LEMMA StopChildStep ==
    ASSUME SupervisorInv, NEW s \in Supervisor, StopChild(s)
    PROVE  SupervisorInv'
<1>1. /\ SupervisorTypes /\ LockInv /\ RecordInv /\ Locked(s)
      /\ record.state = "running" /\ record.of = child[s]
      /\ child[s] \in Slots(Receiver) /\ child[s] \in SUBSET Receiver
      /\ UNCHANGED <<intentVars, guardian, signalled>> /\ Ended(child[s]) /\ Goes(s, "reap")
      /\ child' \in [Supervisor -> Slots(Receiver)]
      /\ "reap" \in Doing \ Outside
  BY EmptySlot DEF StopChild, SupervisorInv, SupervisorTypes, StartInv, Locked, Doing, Outside, Down, Cleaning, Slots
<1>2. /\ life' \in [Receiver -> {"gone", "started", "serving"}] /\ supervised' = supervised
      /\ transport' \in Slots(Receiver) /\ \A r \in Receiver : life'[r] = "serving" <=> transport' = {r}
      /\ Living' = {}
  BY <1>1, EndedReceivers DEF RecordInv
<1>3. record' \in [state : {"none", "starting", "running", "not_started", "exited"}, of : Slots(Receiver)]
  BY <1>1 DEF StopChild, Note, SupervisorTypes
<1>4. RecordInv'
  BY <1>2, EmptySlot DEF RecordInv
<1> QED BY <1>1, <1>2, <1>3, <1>4, WorkingSupervisor DEF SupervisorTypes

\* A receiver process gets the lock of the channel, ends, or is run in a terminal: what a
\* supervisor started and is alive does not grow.
LEMMA ReceiverProcessStep ==
    ASSUME SupervisorInv, NEW r \in Receiver, TakeTransport(r) \/ ReceiverEnds(r) \/ InTerminal(r)
    PROVE  SupervisorInv'
<1>1. SupervisorTypes /\ LockInv /\ RecordInv /\ StartInv /\ UNCHANGED <<intentVars, doing, signalled, child, guardian, record>>
  BY DEF TakeTransport, ReceiverEnds, InTerminal, SupervisorInv
<1>2. /\ life' \in [Receiver -> {"gone", "started", "serving"}] /\ supervised' \subseteq Receiver
      /\ transport' \in Slots(Receiver) /\ \A q \in Receiver : life'[q] = "serving" <=> transport' = {q}
      /\ Living' \subseteq Living
  <2>1. CASE TakeTransport(r)
    <3>1. /\ \A q \in Receiver : life'[q] = IF q = r THEN "serving" ELSE life[q]
          /\ life' \in [Receiver -> {"gone", "started", "serving"}]
          /\ supervised' = supervised /\ supervised \subseteq Receiver
          /\ transport = {} /\ transport' = {r} /\ life[r] = "started"
      BY <1>1, <2>1 DEF TakeTransport, SupervisorTypes
    <3>2. Living' \subseteq Living
      BY <3>1 DEF Living, Alive
    <3> QED BY <1>1, <3>1, <3>2 DEF LockInv, Slots
  <2>2. CASE ReceiverEnds(r)
    <3>1. Ended({r}) /\ {r} \in SUBSET Receiver
      BY <2>2 DEF ReceiverEnds
    <3> QED BY <1>1, <3>1, EndedReceivers DEF SupervisorTypes
  <2>3. CASE InTerminal(r)
    <3>1. /\ \A q \in Receiver : life'[q] = IF q = r THEN "started" ELSE life[q]
          /\ life' \in [Receiver -> {"gone", "started", "serving"}]
          /\ supervised' = supervised \ {r} /\ supervised \subseteq Receiver
          /\ transport' = transport /\ life[r] # "serving"
      BY <1>1, <2>3 DEF InTerminal, SupervisorTypes, Alive
    <3>2. Living' \subseteq Living
      BY <3>1 DEF Living, Alive
    <3> QED BY <1>1, <3>1, <3>2 DEF LockInv
  <2> QED BY <2>1, <2>2, <2>3
<1>3. RecordInv'
  BY <1>1, <1>2, FewerLiving
<1>4. StartInv'
  BY <1>1, <1>2 DEF StartInv
<1> QED BY <1>1, <1>2, <1>3, <1>4 DEF SupervisorInv, SupervisorTypes, LockInv, Locked, IntentTypes, intentVars

LEMMA SupervisorInitInv == SupervisorInit => SupervisorInv
<1> SUFFICES ASSUME SupervisorInit PROVE SupervisorInv
  OBVIOUS
<1>1. IntentTypes
  BY DEF SupervisorInit, IntentTypes
<1>2. SupervisorTypes
  BY <1>1, EmptySlot DEF SupervisorInit, SupervisorTypes, Doing, Down
<1>3. Living = {} /\ \A s \in Supervisor : doing[s] = "off" /\ ~Locked(s)
  BY DEF SupervisorInit, Living, Locked, Outside, Down
<1>4. LockInv
  BY <1>3, EmptySlot DEF SupervisorInit, LockInv
<1>5. RecordInv /\ StartInv
  BY <1>3 DEF SupervisorInit, RecordInv, StartInv
<1> QED BY <1>2, <1>4, <1>5 DEF SupervisorInv

LEMMA SupervisorStepInv ==
    ASSUME SupervisorInv, SupervisorNext
    PROVE  SupervisorInv'
<1>1. ASSUME NEW s \in Supervisor, SupervisorStep(s) PROVE SupervisorInv'
  BY <1>1, LockSteps, CleanUpStep, QuietSupervisorStep, StartChildStep, IdentifyChildStep, StopChildStep
     DEF SupervisorStep
<1>2. ASSUME NEW s \in Supervisor, RunByHand(s) \/ Signal(s) \/ Kill(s) PROVE SupervisorInv'
  BY <1>2, LockSteps, UnitSteps, KillStep
<1> QED BY <1>1, <1>2, UnitSteps, ReceiverProcessStep DEF SupervisorNext

LEMMA SupervisorStutterInv ==
    ASSUME SupervisorInv, UNCHANGED supervisorVars
    PROVE  SupervisorInv'
BY DEF SupervisorInv, SupervisorTypes, LockInv, RecordInv, StartInv, Living, Alive, Locked, supervisorVars, processVars,
       intentVars, IntentTypes

\* At most one receiver process that a supervisor started is alive.
LEMMA OneReceiver ==
    ASSUME SupervisorInv
    PROVE  SupervisorTypeOK /\ OneSupervisedReceiver
<1>1. \A S : \A x \in Slots(S) : Cardinality(x) <= 1 /\ \A y \in SUBSET x : Cardinality(y) <= 1
  <2> SUFFICES ASSUME NEW S, NEW x \in Slots(S), NEW y \in SUBSET x PROVE Cardinality(x) <= 1 /\ Cardinality(y) <= 1
    OBVIOUS
  <2>1. Cardinality({}) = 0 /\ \A e : Cardinality({e}) = 1
    BY FS_EmptySet, FS_Singleton
  <2>2. /\ x = {} \/ \E e : x = {e}
        /\ y = {} \/ \E e : y = {e}
    BY DEF Slots
  <2> QED BY <2>1, <2>2
<1>2. \E slot \in Slots(Receiver) : Living \subseteq slot
  BY EmptySlot DEF SupervisorInv, SupervisorTypes, RecordInv
<1>3. OneSupervisedReceiver
  BY <1>1, <1>2 DEF OneSupervisedReceiver, Living
<1>4. SupervisorTypeOK
  <2>1. Cardinality(transport) <= 1
    BY <1>1 DEF SupervisorInv, LockInv
  <2> QED BY <2>1 DEF SupervisorInv, SupervisorTypes, LockInv, Locked, Slots, SupervisorTypeOK, IntentTypes, Outside
<1> QED BY <1>3, <1>4

-----------------------------------------------------------------------------
(***************************************************************************)
(* The receiver                                                            *)
(***************************************************************************)

\* The loop takes an update, acts on it or may still do so, or answers it.
Taking == {"claim", "advance", "duplicate"}
Acting == {"dispatch", "accept", "accepting", "accepted", "launch"}
Replying == {"reply", "sending", "sent"}

ReceiverTypes ==
    /\ arrived \in 0..UpdateBound
    /\ cursor \in 1..UpdateBound + 1 /\ next \in 0..UpdateBound + 1
    /\ receipt \in [Update -> ReceiptState]
    /\ effects \in [Update -> Nat]
    /\ survivors \subseteq Update
    /\ hand \in 0..UpdateBound /\ active \in 0..UpdateBound
    /\ pending \in 0..UpdateBound /\ running \in 0..UpdateBound
    /\ turn \in {"none", "running", "sending", "broken", "done"}
    /\ stage \in {"none"} \cup Taking \cup Acting \cup Replying
    /\ waiting \in Seq(Update) /\ answers \in Seq(Update)
    /\ Len(waiting) <= QueueSize /\ Len(answers) <= QueueSize

\* The update in hand is the one behind the cursor until it is taken, and before it then.
PlaceInv ==
    /\ Up => next = cursor
    /\ stage # "none" => Up /\ hand \in Update
    /\ stage \in Taking => hand = cursor /\ hand <= arrived
    /\ stage \in Acting => hand < cursor

\* The commands that wait were taken, each of them once, and are not in hand.
WaitingInv ==
    /\ \A i \in 1..Len(waiting) : waiting[i] < cursor /\ (stage \in Acting => waiting[i] # hand)
    /\ \A i, k \in 1..Len(waiting) : waiting[i] = waiting[k] => i = k

\* No assistant process is left without a turn, unless the turn has just ended uncertainly
\* or the assistant is blocked; a turn runs only while it is not.
TurnInv ==
    /\ (active = 0) <=> (turn = "none")
    /\ turn # "none" => Up /\ ~aiBlocked
    /\ turn \in {"running", "sending", "broken"} => survivors = {}
    /\ turn = "done" /\ ended # "uncertain" => survivors = {}
    /\ Up /\ turn = "none" /\ ~aiBlocked => survivors = {}

ReceiverInv == ReceiverTypes /\ PlaceInv /\ WaitingInv /\ TurnInv

LEMMA UpdateNumbers ==
    /\ UpdateBound \in Nat /\ QueueSize \in Nat
    /\ Update \subseteq Nat
    /\ \A u \in 0..UpdateBound : u \in Update <=> u # 0
    /\ \A u \in Update : u \in 0..UpdateBound /\ u # 0
BY ReceiverAssumption DEF Update

\* The loop moves to another place with another update in hand; the rest stands still.
LEMMA PlaceMoves ==
    ASSUME ReceiverInv,
           UNCHANGED <<arrived, cursor, next, survivors, active, turn, ended, pending, waiting, running, answers,
                       aiBlocked>>,
           receipt' \in [Update -> ReceiptState], effects' \in [Update -> Nat],
           \/ stage' = "none" /\ hand' = 0
           \/ stage' \in Replying /\ Up /\ hand' \in Update
           \/ stage' \in Taking /\ Up /\ hand' = cursor /\ hand' <= arrived /\ hand' \in Update
           \/ stage' \in Acting /\ stage \in Acting /\ hand' = hand
    PROVE  ReceiverInv'
<1>1. /\ hand' \in 0..UpdateBound /\ stage' \in {"none"} \cup Taking \cup Acting \cup Replying
      /\ stage' # "none" => Up /\ hand' \in Update
      /\ stage' \in Taking => hand' = cursor /\ hand' <= arrived
      /\ stage' \in Acting => stage \in Acting /\ hand' = hand
  <2>1. /\ \A x \in Acting : x # "none" /\ x \notin Taking /\ x \notin Replying
        /\ \A x \in Taking : x # "none" /\ x \notin Replying
        /\ \A x \in Replying : x # "none"
    BY DEF Taking, Acting, Replying
  <2>2. 0 \in 0..UpdateBound /\ \A u \in Update : u \in 0..UpdateBound
    BY UpdateNumbers
  <2>3. stage \in Acting => Up /\ hand \in Update
    BY <2>1 DEF ReceiverInv, PlaceInv
  <2> QED BY <2>1, <2>2, <2>3
<1>2. ReceiverTypes' /\ PlaceInv'
  BY <1>1 DEF ReceiverInv, ReceiverTypes, PlaceInv, Up
<1>3. WaitingInv'
  BY <1>1 DEF ReceiverInv, WaitingInv
<1>4. TurnInv'
  BY DEF ReceiverInv, TurnInv, Up
<1> QED BY <1>2, <1>3, <1>4 DEF ReceiverInv

\* Receipts and effects remain typed.
LEMMA Marked ==
    ASSUME ReceiverTypes, NEW u \in Update
    PROVE  /\ \A st \in ReceiptState : Set(u, st) => receipt' \in [Update -> ReceiptState]
           /\ Acts(u) => effects' \in [Update -> Nat]
<1>1. \A st \in ReceiptState : Set(u, st) => receipt' \in [Update -> ReceiptState]
  BY DEF ReceiverTypes, Set
<1>2. ASSUME Acts(u) PROVE effects' \in [Update -> Nat]
  <2>1. PICK n \in Nat : n = effects[u] + 1
    BY DEF ReceiverTypes
  <2>2. effects' = [effects EXCEPT ![u] = n]
    BY <1>2, <2>1 DEF Acts
  <2> QED BY <2>2 DEF ReceiverTypes
<1> QED BY <1>1, <1>2

LEMMA TakingSteps ==
    ASSUME ReceiverInv, HandOver \/ Claim \/ TakeFails
    PROVE  ReceiverInv'
<1>1. ReceiverTypes /\ PlaceInv /\ UpdateBound \in Nat
  BY UpdateNumbers DEF ReceiverInv
<1>2. /\ UNCHANGED <<arrived, cursor, next, survivors, active, turn, ended, pending, waiting, running, answers,
                     aiBlocked, effects>>
  BY DEF HandOver, Claim, TakeFails, diskVars, turnVars, commandQueueVars, historyVars
<1>3. CASE HandOver
  <2>1. /\ Up /\ hand' = next /\ next = cursor /\ next <= arrived /\ receipt' = receipt
        /\ stage' \in {"advance", "claim"} /\ next \in Update
    BY <1>1, <1>3 DEF HandOver, Free, To, PlaceInv, ReceiverTypes, Up, diskVars, Update
  <2> QED BY <1>1, <1>2, <2>1, PlaceMoves DEF ReceiverTypes, Taking
<1>4. CASE Claim
  <2>1. /\ Up /\ hand \in Update /\ hand' = hand /\ hand = cursor /\ hand <= arrived
        /\ stage' \in {"advance", "duplicate"}
        /\ receipt' = receipt \/ Set(hand, "claimed")
    BY <1>1, <1>4 DEF Claim, To, PlaceInv, Taking
  <2>2. receipt' \in [Update -> ReceiptState]
    BY <1>1, <2>1, Marked DEF ReceiverTypes, ReceiptState
  <2> QED BY <1>1, <1>2, <2>1, <2>2, PlaceMoves DEF ReceiverTypes, Taking
<1>5. CASE TakeFails
  <2>1. stage' = "none" /\ hand' = 0 /\ receipt' = receipt
    BY <1>5 DEF TakeFails, Rest, To, diskVars
  <2> QED BY <1>1, <1>2, <2>1, PlaceMoves DEF ReceiverTypes
<1> QED BY <1>3, <1>4, <1>5

LEMMA ReplyingSteps ==
    ASSUME ReceiverInv, Inline \/ Accept \/ LaunchUpdate \/ BeginReply \/ EndReply \/ CompleteReply
    PROVE  ReceiverInv'
<1>1. /\ ReceiverTypes /\ PlaceInv
      /\ UNCHANGED <<arrived, cursor, next, survivors, active, turn, ended, pending, waiting, running, answers,
                     aiBlocked>>
  BY DEF Inline, Accept, LaunchUpdate, BeginReply, EndReply, CompleteReply, ReceiverInv, diskVars, turnVars,
         commandQueueVars, historyVars
<1>2. /\ stage \in Acting \cup Replying /\ hand \in Update /\ Up
      /\ \/ stage' = "none" /\ hand' = 0
         \/ stage' \in Replying /\ hand' = hand
         \/ stage' \in Acting /\ stage \in Acting /\ hand' = hand
  BY <1>1 DEF Inline, Accept, LaunchUpdate, BeginReply, EndReply, CompleteReply, Asks, To, Rest, PlaceInv, Acting,
              Replying
<1>3. effects' \in [Update -> Nat]
  BY <1>1, <1>2, Marked DEF Inline, Accept, LaunchUpdate, BeginReply, EndReply, CompleteReply, historyVars,
              ReceiverTypes
<1>4. receipt' \in [Update -> ReceiptState]
  <2>1. {"reply_sending", "reply_sent", "reply_unconfirmed", "completed"} \subseteq ReceiptState
    BY DEF ReceiptState
  <2>2. receipt' = receipt \/ \E st \in ReceiptState : Set(hand, st)
    BY <2>1 DEF Inline, Accept, LaunchUpdate, BeginReply, EndReply, CompleteReply, diskVars
  <2> QED BY <1>1, <1>2, <2>2, Marked DEF ReceiverTypes
<1> QED BY <1>1, <1>2, <1>3, <1>4, PlaceMoves

\* The cursor goes behind the update in hand, which may be acted on from now on.
LEMMA AdvanceCursorStep ==
    ASSUME ReceiverInv, AdvanceCursor
    PROVE  ReceiverInv'
<1>1. /\ ReceiverTypes /\ PlaceInv /\ WaitingInv /\ TurnInv /\ UpdateBound \in Nat
      /\ Up /\ hand \in Update /\ hand = cursor /\ next = cursor
      /\ UNCHANGED <<arrived, survivors, active, turn, ended, pending, waiting, running, answers, aiBlocked, receipt,
                     effects>>
      /\ cursor' = hand + 1 /\ next' = hand + 1
      /\ (stage' = "none" /\ hand' = 0) \/ (stage' = "dispatch" /\ hand' = hand)
  BY UpdateNumbers DEF AdvanceCursor, ReceiverInv, PlaceInv, Taking, turnVars, commandQueueVars, historyVars, To, Rest
<1>2. cursor' \in 1..UpdateBound + 1 /\ next' \in 0..UpdateBound + 1 /\ Up' /\ cursor' > cursor /\ cursor' \in Nat
      /\ hand < cursor' /\ hand' \in 0..UpdateBound
  BY <1>1 DEF Up, Update
<1>3. ReceiverTypes' /\ PlaceInv'
  BY <1>1, <1>2 DEF ReceiverTypes, PlaceInv, Taking, Acting, Replying
<1>4. WaitingInv'
  <2>1. \A i \in 1..Len(waiting) : waiting[i] < cursor /\ waiting[i] \in Update
    BY <1>1, ElementOfSeq DEF WaitingInv, ReceiverTypes
  <2>2. \A i \in 1..Len(waiting) : waiting[i] < cursor' /\ waiting[i] # hand
    BY <1>1, <1>2, <2>1 DEF Update
  <2> QED BY <1>1, <2>2 DEF WaitingInv, Acting
<1>5. TurnInv'
  BY <1>1, <1>2 DEF TurnInv
<1> QED BY <1>3, <1>4, <1>5 DEF ReceiverInv

\* A command joins the queue when there is room: no command that waits is the one in hand.
LEMMA EnqueueStep ==
    ASSUME ReceiverInv, Enqueue
    PROVE  ReceiverInv'
<1>1. /\ ReceiverTypes /\ PlaceInv /\ WaitingInv /\ TurnInv /\ QueueSize \in Nat
      /\ Up /\ hand \in Update /\ hand < cursor /\ stage \in Acting
      /\ UNCHANGED <<arrived, cursor, next, survivors, active, turn, ended, pending, running, answers, aiBlocked, receipt,
                     effects>>
  BY UpdateNumbers DEF Enqueue, Asks, ReceiverInv, PlaceInv, Acting, diskVars, turnVars, historyVars
<1>2. CASE waiting' = waiting /\ stage' = "reply" /\ hand' = hand
  BY <1>1, <1>2, PlaceMoves DEF ReceiverTypes, Replying
<1>3. CASE Len(waiting) < QueueSize /\ waiting' = Append(waiting, hand) /\ stage' = "none" /\ hand' = 0
  <2>1. /\ waiting' \in Seq(Update) /\ Len(waiting') = Len(waiting) + 1 /\ Len(waiting) \in Nat
        /\ \A i \in 1..Len(waiting) : waiting'[i] = waiting[i]
        /\ waiting'[Len(waiting) + 1] = hand
    BY <1>1, <1>3, AppendProperties, LenProperties DEF ReceiverTypes
  <2>2. Len(waiting') <= QueueSize
    BY <1>1, <1>3, <2>1
  <2>3. \A i \in 1..Len(waiting') : i \in 1..Len(waiting) \/ i = Len(waiting) + 1
    BY <2>1
  <2>4. WaitingInv'
    BY <1>1, <1>3, <2>1, <2>3 DEF WaitingInv, Acting
  <2>5. ReceiverTypes'
    BY <1>1, <1>3, <2>1, <2>2, UpdateNumbers DEF ReceiverTypes
  <2>6. PlaceInv' /\ TurnInv'
    BY <1>1, <1>3 DEF PlaceInv, TurnInv, Up, Taking, Acting
  <2> QED BY <2>4, <2>5, <2>6 DEF ReceiverInv
<1> QED BY <1>2, <1>3 DEF Enqueue, To, Rest

\* A turn begins when there is none and the assistant is not blocked: no process is left.
LEMMA BeginTurnStep ==
    ASSUME ReceiverInv, BeginTurn
    PROVE  ReceiverInv'
<1>1. /\ ReceiverTypes /\ PlaceInv /\ WaitingInv /\ TurnInv
      /\ Up /\ hand \in Update
      /\ UNCHANGED <<arrived, cursor, next, survivors, pending, waiting, running, answers, aiBlocked, receipt>>
  BY DEF BeginTurn, Asks, ReceiverInv, PlaceInv, diskVars, commandQueueVars
<1>2. CASE stage' \in {"reply", "none"} /\ UNCHANGED <<turnVars, effects>>
           /\ (stage' = "none" => hand' = 0) /\ (stage' = "reply" => hand' = hand)
  BY <1>1, <1>2, PlaceMoves DEF ReceiverTypes, turnVars, Replying
<1>3. CASE /\ active = 0 /\ ~aiBlocked /\ active' = hand /\ turn' = "running" /\ Acts(hand)
           /\ stage' = "none" /\ hand' = 0
  <2>1. effects' \in [Update -> Nat] /\ hand # 0 /\ hand \in 0..UpdateBound
    BY <1>1, <1>3, Marked, UpdateNumbers
  <2>2. TurnInv'
    BY <1>1, <1>3, <2>1 DEF TurnInv, Up
  <2>3. ReceiverTypes'
    BY <1>1, <1>3, <2>1, UpdateNumbers DEF ReceiverTypes
  <2>4. PlaceInv' /\ WaitingInv'
    BY <1>1, <1>3 DEF PlaceInv, WaitingInv, Up, Taking, Acting
  <2> QED BY <2>2, <2>3, <2>4 DEF ReceiverInv
<1> QED BY <1>2, <1>3 DEF BeginTurn, To, Rest

\* A request to cancel waits for the turn it ends, or is answered; without a turn, a reset
\* unblocks the assistant only when no process is left.
LEMMA ControlSteps ==
    ASSUME ReceiverInv, CancelTurn \/ ControlAlone
    PROVE  ReceiverInv'
<1>1. /\ ReceiverTypes /\ PlaceInv /\ WaitingInv /\ TurnInv
      /\ Up /\ hand \in Update /\ hand \in 0..UpdateBound
      /\ effects' \in [Update -> Nat]
      /\ UNCHANGED <<arrived, cursor, next, active, turn, ended, waiting, running, answers, receipt>>
      /\ (stage' = "none" /\ hand' = 0) \/ (stage' = "reply" /\ hand' = hand)
  BY Marked, UpdateNumbers DEF CancelTurn, ControlAlone, Asks, To, Rest, ReceiverInv, PlaceInv, diskVars, turnVars,
                               commandQueueVars
<1>2. pending' \in 0..UpdateBound
  BY <1>1 DEF CancelTurn, ControlAlone, ReceiverTypes
<1>3. /\ survivors' \subseteq Update
      /\ TurnInv'
  <2>1. CASE CancelTurn
    BY <1>1, <2>1 DEF CancelTurn, ReceiverTypes, TurnInv, Up
  <2>2. CASE ControlAlone
    <3>1. \/ survivors' = survivors /\ aiBlocked' = aiBlocked
          \/ survivors' = {}
          \/ survivors' = survivors /\ aiBlocked'
      BY <2>2 DEF ControlAlone, Reconciled
    <3>2. turn = "none"
      BY <1>1, <2>2 DEF ControlAlone, TurnInv
    <3>3. survivors' \subseteq Update
      BY <1>1, <3>1 DEF ReceiverTypes
    <3> QED BY <1>1, <3>1, <3>2, <3>3 DEF TurnInv, Up
  <2> QED BY <2>1, <2>2
<1>4. ReceiverTypes'
  BY <1>1, <1>2, <1>3, UpdateNumbers DEF ReceiverTypes, Replying
<1>5. PlaceInv' /\ WaitingInv'
  BY <1>1 DEF PlaceInv, WaitingInv, Up, Taking, Acting
<1> QED BY <1>3, <1>4, <1>5 DEF ReceiverInv

\* The goroutine of the commands, and what has been answered.
LEMMA CommandSteps ==
    ASSUME ReceiverInv, RunCommand \/ EndCommand \/ AnswerCommand
    PROVE  ReceiverInv'
<1>1. /\ ReceiverTypes /\ PlaceInv /\ WaitingInv /\ TurnInv /\ QueueSize \in Nat
      /\ UNCHANGED <<arrived, cursor, next, receipt, survivors, active, turn, ended, pending, aiBlocked>>
      /\ waiting \in Seq(Update) /\ answers \in Seq(Update)
  BY UpdateNumbers DEF RunCommand, EndCommand, AnswerCommand, ReceiverInv, ReceiverTypes, diskVars, turnVars, loopVars,
                       historyVars
<1>2. CASE RunCommand
  <2>1. /\ waiting # <<>> /\ running' = Head(waiting) /\ waiting' = Tail(waiting) /\ Acts(Head(waiting))
        /\ UNCHANGED <<hand, stage, answers>>
    BY <1>2 DEF RunCommand, loopVars
  <2>2. /\ Head(waiting) \in Update /\ waiting' \in Seq(Update) /\ Len(waiting) \in Nat
        /\ Len(waiting') = Len(waiting) - 1 /\ \A i \in 1..Len(waiting') : waiting'[i] = waiting[i + 1]
    BY <1>1, <2>1, HeadTailProperties, LenProperties
  <2>3. effects' \in [Update -> Nat]
    BY <1>1, <2>1, <2>2, Marked
  <2>4. \A i \in 1..Len(waiting') : i + 1 \in 1..Len(waiting)
    BY <2>2
  <2>5. WaitingInv'
    <3>1. \A i \in 1..Len(waiting') : waiting'[i] < cursor /\ (stage \in Acting => waiting'[i] # hand)
      BY <1>1, <2>2, <2>4 DEF WaitingInv
    <3>2. \A i, k \in 1..Len(waiting') : waiting'[i] = waiting'[k] => i = k
      <4> SUFFICES ASSUME NEW i \in 1..Len(waiting'), NEW k \in 1..Len(waiting'), waiting'[i] = waiting'[k]
                   PROVE  i = k
        OBVIOUS
      <4>1. i + 1 = k + 1
        BY <1>1, <2>2, <2>4 DEF WaitingInv
      <4> QED BY <4>1, <2>2
    <3> QED BY <1>1, <2>1, <3>1, <3>2 DEF WaitingInv
  <2>6. running' \in 0..UpdateBound
    <3>1. running' \in Update
      BY <2>1, <2>2
    <3> QED BY <3>1, UpdateNumbers
  <2>7. Len(waiting') <= QueueSize
    <3>1. Len(waiting) <= QueueSize
      BY <1>1 DEF ReceiverTypes
    <3> QED BY <1>1, <2>2, <3>1
  <2>8. ReceiverTypes'
    BY <1>1, <2>1, <2>2, <2>3, <2>6, <2>7 DEF ReceiverTypes
  <2>9. PlaceInv' /\ TurnInv'
    BY <1>1, <2>1 DEF PlaceInv, TurnInv, Up
  <2> QED BY <2>5, <2>9, <2>8 DEF ReceiverInv
<1>3. CASE EndCommand
  <2>1. /\ running # 0 /\ Len(answers) < QueueSize /\ answers' = Append(answers, running) /\ running' = 0
        /\ UNCHANGED <<hand, stage, waiting, effects>>
    BY <1>3 DEF EndCommand, loopVars, historyVars
  <2>2. /\ answers' \in Seq(Update) /\ Len(answers') = Len(answers) + 1 /\ Len(answers) \in Nat
    BY <1>1, <2>1, UpdateNumbers, AppendProperties, LenProperties DEF ReceiverTypes
  <2>3. Len(answers') <= QueueSize
    BY <1>1, <2>1, <2>2
  <2>4. ReceiverTypes'
    BY <1>1, <2>1, <2>2, <2>3, UpdateNumbers DEF ReceiverTypes
  <2>5. PlaceInv' /\ WaitingInv' /\ TurnInv'
    BY <1>1, <2>1 DEF PlaceInv, WaitingInv, TurnInv, Up
  <2> QED BY <2>4, <2>5 DEF ReceiverInv
<1>4. CASE AnswerCommand
  <2>1. /\ answers # <<>> /\ answers' = Tail(answers) /\ hand' = Head(answers) /\ stage' = "reply" /\ Up
        /\ UNCHANGED <<waiting, running, effects>>
    BY <1>4 DEF AnswerCommand, Free, To, historyVars
  <2>2. Head(answers) \in Update /\ answers' \in Seq(Update) /\ Len(answers') = Len(answers) - 1 /\ Len(answers) \in Nat
    BY <1>1, <2>1, HeadTailProperties, LenProperties
  <2>3. Len(answers') <= QueueSize /\ hand' \in 0..UpdateBound
    <3>1. hand' \in Update /\ Len(answers) <= QueueSize
      BY <1>1, <2>1, <2>2 DEF ReceiverTypes
    <3>2. hand' \in 0..UpdateBound
      BY <3>1, UpdateNumbers
    <3> QED BY <1>1, <2>2, <3>1, <3>2
  <2>4. ReceiverTypes'
    BY <1>1, <2>1, <2>2, <2>3 DEF ReceiverTypes, Replying
  <2>5. PlaceInv' /\ WaitingInv' /\ TurnInv'
    BY <1>1, <2>1, <2>2 DEF PlaceInv, WaitingInv, TurnInv, Up, Taking, Acting
  <2> QED BY <2>4, <2>5 DEF ReceiverInv
<1> QED BY <1>2, <1>3, <1>4

\* The turn, up to its end in the loop: only an uncertain end leaves a process, and it is
\* either gone or the assistant is blocked before the next turn.
LEMMA TurnSteps ==
    ASSUME ReceiverInv, TurnSends \/ TurnEnds \/ FinishTurn
    PROVE  ReceiverInv'
<1>1. /\ ReceiverTypes /\ PlaceInv /\ WaitingInv /\ TurnInv
      /\ Up /\ turn # "none" /\ active \in Update /\ ~aiBlocked
      /\ UNCHANGED <<arrived, cursor, next, effects, waiting, running, answers>>
  BY UpdateNumbers DEF TurnSends, TurnEnds, FinishTurn, ReceiverInv, ReceiverTypes, TurnInv, loopVars,
                       commandQueueVars, historyVars
<1>2. {"reply_sending", "reply_sent", "reply_unconfirmed", "completed", "failed", "uncertain", "cancelled"}
          \subseteq ReceiptState
  BY DEF ReceiptState
<1>3. CASE TurnSends
  <2>1. /\ UNCHANGED <<hand, stage, pending, aiBlocked, active, ended, survivors>>
        /\ turn \in {"running", "sending"} /\ turn' \in {"running", "sending", "broken"}
        /\ \E st \in ReceiptState : Set(active, st)
    BY <1>2, <1>3 DEF TurnSends, loopVars
  <2>2. receipt' \in [Update -> ReceiptState]
    BY <1>1, <2>1, Marked
  <2>3. ReceiverTypes' /\ PlaceInv' /\ WaitingInv'
    BY <1>1, <2>1, <2>2 DEF ReceiverTypes, PlaceInv, WaitingInv, Up
  <2>4. TurnInv'
    BY <1>1, <2>1 DEF TurnInv, Up
  <2> QED BY <2>3, <2>4 DEF ReceiverInv
<1>4. CASE TurnEnds
  <2>1. PICK result \in {"completed", "failed", "uncertain", "cancelled"} :
            /\ ended' = result
            /\ survivors' \in IF result = "uncertain" THEN {survivors, survivors \cup {active}} ELSE {survivors}
            /\ receipt' \in {[receipt EXCEPT ![active] = IF turn = "broken" THEN @ ELSE result]}
                            \cup (IF result = "uncertain" THEN {receipt} ELSE {})
    BY <1>4 DEF TurnEnds
  <2>2. receipt' \in [Update -> ReceiptState]
    <3>1. receipt \in [Update -> ReceiptState] /\ result \in ReceiptState /\ receipt[active] \in ReceiptState
      BY <1>1, <1>2, <2>1 DEF ReceiverTypes
    <3>2. CASE receipt' = [receipt EXCEPT ![active] = IF turn = "broken" THEN @ ELSE result]
      BY <3>1, <3>2
    <3> QED BY <2>1, <3>1, <3>2
  <2>3. /\ UNCHANGED <<hand, stage, pending, aiBlocked, active>>
        /\ turn \in {"running", "broken"} /\ turn' = "done"
    BY <1>4 DEF TurnEnds, loopVars
  <2>4. survivors' \subseteq Update /\ (ended' # "uncertain" => survivors' = survivors)
    BY <1>1, <2>1 DEF ReceiverTypes
  <2>5. ReceiverTypes' /\ PlaceInv' /\ WaitingInv'
    BY <1>1, <2>2, <2>3, <2>4 DEF ReceiverTypes, PlaceInv, WaitingInv, Up
  <2>6. TurnInv'
    BY <1>1, <2>3, <2>4 DEF TurnInv, Up
  <2> QED BY <2>5, <2>6 DEF ReceiverInv
<1>5. CASE FinishTurn
  <2>1. /\ turn = "done" /\ active' = 0 /\ turn' = "none" /\ pending' = 0
    BY <1>5 DEF FinishTurn
  <2>2. \/ survivors' = {}
        \/ survivors' = survivors /\ aiBlocked'
        \/ survivors' = survivors /\ aiBlocked' = aiBlocked /\ ended # "uncertain"
    BY <1>5 DEF FinishTurn, Reconciled
  <2>3. /\ \/ hand' = hand /\ stage' = stage
           \/ pending # 0 /\ stage = "none" /\ hand' = pending /\ stage' = "reply"
        /\ \/ receipt' = receipt
           \/ pending # 0 /\ \E st \in ReceiptState : Set(pending, st)
    <3>1. CASE pending = 0
      BY <1>5, <3>1 DEF FinishTurn
    <3>2. CASE pending # 0 /\ Free
      BY <1>5, <3>2 DEF FinishTurn, Free, To
    <3>3. CASE pending # 0 /\ ~Free
      BY <1>2, <1>5, <3>3 DEF FinishTurn
    <3> QED BY <3>1, <3>2, <3>3
  <2>4. receipt' \in [Update -> ReceiptState]
    BY <1>1, <2>3, Marked, UpdateNumbers DEF ReceiverTypes
  <2>5. survivors' \subseteq Update /\ TurnInv'
    BY <1>1, <2>1, <2>2 DEF ReceiverTypes, TurnInv, Up
  <2>6. ReceiverTypes'
    BY <1>1, <2>1, <2>3, <2>4, <2>5, UpdateNumbers DEF ReceiverTypes, Replying
  <2>7. PlaceInv' /\ WaitingInv'
    BY <1>1, <2>3, UpdateNumbers DEF ReceiverTypes, PlaceInv, WaitingInv, Up, Taking, Acting
  <2> QED BY <2>5, <2>6, <2>7 DEF ReceiverInv
<1> QED BY <1>3, <1>4, <1>5

\* An update arrives; the process ends, with all it held in memory, and is started again.
LEMMA ProcessSteps ==
    ASSUME ReceiverInv, Arrive \/ Start \/ Exit
    PROVE  ReceiverInv'
<1>1. /\ ReceiverTypes /\ PlaceInv /\ WaitingInv /\ TurnInv /\ UpdateBound \in Nat
      /\ UNCHANGED <<cursor, effects>>
  BY UpdateNumbers DEF Arrive, Start, Exit, ReceiverInv, diskVars, historyVars
<1>2. CASE Arrive
  <2>1. /\ arrived' = arrived + 1 /\ arrived < UpdateBound
        /\ UNCHANGED <<receipt, next, hand, stage, pending, aiBlocked, active, turn, ended, waiting, running, answers,
                       survivors>>
    BY <1>2 DEF Arrive, diskVars, loopVars, turnVars, commandQueueVars
  <2>2. arrived' \in 0..UpdateBound /\ \A u \in 0..UpdateBound : u <= arrived => u <= arrived'
    BY <1>1, <2>1 DEF ReceiverTypes
  <2>3. ReceiverTypes'
    BY <1>1, <2>1, <2>2 DEF ReceiverTypes
  <2>4. PlaceInv'
    BY <1>1, <2>1, <2>2 DEF ReceiverTypes, PlaceInv, Up
  <2>5. WaitingInv' /\ TurnInv'
    BY <1>1, <2>1 DEF WaitingInv, TurnInv, Up
  <2> QED BY <2>3, <2>4, <2>5 DEF ReceiverInv
<1>3. CASE Start
  <2>1. /\ next' = cursor /\ ~Up
        /\ (survivors' = {} /\ ~aiBlocked') \/ (survivors' = survivors /\ aiBlocked')
        /\ receipt' = [u \in Update |-> IF receipt[u] \in Ahead THEN "interrupted" ELSE receipt[u]]
        /\ UNCHANGED <<arrived, hand, stage, pending, active, turn, ended, waiting, running, answers>>
    BY <1>3 DEF Start, Reconciled, turnVars, commandQueueVars, historyVars
  <2>2. receipt' \in [Update -> ReceiptState]
    BY <1>1, <2>1 DEF ReceiverTypes, ReceiptState
  <2>3. next' \in 0..UpdateBound + 1 /\ turn = "none" /\ active = 0
    BY <1>1, <2>1 DEF ReceiverTypes, TurnInv
  <2>4. ReceiverTypes'
    BY <1>1, <2>1, <2>2, <2>3 DEF ReceiverTypes
  <2>5. PlaceInv' /\ WaitingInv' /\ TurnInv'
    BY <1>1, <2>1, <2>3 DEF PlaceInv, WaitingInv, TurnInv, Up
  <2> QED BY <2>4, <2>5 DEF ReceiverInv
<1>4. CASE Exit
  <2>1. /\ next' = 0 /\ hand' = 0 /\ stage' = "none" /\ pending' = 0 /\ active' = 0 /\ turn' = "none"
        /\ waiting' = <<>> /\ running' = 0 /\ answers' = <<>>
        /\ UNCHANGED <<arrived, receipt>>
    BY <1>4 DEF Exit, Rest, To, diskVars, historyVars
  <2>2. ~Up'
    BY <2>1 DEF Up
  <2>3. survivors' \subseteq Update
    <3>1. survivors \subseteq Update /\ (active # 0 => active \in Update)
      BY <1>1, UpdateNumbers DEF ReceiverTypes
    <3> QED BY <1>4, <3>1 DEF Exit
  <2>4. /\ waiting' \in Seq(Update) /\ answers' \in Seq(Update) /\ 0 <= QueueSize
        /\ Len(waiting') = 0 /\ Len(answers') = 0
    BY <2>1, UpdateNumbers, EmptySeq
  <2>5. Len(waiting') <= QueueSize /\ Len(answers') <= QueueSize
    BY <2>4
  <2>6. next' \in 0..UpdateBound + 1 /\ 0 \in 0..UpdateBound
    BY <1>1, <2>1
  <2>7. ReceiverTypes'
    BY <1>1, <2>1, <2>3, <2>4, <2>5, <2>6 DEF ReceiverTypes
  <2>8. PlaceInv' /\ TurnInv'
    BY <2>1, <2>2 DEF PlaceInv, TurnInv, Taking, Acting
  <2>9. WaitingInv'
    BY <2>4 DEF WaitingInv
  <2> QED BY <2>7, <2>8, <2>9 DEF ReceiverInv
<1> QED BY <1>2, <1>3, <1>4

LEMMA ReceiverInitInv == ReceiverInit => ReceiverInv
<1> SUFFICES ASSUME ReceiverInit PROVE ReceiverInv
  OBVIOUS
<1>1. /\ waiting = <<>> /\ answers = <<>> /\ waiting \in Seq(Update) /\ answers \in Seq(Update)
      /\ Len(waiting) = 0 /\ Len(answers) = 0 /\ QueueSize \in Nat /\ UpdateBound \in Nat
  BY UpdateNumbers, EmptySeq DEF ReceiverInit
<1>2. Len(waiting) <= QueueSize /\ Len(answers) <= QueueSize
  BY <1>1
<1>3. receipt \in [Update -> ReceiptState] /\ effects \in [Update -> Nat]
  BY DEF ReceiverInit, ReceiptState
<1>4. ReceiverTypes
  BY <1>1, <1>2, <1>3 DEF ReceiverInit, ReceiverTypes
<1>5. PlaceInv /\ TurnInv
  BY DEF ReceiverInit, PlaceInv, TurnInv, Up, Taking, Acting
<1>6. WaitingInv
  BY <1>1 DEF WaitingInv
<1> QED BY <1>4, <1>5, <1>6 DEF ReceiverInv

LEMMA ReceiverStepInv ==
    ASSUME ReceiverInv, ReceiverNext
    PROVE  ReceiverInv'
BY ProcessSteps, TakingSteps, ReplyingSteps, AdvanceCursorStep, EnqueueStep, BeginTurnStep, ControlSteps, CommandSteps,
   TurnSteps
   DEF ReceiverNext, LoopStep

LEMMA ReceiverStutterInv ==
    ASSUME ReceiverInv, UNCHANGED receiverVars
    PROVE  ReceiverInv'
BY DEF ReceiverInv, ReceiverTypes, PlaceInv, WaitingInv, TurnInv, Up, receiverVars, diskVars, loopVars, turnVars,
       commandQueueVars, historyVars

\* A turn runs only when no process of an earlier one is left.
LEMMA LoneTurn ==
    ASSUME ReceiverInv
    PROVE  ReceiverTypeOK /\ TurnRunsAlone
BY DEF ReceiverInv, ReceiverTypes, PlaceInv, TurnInv, ReceiverTypeOK, TurnRunsAlone

-----------------------------------------------------------------------------
(***************************************************************************)
(* The receiver keeps the promises of a mailbox                            *)
(***************************************************************************)

Queued == {waiting[i] : i \in 1..Len(waiting)}

\* What may still be acted on is the update in hand and the commands that wait.
LEMMA HeldUpdates ==
    ASSUME ReceiverInv
    PROVE  /\ Held = (IF stage \in Acting THEN {hand} ELSE {}) \cup Queued
           /\ stage \in Acting => hand \notin Queued
<1>1. DOMAIN waiting = 1..Len(waiting)
  BY LenProperties DEF ReceiverInv, ReceiverTypes
<1> QED BY <1>1 DEF Held, Queued, Acting, ReceiverInv, WaitingInv

LEMMA HeldUpdatesNext ==
    ASSUME ReceiverInv'
    PROVE  Held' = (IF stage' \in Acting THEN {hand'} ELSE {}) \cup Queued'
<1>1. DOMAIN waiting' = 1..Len(waiting')
  BY LenProperties DEF ReceiverInv, ReceiverTypes
<1> QED BY <1>1 DEF Held, Queued, Acting

\* The loop goes on with the update in hand, or leaves it.
LEMMA HandGivesUp ==
    ASSUME ReceiverInv, ReceiverInv', waiting' = waiting,
           stage' \in Acting => stage \in Acting /\ hand' = hand
    PROVE  /\ Held' \subseteq Held
           /\ stage \in Acting /\ stage' \notin Acting => hand \in Held /\ Held' = Held \ {hand}
           /\ (stage \in Acting <=> stage' \in Acting) => Held' = Held
<1>1. Queued' = Queued
  BY DEF Queued
<1>2. /\ Held = (IF stage \in Acting THEN {hand} ELSE {}) \cup Queued
      /\ stage \in Acting => hand \notin Queued
  BY HeldUpdates
<1>3. Held' = (IF stage' \in Acting THEN {hand'} ELSE {}) \cup Queued
  BY <1>1, HeldUpdatesNext
<1> QED BY <1>2, <1>3

\* A step that takes no update and acts on none: Lose.
LEMMA LosingStep ==
    ASSUME UNCHANGED <<arrived, cursor, effects>>, Held' \subseteq Held
    PROVE  Promised!MailNext
BY DEF Promised!MailNext, Promised!Lose

\* An action on an update that is held, which is given up by it: Act.
LEMMA ActingStep ==
    ASSUME UNCHANGED <<arrived, cursor>>, NEW u \in Held, Acts(u), Held' = Held \ {u}
    PROVE  Promised!MailNext
BY DEF Promised!MailNext, Promised!Act, Acts

\* The loop takes an update when its cursor is behind it.
LEMMA TakeRefines ==
    ASSUME ReceiverInv, ReceiverInv', AdvanceCursor
    PROVE  Promised!MailNext
<1>1. /\ hand = cursor /\ hand \in Update /\ hand <= arrived /\ cursor' = hand + 1 /\ stage \notin Acting
      /\ (stage' = "none" /\ hand' = 0) \/ (stage' = "dispatch" /\ hand' = hand)
      /\ UNCHANGED <<arrived, effects, waiting>>
  BY DEF AdvanceCursor, ReceiverInv, PlaceInv, Taking, Acting, To, Rest, commandQueueVars, historyVars
<1>2. cursor \in Nat /\ arrived \in Nat /\ cursor >= 1
  BY UpdateNumbers DEF ReceiverInv, ReceiverTypes
<1>3. Queued' = Queued
  BY <1>1 DEF Queued
<1>4. Held = Queued
  BY <1>1, HeldUpdates
<1>5. Held' = (IF stage' \in Acting THEN {hand'} ELSE {}) \cup Queued
  BY <1>3, HeldUpdatesNext
<1>6. Held' \in {Held, Held \cup {cursor}}
  BY <1>1, <1>4, <1>5 DEF Acting
<1>7. cursor - 1 < arrived /\ cursor' - 1 = (cursor - 1) + 1 /\ (cursor - 1) + 1 = cursor
  BY <1>1, <1>2
<1>8. Promised!Take
  BY <1>1, <1>6, <1>7 DEF Promised!Take
<1> QED BY <1>8 DEF Promised!MailNext

\* The actions of the loop on the update in hand.
LEMMA DispatchRefines ==
    ASSUME ReceiverInv, ReceiverInv', Inline \/ LaunchUpdate \/ BeginTurn \/ CancelTurn \/ ControlAlone
    PROVE  Promised!MailNext
<1>1. /\ UNCHANGED <<arrived, cursor, waiting>> /\ stage \in Acting
      /\ stage' \notin Acting
      /\ Acts(hand) \/ effects' = effects
  BY DEF Inline, LaunchUpdate, BeginTurn, CancelTurn, ControlAlone, Asks, Acting, To, Rest, diskVars, commandQueueVars
<1>2. hand \in Held /\ Held' = Held \ {hand} /\ Held' \subseteq Held
  BY <1>1, HandGivesUp
<1> QED BY <1>1, <1>2, LosingStep, ActingStep

\* A command that waited is run: the only one of its number.
LEMMA CommandRefines ==
    ASSUME ReceiverInv, ReceiverInv', RunCommand
    PROVE  Promised!MailNext
<1>1. /\ waiting # <<>> /\ waiting' = Tail(waiting) /\ Acts(Head(waiting)) /\ waiting \in Seq(Update)
      /\ UNCHANGED <<arrived, cursor, hand, stage>> /\ WaitingInv
  BY DEF RunCommand, loopVars, diskVars, ReceiverInv, ReceiverTypes
<1>2. /\ Len(waiting) \in Nat /\ Len(waiting) # 0 /\ Head(waiting) = waiting[1]
      /\ Len(waiting') = Len(waiting) - 1 /\ \A i \in 1..Len(waiting') : waiting'[i] = waiting[i + 1]
  BY <1>1, HeadTailProperties, LenProperties, EmptySeq
<1>3. \A i \in 1..Len(waiting) : waiting[i] = waiting[1] <=> i = 1
  BY <1>1, <1>2 DEF WaitingInv
<1>4. Head(waiting) \in Queued
  BY <1>2 DEF Queued
<1>5. Queued' = Queued \ {Head(waiting)}
  <2>1. \A i \in 1..Len(waiting') : i + 1 \in 1..Len(waiting) /\ i + 1 # 1
    BY <1>2
  <2>2. \A i \in 1..Len(waiting) : i # 1 => i - 1 \in 1..Len(waiting') /\ (i - 1) + 1 = i
    BY <1>2
  <2>3. Queued' \subseteq Queued \ {Head(waiting)}
    BY <1>2, <1>3, <2>1 DEF Queued
  <2>4. ASSUME NEW i \in 1..Len(waiting), i # 1 PROVE waiting[i] \in Queued'
    <3>1. i - 1 \in 1..Len(waiting') /\ waiting'[i - 1] = waiting[i]
      BY <1>2, <2>2, <2>4
    <3> QED BY <3>1 DEF Queued
  <2>5. Queued \ {Head(waiting)} \subseteq Queued'
    BY <1>2, <2>4 DEF Queued
  <2> QED BY <2>3, <2>5
<1>6. /\ Held = (IF stage \in Acting THEN {hand} ELSE {}) \cup Queued
      /\ stage \in Acting => hand \notin Queued
  BY HeldUpdates
<1>7. Held' = (IF stage \in Acting THEN {hand} ELSE {}) \cup Queued'
  BY <1>1, HeldUpdatesNext
<1> QED BY <1>1, <1>4, <1>5, <1>6, <1>7, ActingStep

\* A command joins the queue: it is held as before.
LEMMA EnqueueRefines ==
    ASSUME ReceiverInv, ReceiverInv', Enqueue
    PROVE  Promised!MailNext
<1>1. /\ stage \in Acting /\ UNCHANGED <<arrived, cursor, effects>> /\ waiting \in Seq(Update) /\ hand \in Update
      /\ stage' \notin Acting
      /\ waiting' = waiting \/ waiting' = Append(waiting, hand)
  BY DEF Enqueue, Asks, Acting, To, Rest, diskVars, historyVars, ReceiverInv, ReceiverTypes, PlaceInv
<1>2. CASE waiting' = waiting
  BY <1>1, <1>2, HandGivesUp, LosingStep
<1>3. CASE waiting' = Append(waiting, hand)
  <2>1. /\ Len(waiting) \in Nat /\ Len(waiting') = Len(waiting) + 1
        /\ \A i \in 1..Len(waiting) : waiting'[i] = waiting[i]
        /\ waiting'[Len(waiting) + 1] = hand
    BY <1>1, <1>3, AppendProperties, LenProperties
  <2>2. \A i \in 1..Len(waiting') : i \in 1..Len(waiting) \/ i = Len(waiting) + 1
    BY <2>1
  <2>3. Queued' \subseteq Queued \cup {hand}
    BY <2>1, <2>2 DEF Queued
  <2>4. Held = {hand} \cup Queued
    BY <1>1, HeldUpdates
  <2>5. Held' = Queued'
    BY <1>1, HeldUpdatesNext
  <2> QED BY <1>1, <2>3, <2>4, <2>5, LosingStep
<1> QED BY <1>2, <1>3 DEF Enqueue

\* Every other step takes nothing and acts on nothing; a process that ends gives all up.
LEMMA OtherStepsRefine ==
    ASSUME ReceiverInv, ReceiverInv',
           \/ Start \/ Exit \/ HandOver \/ Claim \/ TakeFails \/ Accept \/ BeginReply \/ EndReply \/ CompleteReply
           \/ AnswerCommand \/ FinishTurn \/ EndCommand \/ TurnSends \/ TurnEnds
    PROVE  Promised!MailNext
<1>1. UNCHANGED <<arrived, cursor, effects>>
  BY DEF Start, Exit, HandOver, Claim, TakeFails, Accept, BeginReply, EndReply, CompleteReply, AnswerCommand,
         FinishTurn, EndCommand, TurnSends, TurnEnds, diskVars, historyVars
<1>2. CASE Exit
  <2>1. waiting' = <<>> /\ stage' = "none"
    BY <1>2 DEF Exit, Rest, To
  <2>2. Len(waiting') = 0
    BY <2>1, EmptySeq
  <2>3. Queued' = {}
    BY <2>2 DEF Queued
  <2>4. Held' = {}
    BY <2>1, <2>3, HeldUpdatesNext DEF Acting
  <2> QED BY <1>1, <2>4, LosingStep
<1>3. CASE Start \/ EndCommand \/ TurnSends \/ TurnEnds
  <2>1. UNCHANGED <<waiting, stage, hand>>
    BY <1>3 DEF Start, EndCommand, TurnSends, TurnEnds, loopVars, commandQueueVars
  <2> QED BY <1>1, <2>1, HandGivesUp, LosingStep
<1>4. CASE HandOver \/ Claim \/ TakeFails \/ AnswerCommand
  <2>1. waiting' = waiting /\ stage' \notin Acting
    BY <1>4 DEF HandOver, Claim, TakeFails, AnswerCommand, To, Rest, commandQueueVars, Acting
  <2> QED BY <1>1, <2>1, HandGivesUp, LosingStep
<1>5. CASE Accept \/ BeginReply \/ EndReply \/ CompleteReply
  <2>1. waiting' = waiting /\ (stage' \in Acting => stage \in Acting /\ hand' = hand)
    BY <1>5 DEF Accept, BeginReply, EndReply, CompleteReply, Asks, To, Rest, commandQueueVars, Acting
  <2> QED BY <1>1, <2>1, HandGivesUp, LosingStep
<1>6. CASE FinishTurn
  <2>1. waiting' = waiting
    BY <1>6 DEF FinishTurn, commandQueueVars
  <2>2. (hand' = hand /\ stage' = stage) \/ stage' = "reply"
    <3>1. CASE pending = 0
      BY <1>6, <3>1 DEF FinishTurn
    <3>2. CASE pending # 0 /\ Free
      BY <1>6, <3>2 DEF FinishTurn, To
    <3>3. CASE pending # 0 /\ ~Free
      BY <1>6, <3>3 DEF FinishTurn
    <3> QED BY <3>1, <3>2, <3>3
  <2>3. stage' \in Acting => stage \in Acting /\ hand' = hand
    BY <2>2 DEF Acting
  <2> QED BY <1>1, <2>1, <2>3, HandGivesUp, LosingStep
<1> QED BY <1>2, <1>3, <1>4, <1>5, <1>6

LEMMA MailStep ==
    ASSUME ReceiverInv, ReceiverInv', ReceiverNext
    PROVE  Promised!MailNext
<1>1. CASE Arrive
  <2>1. /\ arrived < UpdateBound /\ arrived' = arrived + 1
        /\ UNCHANGED <<cursor, effects, waiting, stage, hand>>
    BY <1>1 DEF Arrive, diskVars, loopVars, commandQueueVars
  <2>2. Held' = Held
    BY <2>1, HandGivesUp
  <2> QED BY <2>1, <2>2 DEF Promised!MailNext, Promised!Send
<1> QED BY <1>1, TakeRefines, DispatchRefines, CommandRefines, EnqueueRefines, OtherStepsRefine DEF ReceiverNext, LoopStep

LEMMA MailStarts == ReceiverInit => Promised!MailInit
<1> SUFFICES ASSUME ReceiverInit PROVE Promised!MailInit
  OBVIOUS
<1>1. waiting = <<>> /\ stage = "none" /\ ReceiverInv
  BY ReceiverInitInv DEF ReceiverInit
<1>2. Queued = {}
  <2>1. Len(waiting) = 0
    BY <1>1, EmptySeq
  <2> QED BY <2>1 DEF Queued
<1>3. Held = {}
  BY <1>1, <1>2, HeldUpdates DEF Acting
<1>4. cursor - 1 = 0
  BY DEF ReceiverInit
<1> QED BY <1>3, <1>4 DEF ReceiverInit, Promised!MailInit, Update

LEMMA MailStutters ==
    ASSUME UNCHANGED receiverVars
    PROVE  UNCHANGED Promised!mailVars
BY DEF receiverVars, diskVars, loopVars, commandQueueVars, historyVars, Promised!mailVars, Held

-----------------------------------------------------------------------------
(***************************************************************************)
(* The monitor                                                             *)
(***************************************************************************)

\* One monitor at a time observes, and only the one that holds the lock writes.
WatchInv ==
    /\ watch \in [Monitor -> {"off", "waiting", "idle", "persist"}]
    /\ watcher \in Slots(Monitor)
    /\ \A m \in Monitor : watch[m] \in {"idle", "persist"} <=> watcher = {m}
    /\ observed \in Slots(World)
    /\ \A m \in Monitor : watch[m] = "persist" => observed # {}

\* A diagnostic is active exactly while the last outcome that could be told was a problem,
\* and the log of an observation that calls a side ready has none of that side.
ActiveDiagnosticsAreTold ==
    /\ diagnostics \subseteq Code
    /\ \A c \in Code : c \in diagnostics <=> lastKnown[c] = "problem"
    /\ \A f \in latest : /\ FrontendHealth(f) = "ready" => diagnostics \cap FrontendCodes = {}
                         /\ BackendHealth(f) = "ready" => diagnostics \cap BackendCodes = {}

\* An alert of the log.
Alert == [code : Code, raised : BOOLEAN]

\* The alerts of a code alternate, and the last one says whether it is active.
Alternates(s, open) ==
    \A i \in DOMAIN s :
        \/ \E k \in DOMAIN s : /\ k > i /\ s[k].code = s[i].code /\ s[k].raised # s[i].raised
                               /\ \A n \in DOMAIN s : s[n].code = s[i].code => n <= i \/ n >= k
        \/ /\ \A n \in DOMAIN s : s[n].code = s[i].code => n <= i
           /\ s[i].raised <=> s[i].code \in open

\* What is active is in the log, unless that is full.
Shows(s, open) == \A c \in open : (\E i \in DOMAIN s : s[i].code = c) \/ Len(s) >= AlertLimit

\* The log tells what is active, as far as it reaches back.
LogInv == /\ alerts \in Seq(Alert) /\ Len(alerts) <= AlertLimit
          /\ Alternates(alerts, diagnostics) /\ Shows(alerts, diagnostics)

MonitorInv == WatchInv /\ ActiveDiagnosticsAreTold /\ LogInv

\* A side that is called ready has no problem and nothing that could not be told.
LEMMA ReadySides ==
    ASSUME NEW f
    PROVE  /\ FrontendHealth(f) = "ready" => FrontendCodes \cap Problems(f) = {} /\ FrontendCodes \subseteq Healthy(f)
           /\ BackendHealth(f) = "ready" => BackendCodes \cap Problems(f) = {} /\ BackendCodes \subseteq Healthy(f)
<1>1. ASSUME NEW codes, NEW unavailable, NEW disabled \in BOOLEAN,
             Classified(f, codes, unavailable, disabled) = "ready"
      PROVE  ~disabled /\ Problems(f) \cap codes = {} /\ Unknowns(f) \cap codes = {}
  BY <1>1 DEF Classified
<1>2. FrontendCodes \subseteq Code /\ FrontendCodes \cap BackendCodes = {}
  BY DEF FrontendCodes
<1>3. BackendCodes \subseteq Code
  <2>1. \A i \in 1..17 : i \in DOMAIN Logged
    BY DEF Logged
  <2>2. BackendCodes = {Logged[12], Logged[11], Logged[4], Logged[5], Logged[3]}
    BY DEF Logged, BackendCodes, DispatchCodes
  <2> QED BY <2>1, <2>2 DEF Code
<1>4. ASSUME FrontendHealth(f) = "ready"
      PROVE  FrontendCodes \cap Problems(f) = {} /\ FrontendCodes \subseteq Healthy(f)
  <2>1. /\ f.chatIntent # "off" /\ Problems(f) \cap FrontendCodes = {} /\ Unknowns(f) \cap FrontendCodes = {}
    BY <1>1, <1>4 DEF FrontendHealth
  <2> QED BY <1>2, <2>1 DEF Healthy, Disabled
<1>5. ASSUME BackendHealth(f) = "ready"
      PROVE  BackendCodes \cap Problems(f) = {} /\ BackendCodes \subseteq Healthy(f)
  <2>1. /\ f.controllerIntent # "off" /\ Problems(f) \cap BackendCodes = {} /\ Unknowns(f) \cap BackendCodes = {}
    BY <1>1, <1>5 DEF BackendHealth
  <2> QED BY <1>2, <1>3, <2>1 DEF Healthy, Disabled
<1> QED BY <1>4, <1>5

LEMMA EveryCode ==
    /\ Code = {"active_request_stalled", "ai_recovery_required", "backend_dispatch_error",
               "backend_dispatch_status_unreadable", "backend_dispatch_unavailable", "chat_intent_unreadable",
               "chat_service_state_unreadable", "chat_service_status_unreadable", "chat_service_unregistered",
               "controller_intent_unreadable", "controller_probe_failed", "controller_unavailable",
               "poll_progress_stalled", "receiver_state_unreadable", "receiver_unavailable",
               "supervisor_state_unreadable", "supervisor_unavailable"}
    /\ BackendCodes \subseteq Code
<1>1. DOMAIN Logged = 1..17
  BY DEF Logged
<1>2. 1..17 = {1, 2, 3, 4, 5, 6, 7, 8, 9, 10, 11, 12, 13, 14, 15, 16, 17}
  OBVIOUS
<1>3. Code = {Logged[1], Logged[2], Logged[3], Logged[4], Logged[5], Logged[6], Logged[7], Logged[8], Logged[9],
              Logged[10], Logged[11], Logged[12], Logged[13], Logged[14], Logged[15], Logged[16], Logged[17]}
  BY <1>1, <1>2 DEF Code
<1>4. Code = {"active_request_stalled", "ai_recovery_required", "backend_dispatch_error",
              "backend_dispatch_status_unreadable", "backend_dispatch_unavailable", "chat_intent_unreadable",
              "chat_service_state_unreadable", "chat_service_status_unreadable", "chat_service_unregistered",
              "controller_intent_unreadable", "controller_probe_failed", "controller_unavailable",
              "poll_progress_stalled", "receiver_state_unreadable", "receiver_unavailable",
              "supervisor_state_unreadable", "supervisor_unavailable"}
  BY <1>3 DEF Logged
<1> QED BY <1>4 DEF BackendCodes, DispatchCodes

LEMMA ProblemsHaveCodes ==
    ASSUME NEW f \in Facts
    PROVE  Problems(f) \subseteq Code
<1>1. /\ f.chatIntent \in {"on", "off", "unreadable"} /\ f.registration \in {"unknown", "absent", "present"}
      /\ f.supervisor \in {"alive", "dead", "unreadable"} /\ f.receiver \in {"alive", "dead", "unreadable"}
  BY DEF Facts
<1>2. FrontendProblems(f) \subseteq Code
  <2>1. CASE f.chatIntent = "on"
    BY <1>1, <2>1, EveryCode DEF FrontendProblems
  <2> QED BY <1>1, <2>1, EveryCode DEF FrontendProblems
<1>3. BackendProblems(f) \subseteq Code
  BY EveryCode DEF BackendProblems
<1> QED BY <1>2, <1>3 DEF Problems

\* The codes are listed each of them once.
LEMMA LoggedOnce == /\ DOMAIN Logged = 1..17 /\ \A i \in 1..17 : Logged[i] \in Code
                    /\ \A c \in Code : \E i \in 1..17 : Logged[i] = c
                    /\ \A i, k \in 1..17 : Logged[i] = Logged[k] => i = k
<1>1. DOMAIN Logged = 1..17
  BY DEF Logged
<1>2. \A i, k \in 1..17 : Logged[i] = Logged[k] => i = k
  BY DEF Logged
<1> QED BY <1>1, <1>2 DEF Code

\* The members of s up to i.
UpTo(s, i) == {k \in s : k <= i}

\* The elements of a set of numbers are counted from the least.
LEMMA Ranks ==
    ASSUME NEW n \in Nat, NEW s \in SUBSET (1..n)
    PROVE  /\ Cardinality(s) \in Nat
           /\ \A i \in s : Cardinality(UpTo(s, i)) \in 1..Cardinality(s)
           /\ \A i, j \in s : Cardinality(UpTo(s, i)) = Cardinality(UpTo(s, j)) => i = j
           /\ \A m \in 1..Cardinality(s) : \E i \in s : Cardinality(UpTo(s, i)) = m
<1>1. IsFiniteSet(s)
  <2>1. 1 \in Int /\ n \in Int
    OBVIOUS
  <2>2. IsFiniteSet(1..n)
    BY <2>1, FS_Interval
  <2> QED BY <2>2, FS_Subset
<1>2. PICK most \in Nat : most = Cardinality(s)
  BY <1>1, FS_CardinalityType
<1>3. ASSUME NEW i \in s
      PROVE  IsFiniteSet(UpTo(s, i)) /\ Cardinality(UpTo(s, i)) \in 1..most
  <2>1. UpTo(s, i) \in SUBSET s /\ i \in UpTo(s, i)
    BY DEF UpTo
  <2>2. IsFiniteSet(UpTo(s, i)) /\ Cardinality(UpTo(s, i)) <= most
    BY <1>1, <1>2, <2>1, FS_Subset
  <2>3. PICK m \in Nat : m = Cardinality(UpTo(s, i))
    BY <2>2, FS_CardinalityType
  <2>4. m # 0
    BY <2>1, <2>2, <2>3, FS_EmptySet
  <2> QED BY <2>2, <2>3, <2>4
<1>4. ASSUME NEW i \in s, NEW j \in s, i < j PROVE Cardinality(UpTo(s, i)) # Cardinality(UpTo(s, j))
  <2>1. i \in Int /\ j \in Int /\ \A k \in s : k \in Int
    OBVIOUS
  <2>2. UpTo(s, i) \in SUBSET UpTo(s, j) /\ j \notin UpTo(s, i) /\ j \in UpTo(s, j)
    <3>1. ~(j <= i) /\ j <= j
      BY <1>4, <2>1
    <3>2. ASSUME NEW k \in s, k <= i PROVE k <= j
      BY <1>4, <2>1, <3>2
    <3> QED BY <3>1, <3>2 DEF UpTo
  <2> QED BY <1>3, <2>2, FS_Subset
<1>5. \A i, j \in s : Cardinality(UpTo(s, i)) = Cardinality(UpTo(s, j)) => i = j
  <2> SUFFICES ASSUME NEW i \in s, NEW j \in s, Cardinality(UpTo(s, i)) = Cardinality(UpTo(s, j)) PROVE i = j
    OBVIOUS
  <2>1. ~(i < j) /\ ~(j < i)
    BY <1>4
  <2> QED BY <2>1
<1>6. ASSUME NEW m \in 1..most PROVE \E i \in s : Cardinality(UpTo(s, i)) = m
  <2> SUFFICES ASSUME \A i \in s : Cardinality(UpTo(s, i)) # m PROVE FALSE
    OBVIOUS
  <2>1. PICK rank : rank = [i \in s |-> Cardinality(UpTo(s, i))]
    OBVIOUS
  <2>2. rank \in [s -> (1..most) \ {m}] /\ \A i \in s : rank[i] = Cardinality(UpTo(s, i))
    BY <1>3, <2>1
  <2>3. IsFiniteSet(1..most) /\ Cardinality(1..most) = most
    <3>1. 1 \in Int /\ most \in Int /\ most >= 1
      BY <1>6
    <3> QED BY <3>1, FS_Interval
  <2>4. IsFiniteSet((1..most) \ {m}) /\ Cardinality((1..most) \ {m}) = most - 1
    BY <2>3, <1>6, FS_RemoveElement
  <2>5. Cardinality((1..most) \ {m}) < Cardinality(s)
    BY <1>2, <2>4
  <2>6. \E i, j \in s : i # j /\ rank[i] = rank[j]
    <3>1. PICK T : T = (1..most) \ {m}
      OBVIOUS
    <3>2. IsFiniteSet(T) /\ Cardinality(T) < Cardinality(s) /\ rank \in [s -> T]
      BY <2>2, <2>4, <2>5, <3>1
    <3> HIDE <3>1
    <3> QED BY <1>1, <3>2, FS_PigeonHole
  <2> QED BY <1>5, <2>2, <2>6
<1> QED BY <1>2, <1>3, <1>5, <1>6

\* Some codes in order are each of them once.
LEMMA InOrderFacts ==
    ASSUME NEW codes \in SUBSET Code
    PROVE  \E most \in Nat :
              /\ InOrder(codes) \in [1..most -> codes]
              /\ \A n, m \in 1..most : InOrder(codes)[n] = InOrder(codes)[m] => n = m
              /\ \A c \in codes : \E n \in 1..most : InOrder(codes)[n] = c
<1>1. PICK at \in SUBSET (1..17) : at = {i \in DOMAIN Logged : Logged[i] \in codes}
  BY LoggedOnce
<1>2. \A c \in codes : \E i \in at : Logged[i] = c
  BY <1>1, LoggedOnce
<1>3. \A i \in at : Logged[i] \in codes
  BY <1>1
<1>4. PICK most \in Nat : most = Cardinality(at)
  BY Ranks
<1>5. /\ \A i \in at : Cardinality(UpTo(at, i)) \in 1..most
      /\ \A i, j \in at : Cardinality(UpTo(at, i)) = Cardinality(UpTo(at, j)) => i = j
      /\ \A n \in 1..most : \E i \in at : Cardinality(UpTo(at, i)) = n
  <2>1. 17 \in Nat
    OBVIOUS
  <2>2. \A i \in at : Cardinality(UpTo(at, i)) \in 1..Cardinality(at)
    BY <2>1, Ranks
  <2>3. \A i, j \in at : Cardinality(UpTo(at, i)) = Cardinality(UpTo(at, j)) => i = j
    BY <2>1, Ranks
  <2>4. \A n \in 1..Cardinality(at) : \E i \in at : Cardinality(UpTo(at, i)) = n
    BY <2>1, Ranks
  <2> QED BY <1>4, <2>2, <2>3, <2>4
<1> DEFINE place(n) == CHOOSE i \in at : Cardinality(UpTo(at, i)) = n
<1>6. \A n \in 1..most : place(n) \in at /\ Cardinality(UpTo(at, place(n))) = n
  BY <1>5
<1>7. InOrder(codes) = [n \in 1..most |-> Logged[place(n)]]
  BY <1>1, <1>4 DEF InOrder, UpTo
<1> HIDE DEF place
<1>8. InOrder(codes) \in [1..most -> codes]
  BY <1>3, <1>6, <1>7
<1>9. ASSUME NEW n \in 1..most, NEW m \in 1..most, InOrder(codes)[n] = InOrder(codes)[m] PROVE n = m
  <2>1. Logged[place(n)] = Logged[place(m)]
    BY <1>7, <1>9
  <2>2. place(n) \in 1..17 /\ place(m) \in 1..17
    BY <1>6
  <2>3. place(n) = place(m)
    BY <2>1, <2>2, LoggedOnce
  <2> QED BY <1>6, <2>3
<1>10. ASSUME NEW c \in codes PROVE \E n \in 1..most : InOrder(codes)[n] = c
  <2>1. PICK i \in at : Logged[i] = c
    BY <1>2
  <2>2. PICK n \in 1..most : n = Cardinality(UpTo(at, i))
    BY <1>5
  <2>3. place(n) = i
    BY <1>5, <1>6, <2>2
  <2> QED BY <1>7, <2>1, <2>3
<1> QED BY <1>8, <1>9, <1>10

\* The newest alerts are the last ones; only a full log leaves some out.
LEMMA NewestFacts ==
    ASSUME NEW s \in Seq(Alert), NEW n \in Nat \ {0}
    PROVE  \E size \in Nat, d \in Nat :
              /\ d <= size /\ size = Len(s) /\ Newest(s, n) \in Seq(Alert) /\ Len(Newest(s, n)) = size - d
              /\ size - d <= n /\ (d # 0 => size - d = n)
              /\ \A j \in 1..(size - d) : Newest(s, n)[j] = s[j + d]
<1>1. PICK size \in Nat : size = Len(s)
  BY LenProperties
<1>2. PICK r : r = Newest(s, n)
  OBVIOUS
<1>3. PICK d \in Nat, l \in Nat :
         /\ d <= size /\ l = size - d /\ l <= n /\ (d # 0 => l = n)
         /\ r \in Seq(Alert) /\ Len(r) = l /\ \A j \in 1..l : r[j] = s[j + d]
  <2>1. CASE size <= n
    <3>1. r = s /\ size = size - 0 /\ 0 <= size
      BY <1>1, <1>2, <2>1 DEF Newest
    <3>2. r \in Seq(Alert) /\ Len(r) = size /\ \A j \in 1..size : r[j] = s[j + 0]
      BY <1>1, <3>1
    <3> QED BY <2>1, <3>1, <3>2
  <2>2. CASE size > n
    <3>1. PICK d \in Nat : d = size - n /\ d # 0 /\ d <= size /\ n = size - d
      BY <2>2
    <3>2. r = SubSeq(s, d + 1, size)
      BY <1>1, <1>2, <2>2, <3>1 DEF Newest
    <3>3. /\ d + 1 \in 1..(size + 1) /\ size \in (d + 1 - 1)..size /\ size - (d + 1) + 1 = n
          /\ \A j \in 1..n : j + (d + 1) - 1 = j + d
      BY <3>1
    <3>4. \A j \in 1..n : SubSeq(s, d + 1, size)[j] = s[j + (d + 1) - 1]
      BY <1>1, <3>1, <3>3, SubSeqProperties
    <3>5. SubSeq(s, d + 1, size) \in Seq(Alert) /\ Len(SubSeq(s, d + 1, size)) = n
      BY <1>1, <3>1, <3>3, SubSeqProperties
    <3>6. r \in Seq(Alert) /\ Len(r) = n /\ \A j \in 1..n : r[j] = s[j + d]
      BY <3>2, <3>3, <3>4, <3>5
    <3>7. n <= n
      OBVIOUS
    <3> QED BY <3>1, <3>6, <3>7
  <2> QED BY <2>1, <2>2
<1>4. /\ d <= size /\ size = Len(s) /\ r \in Seq(Alert) /\ Len(r) = size - d
      /\ size - d <= n /\ (d # 0 => size - d = n)
      /\ \A j \in 1..(size - d) : r[j] = s[j + d]
  BY <1>1, <1>3
<1> QED BY <1>2, <1>4

\* Leaving out the oldest alerts keeps the rest telling.
LEMMA CutKeeps ==
    ASSUME NEW s \in Seq(Alert), NEW open, Alternates(s, open), Shows(s, open)
    PROVE  /\ Newest(s, AlertLimit) \in Seq(Alert) /\ Len(Newest(s, AlertLimit)) <= AlertLimit
           /\ Alternates(Newest(s, AlertLimit), open) /\ Shows(Newest(s, AlertLimit), open)
<1>1. PICK r : r = Newest(s, AlertLimit)
  OBVIOUS
<1>2. PICK size \in Nat, d \in Nat :
         /\ d <= size /\ size = Len(s) /\ r \in Seq(Alert) /\ Len(r) = size - d
         /\ size - d <= AlertLimit /\ (d # 0 => size - d = AlertLimit)
         /\ \A j \in 1..(size - d) : r[j] = s[j + d]
  BY <1>1, MonitorAssumption, NewestFacts
<1>3. DOMAIN r = 1..(size - d) /\ DOMAIN s = 1..size
  BY <1>2, LenProperties
<1>4. \A j \in 1..(size - d) : j + d \in 1..size
  BY <1>2
<1>5. ASSUME NEW i \in DOMAIN r
      PROVE  \/ \E k \in DOMAIN r : /\ k > i /\ r[k].code = r[i].code /\ r[k].raised # r[i].raised
                                    /\ \A n \in DOMAIN r : r[n].code = r[i].code => n <= i \/ n >= k
             \/ /\ \A n \in DOMAIN r : r[n].code = r[i].code => n <= i
                /\ r[i].raised <=> r[i].code \in open
  <2>1. i + d \in DOMAIN s /\ r[i] = s[i + d]
    BY <1>2, <1>3, <1>4
  <2>2. CASE \E k \in DOMAIN s : /\ k > i + d /\ s[k].code = s[i + d].code /\ s[k].raised # s[i + d].raised
                                 /\ \A n \in DOMAIN s : s[n].code = s[i + d].code => n <= i + d \/ n >= k
    <3>1. PICK k \in DOMAIN s : /\ k > i + d /\ s[k].code = s[i + d].code /\ s[k].raised # s[i + d].raised
                                /\ \A n \in DOMAIN s : s[n].code = s[i + d].code => n <= i + d \/ n >= k
      BY <2>2
    <3>2. PICK l \in 1..(size - d) : l + d = k /\ l > i
      <4>1. k \in 1..size /\ i \in 1..(size - d)
        BY <1>3
      <4>2. k - d \in 1..(size - d) /\ (k - d) + d = k /\ k - d > i
        BY <1>2, <3>1, <4>1
      <4> QED BY <4>2
    <3>3. r[l] = s[k] /\ l \in DOMAIN r
      BY <1>2, <1>3, <3>2
    <3>4. ASSUME NEW n \in DOMAIN r, r[n].code = r[i].code PROVE n <= i \/ n >= l
      <4>1. n \in 1..(size - d) /\ n + d \in DOMAIN s /\ r[n] = s[n + d]
        BY <1>2, <1>3, <1>4
      <4>2. n + d <= i + d \/ n + d >= k
        BY <2>1, <3>1, <3>4, <4>1
      <4>3. i \in 1..(size - d)
        BY <1>3
      <4> QED BY <3>2, <4>1, <4>2, <4>3
    <3> QED BY <2>1, <3>1, <3>2, <3>3, <3>4
  <2>3. CASE /\ \A n \in DOMAIN s : s[n].code = s[i + d].code => n <= i + d
             /\ s[i + d].raised <=> s[i + d].code \in open
    <3>1. ASSUME NEW n \in DOMAIN r, r[n].code = r[i].code PROVE n <= i
      <4>1. n \in 1..(size - d) /\ n + d \in DOMAIN s /\ r[n] = s[n + d]
        BY <1>2, <1>3, <1>4
      <4>2. n + d <= i + d
        BY <2>1, <2>3, <3>1, <4>1
      <4>3. i \in 1..(size - d)
        BY <1>3
      <4> QED BY <4>1, <4>2, <4>3
    <3> QED BY <2>1, <2>3, <3>1
  <2> QED BY <2>1, <2>2, <2>3 DEF Alternates
<1>6. Alternates(r, open)
  BY <1>5 DEF Alternates
<1>7. Shows(r, open)
  <2>1. CASE d # 0
    BY <1>2, <2>1, MonitorAssumption DEF Shows
  <2>2. CASE d = 0
    <3>1. \A j \in DOMAIN s : j \in DOMAIN r /\ r[j] = s[j]
      <4>1. ASSUME NEW j \in 1..size PROVE j + d = j /\ j \in 1..(size - d)
        BY <2>2
      <4> QED BY <1>2, <1>3, <4>1
    <3>2. Len(r) = Len(s)
      BY <1>2, <2>2
    <3> QED BY <3>1, <3>2 DEF Shows
  <2> QED BY <2>1, <2>2
<1> QED BY <1>1, <1>2, <1>6, <1>7

\* The alerts of the codes that changed, one for each.
Told(raised, resolved) ==
    LET new == InOrder(raised \cup resolved)
    IN  [i \in DOMAIN new |-> [code |-> new[i], raised |-> new[i] \in raised]]

LEMMA AddedFacts ==
    ASSUME NEW raised \in SUBSET Code, NEW resolved \in SUBSET Code
    PROVE  /\ Told(raised, resolved) \in Seq(Alert)
           /\ \A i \in DOMAIN Told(raised, resolved) :
                 /\ Told(raised, resolved)[i].code \in raised \cup resolved
                 /\ Told(raised, resolved)[i].raised <=> Told(raised, resolved)[i].code \in raised
           /\ \A i, k \in DOMAIN Told(raised, resolved) :
                 Told(raised, resolved)[i].code = Told(raised, resolved)[k].code => i = k
           /\ \A c \in raised \cup resolved :
                 \E i \in DOMAIN Told(raised, resolved) : Told(raised, resolved)[i].code = c
<1> DEFINE codes == raised \cup resolved
<1>1. codes \in SUBSET Code
  OBVIOUS
<1> HIDE DEF codes
<1>2. PICK most \in Nat : /\ InOrder(codes) \in [1..most -> codes]
                          /\ \A n, m \in 1..most : InOrder(codes)[n] = InOrder(codes)[m] => n = m
                          /\ \A c \in codes : \E n \in 1..most : InOrder(codes)[n] = c
  BY <1>1, InOrderFacts
<1>3. PICK new : new = InOrder(codes)
  OBVIOUS
<1>4. /\ new \in [1..most -> codes]
      /\ \A n, m \in 1..most : new[n] = new[m] => n = m
      /\ \A c \in codes : \E n \in 1..most : new[n] = c
  BY <1>2, <1>3
<1>5. DOMAIN new = 1..most /\ \A i \in 1..most : new[i] \in codes /\ new[i] \in Code
  BY <1>1, <1>4
<1>6. PICK added : added = [i \in DOMAIN new |-> [code |-> new[i], raised |-> new[i] \in raised]]
  OBVIOUS
<1>7. \A i \in 1..most : /\ added[i].code = new[i] /\ (added[i].raised <=> new[i] \in raised)
                         /\ added[i] \in Alert
  <2> SUFFICES ASSUME NEW i \in 1..most
               PROVE  /\ added[i].code = new[i] /\ (added[i].raised <=> new[i] \in raised)
                      /\ added[i] \in Alert
    OBVIOUS
  <2>1. PICK b : b = (new[i] \in raised)
    OBVIOUS
  <2>2. added[i] = [code |-> new[i], raised |-> b]
    BY <1>5, <1>6, <2>1
  <2>3. b \in BOOLEAN
    BY <2>1, SMT
  <2>4. added[i].code = new[i] /\ added[i].raised = b
    BY <2>2
  <2>5. b <=> new[i] \in raised
    BY <2>1, Zenon
  <2>6. added[i].raised <=> new[i] \in raised
    BY <2>4, <2>5
  <2>7. added[i] \in Alert
    BY <1>5, <2>2, <2>3 DEF Alert
  <2> QED BY <2>4, <2>6, <2>7
<1>8. added \in [1..most -> Alert] /\ DOMAIN added = 1..most
  BY <1>5, <1>6, <1>7
<1>9. added \in Seq(Alert)
  BY <1>8, SeqDef
<1>10. /\ \A i \in DOMAIN added : added[i].code \in codes /\ (added[i].raised <=> added[i].code \in raised)
       /\ \A i, k \in DOMAIN added : added[i].code = added[k].code => i = k
       /\ \A c \in codes : \E i \in DOMAIN added : added[i].code = c
  BY <1>4, <1>5, <1>7, <1>8
<1> QED BY <1>6, <1>9, <1>10, <1>3 DEF codes, Told

\* Each code that changes adds one alert, which is its last one.
LEMMA AppendKeeps ==
    ASSUME NEW s \in Seq(Alert), NEW open \in SUBSET Code, Alternates(s, open), Shows(s, open),
           NEW raised \in SUBSET (Code \ open), NEW resolved \in SUBSET open,
           NEW added \in Seq(Alert),
           \A i \in DOMAIN added : /\ added[i].code \in raised \cup resolved
                                   /\ added[i].raised <=> added[i].code \in raised,
           \A i, k \in DOMAIN added : added[i].code = added[k].code => i = k,
           \A c \in raised \cup resolved : \E i \in DOMAIN added : added[i].code = c
    PROVE  /\ s \o added \in Seq(Alert)
           /\ Alternates(s \o added, (open \ resolved) \cup raised)
           /\ Shows(s \o added, (open \ resolved) \cup raised)
<1> DEFINE now == (open \ resolved) \cup raised
<1>1. PICK most \in Nat : most = Len(added) /\ DOMAIN added = 1..most
  BY LenProperties
<1>2. PICK new : new = [i \in 1..most |-> added[i].code]
  OBVIOUS
<1>3. /\ \A n, m \in 1..most : new[n] = new[m] => n = m
      /\ \A c \in raised \cup resolved : \E n \in 1..most : new[n] = c
  BY <1>1, <1>2
<1>4. \A i \in 1..most : new[i] \in raised \cup resolved
  BY <1>1, <1>2
<1>5. \A i \in 1..most : /\ added[i].code = new[i] /\ (added[i].raised <=> new[i] \in raised)
                         /\ added[i] \in Alert
  BY <1>1, <1>2, ElementOfSeq
<1>6. PICK size \in Nat : size = Len(s) /\ DOMAIN s = 1..size
  BY LenProperties
<1>7. (s \o added) \in Seq(Alert) /\ Len(s \o added) = size + most
  BY <1>1, <1>6, ConcatProperties
<1>8. PICK t \in Seq(Alert) : t = s \o added /\ Len(t) = size + most
  BY <1>7
<1>9. /\ DOMAIN t = 1..(size + most)
      /\ \A i \in 1..size : t[i] = s[i]
      /\ \A i \in 1..most : t[size + i] = added[i]
  <2>1. \A i \in 1..(size + most) : t[i] = IF i <= size THEN s[i] ELSE added[i - size]
    BY <1>1, <1>6, <1>8, ConcatProperties
  <2>2. ASSUME NEW i \in 1..most PROVE t[size + i] = added[i]
    <3>1. size + i \in 1..(size + most) /\ ~(size + i <= size) /\ (size + i) - size = i
      OBVIOUS
    <3> QED BY <2>1, <3>1
  <2>3. ASSUME NEW i \in 1..size PROVE t[i] = s[i]
    <3>1. i \in 1..(size + most) /\ i <= size
      OBVIOUS
    <3> QED BY <2>1, <3>1
  <2>4. DOMAIN t = 1..(size + most)
    BY <1>8, LenProperties
  <2> QED BY <2>2, <2>3, <2>4
<1>10. \A i \in DOMAIN t : i \in 1..size \/ \E k \in 1..most : i = size + k
  <2> SUFFICES ASSUME NEW i \in 1..(size + most) PROVE i \in 1..size \/ \E k \in 1..most : i = size + k
    BY <1>9
  <2>1. CASE i <= size
    BY <2>1
  <2>2. CASE ~(i <= size)
    <3>1. i - size \in 1..most /\ i = size + (i - size)
      BY <2>2
    <3> QED BY <3>1
  <2> QED BY <2>1, <2>2
<1>11. ASSUME NEW i \in 1..size
       PROVE  \/ \E k \in DOMAIN t : /\ k > i /\ t[k].code = t[i].code /\ t[k].raised # t[i].raised
                                     /\ \A n \in DOMAIN t : t[n].code = t[i].code => n <= i \/ n >= k
              \/ /\ \A n \in DOMAIN t : t[n].code = t[i].code => n <= i
                 /\ t[i].raised <=> t[i].code \in now
  <2>1. i \in DOMAIN s /\ t[i] = s[i] /\ s[i] \in Alert
    BY <1>6, <1>9, ElementOfSeq
  <2>2. CASE \E k \in DOMAIN s : /\ k > i /\ s[k].code = s[i].code /\ s[k].raised # s[i].raised
                                 /\ \A n \in DOMAIN s : s[n].code = s[i].code => n <= i \/ n >= k
    <3>1. PICK k \in 1..size : /\ k > i /\ s[k].code = s[i].code /\ s[k].raised # s[i].raised
                               /\ \A n \in 1..size : s[n].code = s[i].code => n <= i \/ n >= k
      BY <1>6, <2>2
    <3>2. k \in DOMAIN t /\ t[k] = s[k]
      BY <1>9, <3>1
    <3>3. ASSUME NEW n \in DOMAIN t, t[n].code = t[i].code PROVE n <= i \/ n >= k
      <4>1. CASE n \in 1..size
        BY <1>9, <2>1, <3>1, <3>3, <4>1
      <4>2. CASE \E m \in 1..most : n = size + m
        BY <3>1, <4>2
      <4> QED BY <1>10, <4>1, <4>2
    <3> QED BY <2>1, <3>1, <3>2, <3>3
  <2>3. CASE /\ \A n \in DOMAIN s : s[n].code = s[i].code => n <= i
             /\ s[i].raised <=> s[i].code \in open
    <3>1. CASE s[i].code \in raised \cup resolved
      <4>1. PICK p \in 1..most : new[p] = s[i].code
        BY <1>3, <3>1
      <4>2. /\ size + p \in DOMAIN t /\ size + p > i /\ t[size + p] = added[p]
            /\ added[p].code = s[i].code /\ (added[p].raised <=> s[i].code \in raised)
        <5>1. size + p \in 1..(size + most) /\ size + p > i
          OBVIOUS
        <5> QED BY <1>5, <1>9, <4>1, <5>1
      <4>3. added[p].raised # s[i].raised
        BY <2>3, <3>1, <4>2
      <4>4. ASSUME NEW n \in DOMAIN t, t[n].code = t[i].code PROVE n <= i \/ n >= size + p
        <5>1. CASE n \in 1..size
          BY <1>6, <1>9, <2>1, <2>3, <4>4, <5>1
        <5>2. CASE \E m \in 1..most : n = size + m
          <6>1. PICK m \in 1..most : n = size + m
            BY <5>2
          <6>2. new[m] = new[p]
            BY <1>5, <1>9, <2>1, <4>1, <4>4, <6>1
          <6>3. m = p
            BY <1>3, <6>2
          <6> QED BY <6>1, <6>3
        <5> QED BY <1>10, <5>1, <5>2
      <4> QED BY <2>1, <4>2, <4>3, <4>4
    <3>2. CASE s[i].code \notin raised \cup resolved
      <4>1. s[i].raised <=> s[i].code \in now
        BY <2>3, <3>2
      <4>2. ASSUME NEW n \in DOMAIN t, t[n].code = t[i].code PROVE n <= i
        <5>1. CASE n \in 1..size
          BY <1>6, <1>9, <2>1, <2>3, <4>2, <5>1
        <5>2. CASE \E m \in 1..most : n = size + m
          <6>1. PICK m \in 1..most : n = size + m
            BY <5>2
          <6>2. new[m] = s[i].code /\ new[m] \in raised \cup resolved
            BY <1>4, <1>5, <1>9, <2>1, <4>2, <6>1
          <6> QED BY <3>2, <6>2
        <5> QED BY <1>10, <5>1, <5>2
      <4> QED BY <2>1, <4>1, <4>2
    <3> QED BY <3>1, <3>2
  <2> QED BY <2>1, <2>2, <2>3 DEF Alternates
<1>12. ASSUME NEW p \in 1..most
       PROVE  /\ \A n \in DOMAIN t : t[n].code = t[size + p].code => n <= size + p
              /\ t[size + p].raised <=> t[size + p].code \in now
  <2>1. t[size + p].code = new[p] /\ (t[size + p].raised <=> new[p] \in raised) /\ new[p] \in raised \cup resolved
    BY <1>4, <1>5, <1>9
  <2>2. new[p] \in raised <=> new[p] \in now
    BY <2>1
  <2>3. ASSUME NEW n \in DOMAIN t, t[n].code = t[size + p].code PROVE n <= size + p
    <3>1. CASE n \in 1..size
      BY <3>1
    <3>2. CASE \E m \in 1..most : n = size + m
      <4>1. PICK m \in 1..most : n = size + m
        BY <3>2
      <4>2. new[m] = new[p]
        BY <1>5, <1>9, <2>1, <2>3, <4>1
      <4>3. m = p
        BY <1>3, <4>2
      <4> QED BY <4>1, <4>3
    <3> QED BY <1>10, <3>1, <3>2
  <2> QED BY <2>1, <2>2, <2>3
<1>13. Alternates(t, now)
  <2> HIDE DEF now
  <2> SUFFICES ASSUME NEW i \in DOMAIN t
               PROVE  \/ \E k \in DOMAIN t : /\ k > i /\ t[k].code = t[i].code /\ t[k].raised # t[i].raised
                                             /\ \A n \in DOMAIN t : t[n].code = t[i].code => n <= i \/ n >= k
                      \/ /\ \A n \in DOMAIN t : t[n].code = t[i].code => n <= i
                         /\ t[i].raised <=> t[i].code \in now
    BY DEF Alternates
  <2>1. CASE i \in 1..size
    BY <1>11, <2>1
  <2>2. CASE \E k \in 1..most : i = size + k
    <3>1. PICK p \in 1..most : i = size + p
      BY <2>2
    <3>2. /\ \A n \in DOMAIN t : t[n].code = t[size + p].code => n <= size + p
          /\ t[size + p].raised <=> t[size + p].code \in now
      BY <1>12
    <3> QED BY <3>1, <3>2
  <2> QED BY <1>10, <2>1, <2>2
<1>14. Shows(t, now)
  <2> SUFFICES ASSUME NEW c \in now PROVE (\E i \in DOMAIN t : t[i].code = c) \/ Len(t) >= AlertLimit
    BY DEF Shows
  <2>1. CASE c \in raised
    <3>1. PICK p \in 1..most : new[p] = c
      BY <1>3, <2>1
    <3>2. size + p \in DOMAIN t /\ t[size + p].code = c
      <4>1. size + p \in 1..(size + most)
        OBVIOUS
      <4> QED BY <1>5, <1>9, <3>1, <4>1
    <3> QED BY <3>2
  <2>2. CASE c \in open
    <3>1. CASE \E i \in DOMAIN s : s[i].code = c
      <4>1. PICK i \in 1..size : s[i].code = c
        BY <1>6, <3>1
      <4>2. i \in DOMAIN t /\ t[i] = s[i]
        BY <1>9
      <4> QED BY <4>1, <4>2
    <3>2. CASE Len(s) >= AlertLimit
      BY <1>6, <1>8, <3>2, MonitorAssumption
    <3> QED BY <2>2, <3>1, <3>2 DEF Shows
  <2> QED BY <2>1, <2>2
<1> QED BY <1>8, <1>13, <1>14

\* The processes of the monitor, and its lock.
LEMMA WatchSteps ==
    ASSUME MonitorInv, NEW m \in Monitor, StartMonitor(m) \/ LockMonitor(m) \/ Observe(m) \/ EndMonitor(m)
    PROVE  MonitorInv'
<1>1. WatchInv /\ ActiveDiagnosticsAreTold /\ LogInv /\ UNCHANGED <<diagnostics, lastKnown, latest, alerts>>
  BY DEF StartMonitor, LockMonitor, Observe, EndMonitor, MonitorInv
<1>2. ActiveDiagnosticsAreTold' /\ LogInv'
  BY <1>1 DEF ActiveDiagnosticsAreTold, LogInv, Alternates, Shows
<1>3. PICK to \in {"off", "waiting", "idle", "persist"} :
          /\ watch' = [watch EXCEPT ![m] = to]
          /\ \/ watch[m] = "off" /\ to = "waiting" /\ UNCHANGED <<watcher, observed>>
             \/ watch[m] = "waiting" /\ to = "idle" /\ watcher = {} /\ watcher' = {m} /\ observed' = observed
             \/ watch[m] = "waiting" /\ to = "off" /\ UNCHANGED <<watcher, observed>>
             \/ watch[m] = "idle" /\ to = "persist" /\ watcher' = watcher /\ \E f \in World : observed' = {f}
             \/ /\ watch[m] # "off" /\ to = "off" /\ watcher' = watcher \ {m}
                /\ observed' = IF m \in watcher THEN {} ELSE observed
  BY DEF StartMonitor, LockMonitor, Observe, EndMonitor
<1>4. \A n \in Monitor : watch'[n] = IF n = m THEN to ELSE watch[n]
  BY <1>1, <1>3 DEF WatchInv
<1>5. watch' \in [Monitor -> {"off", "waiting", "idle", "persist"}]
  BY <1>1, <1>3 DEF WatchInv
<1>6. watcher' \in Slots(Monitor) /\ observed' \in Slots(World)
  BY <1>1, <1>3 DEF WatchInv, Slots
<1>7. \A n \in Monitor : watch'[n] \in {"idle", "persist"} <=> watcher' = {n}
  BY <1>1, <1>3, <1>4 DEF WatchInv, Slots
<1>8. \A n \in Monitor : watch'[n] = "persist" => observed' # {}
  BY <1>1, <1>3, <1>4 DEF WatchInv, Slots
<1> QED BY <1>2, <1>5, <1>6, <1>7, <1>8 DEF MonitorInv, WatchInv

LEMMA PersistStep ==
    ASSUME MonitorInv, NEW m \in Monitor, Persist(m)
    PROVE  MonitorInv'
<1>1. PICK f \in World : observed = {f} /\ f \in Facts
  BY MonitorAssumption DEF Persist, MonitorInv, WatchInv, Slots
<1>2. (CHOOSE g \in observed : TRUE) = f
  BY <1>1
<1>3. /\ diagnostics' = (diagnostics \ ((Known(f) \ Problems(f)) \cap diagnostics)) \cup (Problems(f) \ diagnostics)
      /\ lastKnown' = [c \in Code |-> CASE c \in Problems(f) -> "problem"
                                        [] c \in Healthy(f) -> "healthy"
                                        [] OTHER -> lastKnown[c]]
      /\ latest' = {f} /\ observed' = {} /\ watch' = [watch EXCEPT ![m] = "idle"] /\ watcher' = watcher
      /\ watch[m] = "persist"
  BY <1>1, <1>2 DEF Persist
<1>4. Problems(f) \subseteq Code /\ Problems(f) \cap Healthy(f) = {} /\ Known(f) = Problems(f) \cup Healthy(f)
  BY <1>1, ProblemsHaveCodes DEF Healthy, Known
<1>5. diagnostics' = (diagnostics \ Healthy(f)) \cup Problems(f)
  BY <1>3, <1>4
<1>6. \A c \in Code : lastKnown'[c] = IF c \in Problems(f) THEN "problem"
                                      ELSE IF c \in Healthy(f) THEN "healthy" ELSE lastKnown[c]
  BY <1>3, <1>4
<1>7. ActiveDiagnosticsAreTold'
  <2>1. diagnostics' \subseteq Code /\ \A c \in Code : c \in diagnostics' <=> lastKnown'[c] = "problem"
    BY <1>4, <1>5, <1>6 DEF MonitorInv, ActiveDiagnosticsAreTold
  <2>2. /\ FrontendHealth(f) = "ready" => diagnostics' \cap FrontendCodes = {}
        /\ BackendHealth(f) = "ready" => diagnostics' \cap BackendCodes = {}
    BY <1>5, ReadySides
  <2> QED BY <1>3, <2>1, <2>2 DEF ActiveDiagnosticsAreTold
<1>8. WatchInv'
  <2>1. \A n \in Monitor : watch'[n] = IF n = m THEN "idle" ELSE watch[n]
    BY <1>3 DEF MonitorInv, WatchInv
  <2>2. watch' \in [Monitor -> {"off", "waiting", "idle", "persist"}]
    BY <1>3 DEF MonitorInv, WatchInv
  <2>3. \A n \in Monitor : watch'[n] \in {"idle", "persist"} <=> watch[n] \in {"idle", "persist"}
    BY <1>3, <2>1
  <2>4. \A n \in Monitor : watch'[n] # "persist"
    BY <1>3, <2>1 DEF MonitorInv, WatchInv
  <2> QED BY <1>3, <2>2, <2>3, <2>4, EmptySlot DEF MonitorInv, WatchInv
<1>9. LogInv'
  <2>1. PICK raised \in SUBSET (Code \ diagnostics), resolved \in SUBSET diagnostics :
           raised = Problems(f) \ diagnostics /\ resolved = (Known(f) \ Problems(f)) \cap diagnostics
    BY <1>4
  <2>2. diagnostics \in SUBSET Code /\ LogInv
    BY DEF MonitorInv, ActiveDiagnosticsAreTold
  <2>3. diagnostics' = (diagnostics \ resolved) \cup raised
    BY <1>3, <2>1
  <2>4. PICK added : added = Told(raised, resolved)
    OBVIOUS
  <2>5. alerts' = Newest(alerts \o added, AlertLimit)
    BY <1>2, <2>1, <2>4 DEF Persist, Told
  <2>6. /\ added \in Seq(Alert)
        /\ \A i \in DOMAIN added : /\ added[i].code \in raised \cup resolved
                                   /\ added[i].raised <=> added[i].code \in raised
        /\ \A i, k \in DOMAIN added : added[i].code = added[k].code => i = k
        /\ \A c \in raised \cup resolved : \E i \in DOMAIN added : added[i].code = c
    <3>1. raised \in SUBSET Code /\ resolved \in SUBSET Code
      BY <2>2
    <3> QED BY <2>4, <3>1, AddedFacts
  <2>7. /\ alerts \o added \in Seq(Alert)
        /\ Alternates(alerts \o added, (diagnostics \ resolved) \cup raised)
        /\ Shows(alerts \o added, (diagnostics \ resolved) \cup raised)
    BY <2>2, <2>6, AppendKeeps DEF LogInv
  <2>8. PICK s \in Seq(Alert) : s = alerts \o added
    BY <2>7
  <2>9. Alternates(s, diagnostics') /\ Shows(s, diagnostics') /\ alerts' = Newest(s, AlertLimit)
    BY <2>3, <2>5, <2>7, <2>8
  <2> QED BY <2>9, CutKeeps DEF LogInv
<1> QED BY <1>7, <1>8, <1>9 DEF MonitorInv

LEMMA MonitorStepInv ==
    ASSUME MonitorInv, MonitorNext
    PROVE  MonitorInv'
<1>1. CASE SwitchMonitor
  BY <1>1 DEF SwitchMonitor, MonitorInv, WatchInv, ActiveDiagnosticsAreTold, LogInv, Alternates, Shows
<1> QED BY <1>1, WatchSteps, PersistStep DEF MonitorNext

LEMMA MonitorStutterInv ==
    ASSUME MonitorInv, UNCHANGED monitorVars
    PROVE  MonitorInv'
BY DEF MonitorInv, WatchInv, ActiveDiagnosticsAreTold, LogInv, Alternates, Shows, monitorVars

LEMMA MonitorInitInv == MonitorInit => MonitorInv
<1> SUFFICES ASSUME MonitorInit PROVE MonitorInv
  OBVIOUS
<1>1. WatchInv /\ ActiveDiagnosticsAreTold
  BY EmptySlot DEF MonitorInit, WatchInv, ActiveDiagnosticsAreTold
<1>2. LogInv
  <2>1. alerts = <<>> /\ diagnostics = {} /\ alerts \in Seq(Alert) /\ Len(alerts) = 0
    BY DEF MonitorInit
  <2>2. DOMAIN alerts = {} /\ 0 <= AlertLimit
    BY <2>1, MonitorAssumption
  <2> QED BY <2>1, <2>2 DEF LogInv, Alternates, Shows
<1> QED BY <1>1, <1>2 DEF MonitorInv

\* What the log tells of a code.
LEMMA ToldOutcomes ==
    ASSUME MonitorInv
    PROVE  AlertsFollowOutcomes
<1>1. ActiveDiagnosticsAreTold /\ LogInv
  BY DEF MonitorInv
<1> SUFFICES ASSUME NEW c \in Code
             PROVE  /\ (c \in diagnostics) <=> (lastKnown[c] = "problem")
                    /\ \A i \in AlertsOf(c) :
                          IF \E k \in AlertsOf(c) : k > i
                          THEN \E k \in AlertsOf(c) : /\ k > i /\ alerts[k].raised # alerts[i].raised
                                                      /\ \A n \in AlertsOf(c) : n <= i \/ n >= k
                          ELSE alerts[i].raised <=> c \in diagnostics
                    /\ c \in diagnostics /\ AlertsOf(c) = {} => Len(alerts) = AlertLimit
                    /\ \A f \in latest : /\ FrontendHealth(f) = "ready" => c \notin diagnostics \cap FrontendCodes
                                         /\ BackendHealth(f) = "ready" => c \notin diagnostics \cap BackendCodes
  BY DEF AlertsFollowOutcomes
<1>2. (c \in diagnostics) <=> (lastKnown[c] = "problem")
  BY <1>1 DEF ActiveDiagnosticsAreTold
<1>3. ASSUME NEW i \in AlertsOf(c)
      PROVE  IF \E k \in AlertsOf(c) : k > i
             THEN \E k \in AlertsOf(c) : /\ k > i /\ alerts[k].raised # alerts[i].raised
                                         /\ \A n \in AlertsOf(c) : n <= i \/ n >= k
             ELSE alerts[i].raised <=> c \in diagnostics
  <2>1. i \in DOMAIN alerts /\ alerts[i].code = c /\ DOMAIN alerts \subseteq Int
    BY <1>1 DEF AlertsOf, LogInv
  <2>2. CASE \E k \in DOMAIN alerts : /\ k > i /\ alerts[k].code = alerts[i].code
                                      /\ alerts[k].raised # alerts[i].raised
                                      /\ \A n \in DOMAIN alerts : alerts[n].code = alerts[i].code => n <= i \/ n >= k
    BY <2>1, <2>2 DEF AlertsOf
  <2>3. CASE /\ \A n \in DOMAIN alerts : alerts[n].code = alerts[i].code => n <= i
             /\ alerts[i].raised <=> alerts[i].code \in diagnostics
    <3>1. ~\E k \in AlertsOf(c) : k > i
      BY <2>1, <2>3 DEF AlertsOf
    <3>2. alerts[i].raised <=> c \in diagnostics
      BY <2>1, <2>3
    <3> QED BY <3>1, <3>2
  <2> QED BY <1>1, <2>1, <2>2, <2>3 DEF LogInv, Alternates
<1>4. c \in diagnostics /\ AlertsOf(c) = {} => Len(alerts) = AlertLimit
  <2>1. PICK size \in Nat : size = Len(alerts) /\ size <= AlertLimit
    BY <1>1, LenProperties DEF LogInv
  <2>2. c \in diagnostics /\ AlertsOf(c) = {} => size >= AlertLimit
    BY <1>1, <2>1 DEF LogInv, Shows, AlertsOf
  <2> QED BY <2>1, <2>2, MonitorAssumption
<1>5. \A f \in latest : /\ FrontendHealth(f) = "ready" => c \notin diagnostics \cap FrontendCodes
                        /\ BackendHealth(f) = "ready" => c \notin diagnostics \cap BackendCodes
  <2> SUFFICES ASSUME NEW f \in latest
               PROVE  /\ FrontendHealth(f) = "ready" => c \notin diagnostics \cap FrontendCodes
                      /\ BackendHealth(f) = "ready" => c \notin diagnostics \cap BackendCodes
    OBVIOUS
  <2>1. /\ FrontendHealth(f) = "ready" => diagnostics \cap FrontendCodes = {}
        /\ BackendHealth(f) = "ready" => diagnostics \cap BackendCodes = {}
    BY <1>1 DEF ActiveDiagnosticsAreTold
  <2> QED BY <2>1
<1> QED BY <1>2, <1>3, <1>4, <1>5

LEMMA FewInSlot == ASSUME NEW S, NEW slot \in Slots(S) PROVE Cardinality(slot) <= 1
<1>1. CASE slot = {}
  BY <1>1, FS_EmptySet
<1>2. CASE \E x \in S : slot = {x}
  <2>1. PICK x \in S : slot = {x}
    BY <1>2
  <2>2. Cardinality({x}) = 1
    BY FS_Singleton
  <2>3. Cardinality(slot) = 1
    BY <2>1, <2>2
  <2> QED BY <2>3
<1> QED BY <1>1, <1>2 DEF Slots

-----------------------------------------------------------------------------
(***************************************************************************)
(* The theorems of the channel                                             *)
(***************************************************************************)

ChannelsInv == ReceiverInv /\ SupervisorInv /\ MonitorInv

LEMMA ChannelsStepInv ==
    ASSUME ChannelsInv, [ChannelsNext]_channelsVars
    PROVE  ChannelsInv'
<1>1. /\ ReceiverNext \/ UNCHANGED receiverVars
      /\ SupervisorNext \/ UNCHANGED supervisorVars
      /\ MonitorNext \/ UNCHANGED monitorVars
  BY DEF ChannelsNext, channelsVars
<1> QED BY <1>1, ReceiverStepInv, ReceiverStutterInv, SupervisorStepInv, SupervisorStutterInv, MonitorStepInv,
           MonitorStutterInv DEF ChannelsInv

LEMMA ChannelsInvariant == ChannelsSpec => []ChannelsInv
<1>1. ChannelsInit => ChannelsInv
  BY ReceiverInitInv, SupervisorInitInv, MonitorInitInv DEF ChannelsInit, ChannelsInv
<1>2. ChannelsInv /\ [ChannelsNext]_channelsVars => ChannelsInv'
  BY ChannelsStepInv
<1> QED BY <1>1, <1>2, PTL DEF ChannelsSpec

\* A turn of the assistant runs only when no assistant process of an earlier turn is left,
\* and at most one receiver process that a supervisor started is alive (telegramchat.serve
\* and chatsupervisor.Run), for any number of processes and updates.
THEOREM ChatIsAlone == ChannelsSpec => []ChatRunsAlone
<1>1. ChannelsInv => ChatRunsAlone
  BY LoneTurn, OneReceiver DEF ChannelsInv, ChatRunsAlone
<1> QED BY <1>1, ChannelsInvariant, PTL

\* The receiver takes every update once and in order and acts on it at most once: every
\* step of it, a crash or a failed write included, is a step of a mailbox or none.
THEOREM ReceiverIsMailbox == ChannelsSpec => Promised!MailInit /\ [][Promised!MailNext]_(Promised!mailVars)
<1>1. ChannelsInit => Promised!MailInit
  BY MailStarts DEF ChannelsInit
<1>2. ASSUME ChannelsInv, [ChannelsNext]_channelsVars
      PROVE  [Promised!MailNext]_(Promised!mailVars)
  <2>1. ReceiverNext \/ UNCHANGED receiverVars
    BY <1>2 DEF ChannelsNext, channelsVars
  <2>2. ReceiverInv /\ ReceiverInv'
    BY <1>2, ChannelsStepInv DEF ChannelsInv
  <2> QED BY <2>1, <2>2, MailStep, MailStutters
<1>3. ChannelsInv /\ [ChannelsNext]_channelsVars => [Promised!MailNext]_(Promised!mailVars)
  BY <1>2
<1> QED BY <1>1, <1>3, ChannelsInvariant, PTL DEF ChannelsSpec

\* Whatever a monitor observes, and whoever kills it: a diagnostic is active exactly while
\* its last outcome that could be told was a problem, its alerts alternate and the last one
\* says whether it is active, one that is active is in the log unless newer alerts have
\* filled it, and a side that is said to be ready has none (opsmonitor persist and Check),
\* for every limit, any facts and any number of monitors.
THEOREM AlertsFollow == ChannelsSpec => []AlertsFollowOutcomes
<1>1. ChannelsInv => AlertsFollowOutcomes
  BY ToldOutcomes DEF ChannelsInv
<1> QED BY <1>1, ChannelsInvariant, PTL

\* The variables of the receiver, the supervisors and the monitor stay typed, and what
\* waits in the receiver's queues (telegramchat.serve) and in the monitor's log is bounded.
THEOREM ChannelsTypeCorrect == ChannelsSpec => []ChannelsTypeOK
<1>1. ASSUME ReceiverInv PROVE ReceiverTypeOK
  BY <1>1 DEF ReceiverInv, ReceiverTypes, PlaceInv, TurnInv, ReceiverTypeOK
<1>2. ASSUME SupervisorInv PROVE SupervisorTypeOK
  <2>1. Cardinality(transport) <= 1
    BY <1>2, FewInSlot DEF SupervisorInv, LockInv
  <2> QED BY <1>2, <2>1 DEF SupervisorInv, SupervisorTypes, LockInv, Locked, Slots, SupervisorTypeOK, IntentTypes, Outside
<1>3. ASSUME MonitorInv PROVE MonitorTypeOK
  <2>1. Cardinality(watcher) <= 1 /\ Cardinality(observed) <= 1
    BY <1>3, FewInSlot DEF MonitorInv, WatchInv
  <2> QED BY <1>3, <2>1 DEF MonitorInv, WatchInv, ActiveDiagnosticsAreTold, LogInv, MonitorTypeOK
<1>4. ChannelsInv => ChannelsTypeOK
  BY <1>1, <1>2, <1>3 DEF ChannelsInv, ChannelsTypeOK
<1> QED BY <1>4, ChannelsInvariant, PTL
=============================================================================
