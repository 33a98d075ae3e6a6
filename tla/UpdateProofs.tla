---------------------------- MODULE UpdateProofs ----------------------------
(***************************************************************************)
(* The update of an installation, whatever the owner's commands, the       *)
(* crashes of the services and the point at which the updater fails or is  *)
(* killed: what is installed is accounted for, a command that stops the    *)
(* controller spares its work, and the services that were to run are those *)
(* that are to run afterwards.                                             *)
(*                                                                         *)
(* LifeInv is about the commands, their locks and the controller's         *)
(* promise; BaseInv about the record and the plan of the updater; AloneInv *)
(* about the services and their markers while no command of the owner      *)
(* comes between.                                                          *)
(***************************************************************************)
EXTENDS SelfUpdate, TLAPS

Stage == DOMAIN Place
Operation == [unit : Unit, op : {"start", "stop", "restart", "quiesce", "resume"}]
             \cup [unit : {"worker"}, op : {"on", "off"}]
Way(a) == {"lock"} \cup Route(a.unit, a.op)

ServiceTypes ==
    /\ installed \in {"old", "new"}
    /\ guardRecord \in BOOLEAN /\ intent \in BOOLEAN /\ stopping \in BOOLEAN /\ requested \in BOOLEAN
    /\ marker \subseteq Unit /\ failed \subseteq Unit /\ ready \subseteq Unit /\ busy \subseteq ready
    /\ unit \in [Unit -> {"down", "old", "new"}]
    /\ \A u \in Unit : /\ u \in ready => unit[u] # "down"
                       /\ u \in failed => unit[u] = "down"

CommandTypes ==
    /\ aim \in [Client -> Operation \cup {NoAim}]
    /\ todo \in [Client -> SUBSET Stage]
    /\ outcome \in [Client -> {"none", "done", "failed"}]
    /\ promise \in [Client -> {"none", "marked", "unmarked"}]
    /\ disturbed \subseteq Client

\* A command is on the route of its operation, and has what comes later still to do.
OnRoute ==
    \A c \in Client : todo[c] # {} =>
        /\ aim[c] \in Operation /\ todo[c] \subseteq Way(aim[c])
        /\ \A t \in todo[c], s \in Way(aim[c]) : Place[t] <= Place[s] => s \in todo[c]

\* Only one command holds a lifecycle lock.
LocksExclude ==
    \A c, d \in Client :
        Underway(c) /\ Underway(d) /\ LockOf(aim[c].unit) = LockOf(aim[d].unit) /\ LockOf(aim[c].unit) # "none"
            => c = d

\* The controller gives a promise only to the command that holds its lock.
PromiseInv ==
    \A c \in Client : promise[c] # "none" =>
        /\ Underway(c) /\ aim[c].unit = "controller" /\ "quiesce" \notin todo[c]
        /\ "halt" \in todo[c] /\ c \notin disturbed =>
              "controller" \in ready /\ stopping /\ "controller" \notin busy

LifeInv == ServiceTypes /\ CommandTypes /\ OnRoute /\ LocksExclude /\ PromiseInv

-----------------------------------------------------------------------------
(* The updater.                                                            *)
UpdateTypes ==
    /\ revision \in {"old", "new"}
    /\ record \in {"none", "running", "activating", "failed", "rolled_back", "completed", "recovery_required"}
    /\ phase \in Phase
    /\ wanted \subseteq Unit \cup {"worker"}
    /\ backup \in BOOLEAN /\ overlapped \in BOOLEAN

\* What the record says in each phase, and what is installed.
RecordInv ==
    /\ phase = "build" => record = "running"
    /\ phase \in {"backup", "guard", "activate", "backout", "giveup", "write"} => record = "activating"
    /\ phase = "release" => record \in {"activating", "rolled_back"} /\ installed = "old"
    /\ phase \in {"backup", "guard"} => installed = "old"
    /\ phase \in {"backup", "guard", "activate", "backout", "release", "giveup"} => revision = "old"
    /\ phase \in {"guard", "activate", "backout", "release", "giveup", "write"} => backup
    /\ installed # revision => record \in {"activating", "recovery_required"} /\ backup
    /\ record \in {"rolled_back", "failed"} => installed = revision
    /\ record = "rolled_back" => revision = "old"

Walking == phase \in {"activate", "backout"}
Steps == IF phase = "activate" THEN Activation ELSE Backout

\* What is left of a plan is its end; of a way back without the restore, the old
\* program is installed.
PlanInv ==
    /\ ~Walking => plan = {}
    /\ plan \subseteq For(Steps)
    /\ Walking => \A i \in For(Steps), k \in plan : k <= i => i \in plan
    /\ phase = "backout" /\ 4 \notin plan => installed = "old"

\* The updater's command is the step that is due.
Calls == {"quiesce", "resume", "start", "stop"}
CallInv ==
    todo[Updater] # {} \/ outcome[Updater] # "none" =>
        /\ Walking /\ plan # {} /\ DueStep.op \in Calls
        /\ todo[Updater] # {} => aim[Updater] = DueStep /\ outcome[Updater] = "none"

\* The step of the way back that stops a service.
StopAt == [chat |-> 1, monitor |-> 2, controller |-> 3]

\* While no owner's command comes between: a service that the way back has stopped
\* stays down until the old program is back, and then runs nothing else.
Down(u) == unit[u] = "down" /\ u \notin failed
Halting == /\ DueStep.op \in {"quiesce", "stop"}
           /\ \/ todo[Updater] # {} /\ "halt" \notin todo[Updater]
              \/ outcome[Updater] = "done"
BackoutInv ==
    phase = "backout" =>
        /\ 4 \in plan => \A u \in wanted \cap Unit : StopAt[u] \notin plan => Down(u)
        /\ 4 \in plan /\ Halting => Down(DueStep.unit)
        /\ 4 \notin plan => \A u \in wanted \cap Unit : unit[u] # "new"

\* Of the markers only the controller's is taken away and put back.
Starting == /\ DueStep = Step("controller", "start")
            /\ \/ todo[Updater] # {} /\ "mark" \notin todo[Updater]
               \/ outcome[Updater] = "done"
StartAt == IF phase = "activate" THEN 6 ELSE 5
MarkerInv ==
    phase \in {"guard", "activate", "backout", "release", "write"} =>
        /\ intent <=> "worker" \in wanted
        /\ marker \subseteq wanted /\ wanted \cap {"chat", "monitor"} \subseteq marker
        /\ "controller" \in wanted /\ phase \in {"guard", "release", "write"} => "controller" \in marker
        /\ "controller" \in wanted /\ Walking /\ StartAt \notin plan => "controller" \in marker
        /\ Walking /\ plan # {} /\ Starting => "controller" \in marker

AloneInv ==
    ~overlapped =>
        /\ Activating => /\ \A c \in Owner : todo[c] = {}
                         /\ BackoutInv /\ MarkerInv
        /\ record = "rolled_back" => \A u \in wanted \cap Unit : unit[u] # "new"

BaseInv == UpdateTypes /\ RecordInv /\ PlanInv /\ CallInv

\* The inductive invariant of an update.
UpdateInv == LifeInv /\ BaseInv /\ AloneInv

-----------------------------------------------------------------------------
(* The routes of the commands.                                             *)

LEMMA PlaceFacts ==
    /\ Stage = {"lock", "quiesce", "unmark", "halt", "gone", "vacant", "mark", "launch", "ready", "ask"}
    /\ \A s \in Stage : Place[s] \in 1..10
    /\ \A s, t \in Stage : Place[s] = Place[t] => s = t
    /\ Place["lock"] = 1 /\ Place["quiesce"] = 2 /\ Place["unmark"] = 3 /\ Place["halt"] = 4
    /\ Place["gone"] = 5 /\ Place["vacant"] = 6 /\ Place["mark"] = 7 /\ Place["launch"] = 8
    /\ Place["ready"] = 9 /\ Place["ask"] = 10
BY DEF Stage, Place

LEMMA AtFacts ==
    ASSUME CommandTypes, NEW c \in Client, NEW s \in Stage, At(c, s)
    PROVE  /\ s \in todo[c] /\ todo[c] # {} /\ todo[c] \subseteq Stage
           /\ Left(c) = todo[c] \ {s}
           /\ \A t \in todo[c] : Place[s] <= Place[t]
           /\ s # "lock" => Underway(c)
<1>1. todo[c] \subseteq Stage /\ s \in todo[c] /\ \A t \in todo[c] : Place[s] <= Place[t]
  BY DEF CommandTypes, At
<1>2. ASSUME NEW t \in todo[c], At(c, t) PROVE t = s
  BY <1>1, <1>2, PlaceFacts DEF At
<1>3. Left(c) = todo[c] \ {s}
  BY <1>2 DEF Left
<1>4. s # "lock" => "lock" \notin todo[c]
  BY <1>1, PlaceFacts
<1> QED BY <1>1, <1>3, <1>4 DEF Underway

\* What an operation's route has, where it matters.
LEMMA WayFacts ==
    ASSUME NEW a \in Operation
    PROVE  /\ Way(a) \subseteq Stage /\ "lock" \in Way(a) /\ Way(a) # {"lock"}
           /\ a.unit \in Unit \cup {"worker"}
           /\ Way(a) \cap {"quiesce", "unmark", "halt", "gone", "vacant", "mark", "launch", "ready"} # {} => a.unit \in Unit
           /\ "quiesce" \in Way(a) => a.unit = "controller" /\ "halt" \in Way(a)
           /\ "unmark" \in Way(a) => a.op \in {"stop", "restart"}
           /\ "mark" \in Way(a) => a.op \in {"start", "restart"}
           /\ "vacant" \in Way(a) => a.unit = "controller" /\ a.op \in {"start", "restart", "resume"}
           /\ a.op = "start" => "mark" \in Way(a)
           /\ a.op \in {"stop", "quiesce"} => Way(a) \cap {"vacant", "mark", "launch", "ready", "ask"} = {} /\ "halt" \in Way(a)
           /\ a.op = "start" => Way(a) \cap {"quiesce", "unmark", "halt", "gone", "ask"} = {}
           /\ a.op = "resume" => Way(a) \cap {"quiesce", "unmark", "halt", "gone", "mark", "ask"} = {}
           /\ "ask" \in Way(a) => a.unit = "worker"
<1>1. CASE a.unit = "worker"
  <2>1. a.op \in {"on", "off"}
    BY <1>1 DEF Operation, Unit
  <2>2. Way(a) = {"lock", "ask"}
    BY <2>1 DEF Way, Route
  <2> QED BY <1>1, <2>1, <2>2, PlaceFacts DEF Unit
<1>2. CASE a.unit \in Unit
  <2>1. a.op \in {"start", "stop", "restart", "quiesce", "resume"} /\ a.unit # "worker"
    BY <1>2 DEF Operation, Unit
  <2>2. /\ StopOf["controller"] = {"quiesce", "unmark", "halt", "gone"} /\ StopOf["chat"] = {"unmark", "halt", "gone"}
        /\ StopOf["monitor"] = {"unmark", "halt"}
        /\ StartOf["controller"] = {"vacant", "mark", "launch", "ready"} /\ StartOf["chat"] = {"mark", "launch", "ready"}
        /\ StartOf["monitor"] = {"mark", "launch"}
    BY DEF StopOf, StartOf
  <2>3. CASE a.op = "stop"
    <3>1. Way(a) = {"lock"} \cup StopOf[a.unit]
      BY <2>3 DEF Way, Route
    <3> QED BY <1>2, <2>1, <2>2, <2>3, <3>1, PlaceFacts DEF Unit
  <2>4. CASE a.op = "start"
    <3>1. Way(a) = {"lock"} \cup StartOf[a.unit]
      BY <2>4 DEF Way, Route
    <3> QED BY <1>2, <2>1, <2>2, <2>4, <3>1, PlaceFacts DEF Unit
  <2>5. CASE a.op = "restart"
    <3>1. Way(a) = {"lock"} \cup ((IF a.unit = "controller" THEN StopOf[a.unit] \ {"unmark"} ELSE StopOf[a.unit])
                                  \cup StartOf[a.unit])
      BY <2>5 DEF Way, Route
    <3> QED BY <1>2, <2>1, <2>2, <2>5, <3>1, PlaceFacts DEF Unit
  <2>6. CASE a.op = "quiesce"
    <3>1. Way(a) = {"lock"} \cup (StopOf[a.unit] \ {"unmark"})
      BY <2>6 DEF Way, Route
    <3> QED BY <1>2, <2>1, <2>2, <2>6, <3>1, PlaceFacts DEF Unit
  <2>7. CASE a.op = "resume"
    <3>1. Way(a) = {"lock"} \cup (StartOf[a.unit] \ {"mark"})
      BY <2>7 DEF Way, Route
    <3> QED BY <1>2, <2>1, <2>2, <2>7, <3>1, PlaceFacts DEF Unit
  <2> QED BY <2>1, <2>3, <2>4, <2>5, <2>6, <2>7
<1> QED BY <1>1, <1>2 DEF Operation

\* What a step of a command does to the command: it goes on with what is left, or it is over.
GoesOn(c) == /\ todo' = [todo EXCEPT ![c] = Left(c)] /\ Left(c) # {}
             /\ UNCHANGED aim /\ UNCHANGED outcome
Over(c) == /\ todo' = [todo EXCEPT ![c] = {}] /\ aim' = [aim EXCEPT ![c] = NoAim]
           /\ promise' = [promise EXCEPT ![c] = "none"]
           /\ \E result \in {"done", "failed"} :
                 outcome' = [outcome EXCEPT ![c] = IF c = Updater THEN result ELSE @]
StillDisturbed == disturbed' = {d \in disturbed : todo'[d] # {}}

LEMMA CloseIsOver ==
    ASSUME NEW c \in Client
    PROVE  /\ Fail(c) => Over(c)
           /\ Close(c, "done") => Over(c)
           /\ Proceed(c) => Over(c) \/ (GoesOn(c) /\ UNCHANGED promise)
BY DEF Fail, Close, Over, Proceed, GoesOn

LEMMA ControlTypes ==
    ASSUME CommandTypes, OnRoute, NEW c \in Client, GoesOn(c) \/ Over(c), StillDisturbed,
           promise' \in [Client -> {"none", "marked", "unmarked"}]
    PROVE  CommandTypes' /\ OnRoute'
<1>1. CommandTypes'
  <2>1. todo' \in [Client -> SUBSET Stage]
    BY DEF CommandTypes, GoesOn, Over, Left
  <2>2. aim' \in [Client -> Operation \cup {NoAim}] /\ outcome' \in [Client -> {"none", "done", "failed"}]
    BY DEF CommandTypes, GoesOn, Over
  <2>3. disturbed' \subseteq Client
    BY DEF CommandTypes, StillDisturbed
  <2> QED BY <2>1, <2>2, <2>3 DEF CommandTypes
<1>2. OnRoute'
  <2> SUFFICES ASSUME NEW d \in Client, todo'[d] # {}
               PROVE  /\ aim'[d] \in Operation /\ todo'[d] \subseteq Way(aim'[d])
                      /\ \A t \in todo'[d], s \in Way(aim'[d]) : Place[t] <= Place[s] => s \in todo'[d]
    BY DEF OnRoute
  <2>1. CASE d # c
    <3>1. todo'[d] = todo[d] /\ aim'[d] = aim[d]
      BY <2>1 DEF GoesOn, Over, CommandTypes
    <3> QED BY <3>1 DEF OnRoute
  <2>2. CASE d = c
    <3>1. /\ todo'[c] = Left(c) /\ aim'[c] = aim[c] /\ Left(c) \subseteq todo[c] /\ Left(c) # {}
      BY <2>2 DEF GoesOn, Over, CommandTypes, Left
    <3>2. /\ aim[c] \in Operation /\ todo[c] \subseteq Way(aim[c]) /\ todo[c] \subseteq Stage
          /\ \A t \in todo[c], s \in Way(aim[c]) : Place[t] <= Place[s] => s \in todo[c]
      BY <3>1 DEF OnRoute, CommandTypes
    <3>3. ASSUME NEW t \in Left(c), NEW s \in Way(aim[c]), Place[t] <= Place[s]
          PROVE  s \in Left(c)
      <4>1. s \in todo[c] /\ t \in todo[c] /\ ~At(c, t) /\ s \in Stage /\ t \in Stage
        BY <3>1, <3>2, <3>3 DEF Left
      <4>2. PICK r \in todo[c] : ~(Place[t] <= Place[r])
        BY <4>1 DEF At
      <4>3. ~(Place[s] <= Place[r])
        BY <3>2, <3>3, <4>1, <4>2, PlaceFacts
      <4>4. ~At(c, s)
        BY <4>2, <4>3 DEF At
      <4> QED BY <4>1, <4>4 DEF Left
    <3> QED BY <2>2, <3>1, <3>2, <3>3
  <2> QED BY <2>1, <2>2
<1> QED BY <1>1, <1>2

\* A command that is under way after a step was under way before it, unless it took its lock.
LEMMA LocksKept ==
    ASSUME CommandTypes, LocksExclude, NEW c \in Client, GoesOn(c) \/ Over(c), ~At(c, "lock")
    PROVE  LocksExclude'
<1>1. ASSUME NEW d \in Client, Underway(d)'
      PROVE  Underway(d) /\ aim'[d] = aim[d]
  <2>1. CASE d # c
    <3>1. todo'[d] = todo[d] /\ aim'[d] = aim[d]
      BY <2>1 DEF GoesOn, Over, CommandTypes
    <3> QED BY <1>1, <3>1 DEF Underway
  <2>2. CASE d = c
    <3>1. /\ todo'[c] = Left(c) /\ aim'[c] = aim[c] /\ Left(c) \subseteq todo[c] /\ Left(c) # {}
          /\ "lock" \notin Left(c)
      BY <1>1, <2>2 DEF GoesOn, Over, CommandTypes, Left, Underway
    <3>2. "lock" \notin todo[c]
      BY <3>1 DEF Left
    <3> QED BY <2>2, <3>1, <3>2 DEF Underway
  <2> QED BY <2>1, <2>2
<1>2. LocksExclude' <=>
        \A d, e \in Client :
            Underway(d)' /\ Underway(e)' /\ LockOf(aim'[d].unit) = LockOf(aim'[e].unit) /\ LockOf(aim'[d].unit) # "none"
                => d = e
  BY DEF LocksExclude, LockOf
<1>3. \A d, e \in Client :
        Underway(d) /\ Underway(e) /\ LockOf(aim[d].unit) = LockOf(aim[e].unit) /\ LockOf(aim[d].unit) # "none" => d = e
  BY DEF LocksExclude
<1> QED BY <1>1, <1>2, <1>3

LEMMA LocksTaken ==
    ASSUME CommandTypes, LocksExclude, NEW c \in Client, Lock(c)
    PROVE  LocksExclude'
<1>1. CASE LockOf(aim[c].unit) # "none" /\ Held(LockOf(aim[c].unit))
  <2>1. Over(c)
    BY <1>1, CloseIsOver DEF Lock
  <2>2. /\ todo'[c] = {} /\ \A d \in Client : d # c => todo'[d] = todo[d] /\ aim'[d] = aim[d]
    BY <2>1 DEF Over, CommandTypes
  <2>3. \A d \in Client : Underway(d)' => d # c /\ Underway(d) /\ aim'[d] = aim[d]
    BY <2>2 DEF Underway
  <2>4. \A d, e \in Client :
        Underway(d) /\ Underway(e) /\ LockOf(aim[d].unit) = LockOf(aim[e].unit) /\ LockOf(aim[d].unit) # "none" => d = e
    BY DEF LocksExclude
  <2>5. \A d, e \in Client :
        Underway(d)' /\ Underway(e)' /\ LockOf(aim'[d].unit) = LockOf(aim'[e].unit) /\ LockOf(aim'[d].unit) # "none" => d = e
    BY <2>3, <2>4
  <2> QED BY <2>5 DEF LocksExclude, LockOf
<1>2. CASE ~(LockOf(aim[c].unit) # "none" /\ Held(LockOf(aim[c].unit)))
  <2>1. Over(c) \/ GoesOn(c)
    BY <1>2, CloseIsOver DEF Lock
  <2>2. /\ \A d \in Client : d # c => todo'[d] = todo[d] /\ aim'[d] = aim[d]
        /\ todo'[c] # {} => aim'[c] = aim[c]
    BY <2>1 DEF Over, GoesOn, CommandTypes
  <2>3. LockOf(aim[c].unit) # "none" => \A d \in Client : Underway(d) => LockOf(aim[d].unit) # LockOf(aim[c].unit)
    BY <1>2 DEF Held
  <2>4. \A d \in Client : /\ Underway(d)' => aim'[d] = aim[d]
                          /\ Underway(d)' /\ d # c => Underway(d)
    BY <2>2 DEF Underway
  <2>5. \A d, e \in Client :
        Underway(d) /\ Underway(e) /\ LockOf(aim[d].unit) = LockOf(aim[e].unit) /\ LockOf(aim[d].unit) # "none" => d = e
    BY DEF LocksExclude
  <2>6. \A d, e \in Client :
        Underway(d)' /\ Underway(e)' /\ LockOf(aim'[d].unit) = LockOf(aim'[e].unit) /\ LockOf(aim'[d].unit) # "none" => d = e
    BY <2>3, <2>4, <2>5
  <2> QED BY <2>6 DEF LocksExclude, LockOf
<1> QED BY <1>1, <1>2

\* What a promise of the controller rests on is left alone.
Spared == /\ "controller" \in ready => "controller" \in ready'
          /\ stopping => stopping'
          /\ "controller" \notin busy => "controller" \notin busy'

LEMMA PromiseKept ==
    ASSUME CommandTypes, PromiseInv, NEW c \in Client, Over(c) \/ (GoesOn(c) /\ UNCHANGED promise), StillDisturbed,
           (\E d \in Client : promise[d] # "none" /\ "halt" \in todo'[d]) => Spared
    PROVE  PromiseInv'
<1> SUFFICES ASSUME NEW d \in Client, promise'[d] # "none"
             PROVE  /\ Underway(d)' /\ aim'[d].unit = "controller" /\ "quiesce" \notin todo'[d]
                    /\ "halt" \in todo'[d] /\ d \notin disturbed' =>
                          "controller" \in ready' /\ stopping' /\ "controller" \notin busy'
  BY DEF PromiseInv
<1>1. /\ promise[d] # "none" /\ todo'[d] \subseteq todo[d] /\ todo'[d] # {} /\ aim'[d] = aim[d]
  <2>1. promise[d] # "none" => todo[d] # {}
    BY DEF PromiseInv, Underway
  <2>2. CASE d # c
    BY <2>1, <2>2 DEF GoesOn, Over, CommandTypes
  <2>3. CASE d = c
    BY <2>1, <2>3 DEF GoesOn, Over, CommandTypes, Left
  <2> QED BY <2>2, <2>3
<1>2. /\ Underway(d) /\ aim[d].unit = "controller" /\ "quiesce" \notin todo[d]
      /\ "halt" \in todo[d] /\ d \notin disturbed =>
            "controller" \in ready /\ stopping /\ "controller" \notin busy
  BY <1>1 DEF PromiseInv
<1>3. d \notin disturbed' => d \notin disturbed
  BY <1>1 DEF StillDisturbed
<1>4. "halt" \in todo'[d] /\ d \notin disturbed' => "controller" \in ready' /\ stopping' /\ "controller" \notin busy'
  BY <1>1, <1>2, <1>3 DEF Spared
<1> QED BY <1>1, <1>2, <1>4 DEF Underway

\* A command that is at work on the controller leaves no other one with a promise.
LEMMA OnePromise ==
    ASSUME LifeInv, NEW c \in Client, Underway(c), aim[c].unit \in {"controller", "worker"},
           NEW d \in Client, promise[d] # "none"
    PROVE  d = c
<1>1. Underway(d) /\ aim[d].unit = "controller"
  BY DEF LifeInv, PromiseInv
<1>2. LockOf(aim[c].unit) = "backend" /\ LockOf(aim[d].unit) = "backend"
  BY <1>1 DEF LockOf
<1> QED BY <1>1, <1>2 DEF LifeInv, LocksExclude

LEMMA PromiseTyped ==
    ASSUME CommandTypes, NEW c \in Client, Over(c) \/ (GoesOn(c) /\ UNCHANGED promise)
    PROVE  promise' \in [Client -> {"none", "marked", "unmarked"}]
BY DEF CommandTypes, Over

LEMMA Settles ==
    ASSUME LifeInv, NEW c \in Client, Over(c) \/ (GoesOn(c) /\ UNCHANGED promise), ~At(c, "lock"),
           StillDisturbed, ServiceTypes',
           (\E d \in Client : promise[d] # "none" /\ "halt" \in todo'[d]) => Spared
    PROVE  LifeInv'
<1>1. CommandTypes /\ OnRoute /\ LocksExclude /\ PromiseInv
  BY DEF LifeInv
<1>2. CommandTypes' /\ OnRoute'
  BY <1>1, PromiseTyped, ControlTypes
<1>3. LocksExclude'
  BY <1>1, LocksKept
<1>4. PromiseInv'
  BY <1>1, PromiseKept
<1> QED BY <1>2, <1>3, <1>4 DEF LifeInv

LEMMA NotLock ==
    ASSUME CommandTypes, NEW c \in Client, NEW s \in Stage, At(c, s), s # "lock"
    PROVE  ~At(c, "lock")
BY AtFacts, PlaceFacts DEF At

Fixed == UNCHANGED installed /\ UNCHANGED guardRecord

\* Services that nobody touches.
Untouched == /\ UNCHANGED unit /\ UNCHANGED failed /\ UNCHANGED ready /\ UNCHANGED stopping
             /\ UNCHANGED requested /\ UNCHANGED busy
LEMMA UntouchedTypes ==
    ASSUME ServiceTypes, Untouched, Fixed, marker' \subseteq Unit, intent' \in BOOLEAN
    PROVE  ServiceTypes' /\ Spared
BY DEF ServiceTypes, Untouched, Fixed, Spared

LEMMA LockLife == ASSUME LifeInv, NEW c \in Client, Lock(c), StillDisturbed, Fixed PROVE LifeInv'
<1>1. CommandTypes /\ OnRoute /\ LocksExclude /\ PromiseInv /\ ServiceTypes
  BY DEF LifeInv
<1>2. Over(c) \/ (GoesOn(c) /\ UNCHANGED promise)
  BY CloseIsOver DEF Lock
<1>3. CommandTypes' /\ OnRoute'
  BY <1>1, <1>2, PromiseTyped, ControlTypes
<1>4. LocksExclude'
  BY <1>1, LocksTaken
<1>5. Untouched /\ UNCHANGED marker /\ UNCHANGED intent
  BY DEF Lock, Untouched, serviceVars, intentVars
<1>6. ServiceTypes' /\ Spared
  BY <1>1, <1>5, UntouchedTypes DEF ServiceTypes
<1>7. PromiseInv'
  BY <1>1, <1>2, <1>6, PromiseKept
<1> QED BY <1>3, <1>4, <1>6, <1>7 DEF LifeInv

\* The steps that only change a marker, or nothing.
LEMMA MarkingLife ==
    ASSUME LifeInv, NEW c \in Client, StillDisturbed, Fixed,
           Unmark(c) \/ Vacant(c) \/ Mark(c) \/ Gone(c) \/ Await(c)
    PROVE  LifeInv'
<1>1. CommandTypes /\ ServiceTypes /\ OnRoute
  BY DEF LifeInv
<1>2. PICK s \in {"unmark", "vacant", "mark", "gone", "ready"} : At(c, s)
  BY DEF Unmark, Vacant, Mark, Gone, Await
<1>3. s \in Stage /\ ~At(c, "lock") /\ s \in todo[c]
  BY <1>1, <1>2, NotLock, PlaceFacts DEF At
<1>4. aim[c] \in Operation /\ s \in Way(aim[c])
  BY <1>3 DEF OnRoute, LifeInv
<1>5. aim[c].unit \in Unit
  BY <1>2, <1>4, WayFacts
<1>6. Over(c) \/ (GoesOn(c) /\ UNCHANGED promise)
  BY CloseIsOver DEF Unmark, Vacant, Mark, Gone, Await
<1>7. marker' \subseteq Unit
  BY <1>1, <1>5 DEF Unmark, Vacant, Mark, Gone, Await, ServiceTypes, intentVars, Unit
<1>8. Untouched /\ UNCHANGED intent
  BY DEF Unmark, Vacant, Mark, Gone, Await, Untouched, serviceVars, intentVars
<1>9. ServiceTypes' /\ Spared
  BY <1>1, <1>7, <1>8, UntouchedTypes DEF ServiceTypes
<1> QED BY <1>3, <1>6, <1>9, Settles

LEMMA AskLife == ASSUME LifeInv, NEW c \in Client, Ask(c), StillDisturbed, Fixed PROVE LifeInv'
<1>1. CommandTypes /\ ServiceTypes
  BY DEF LifeInv
<1>2. At(c, "ask") /\ ~At(c, "lock")
  BY <1>1, NotLock, PlaceFacts DEF Ask
<1>3. Over(c) \/ (GoesOn(c) /\ UNCHANGED promise)
  BY CloseIsOver DEF Ask
<1>4. /\ UNCHANGED marker /\ UNCHANGED unit /\ UNCHANGED failed /\ UNCHANGED ready /\ UNCHANGED stopping
      /\ UNCHANGED busy
  BY DEF Ask
<1>5. intent' \in BOOLEAN /\ requested' \in BOOLEAN
  BY <1>1 DEF Ask, ServiceTypes
<1>6. ServiceTypes' /\ Spared
  BY <1>1, <1>4, <1>5 DEF ServiceTypes, Fixed, Spared
<1> QED BY <1>2, <1>3, <1>6, Settles

LEMMA KilledLife == ASSUME LifeInv, NEW c \in Client, Killed(c), StillDisturbed, Fixed PROVE LifeInv'
<1>1. CommandTypes /\ OnRoute /\ LocksExclude /\ PromiseInv /\ ServiceTypes
  BY DEF LifeInv
<1>2. Over(c) /\ todo[c] # {}
  BY CloseIsOver DEF Killed
<1>3. CommandTypes' /\ OnRoute'
  BY <1>1, <1>2, PromiseTyped, ControlTypes
<1>4. LocksExclude'
  <2>1. \A d \in Client : Underway(d)' => Underway(d) /\ aim'[d] = aim[d]
    BY <1>1, <1>2 DEF Over, CommandTypes, Underway
  <2>2. \A d, e \in Client :
        Underway(d) /\ Underway(e) /\ LockOf(aim[d].unit) = LockOf(aim[e].unit) /\ LockOf(aim[d].unit) # "none" => d = e
    BY <1>1 DEF LocksExclude
  <2>3. \A d, e \in Client :
        Underway(d)' /\ Underway(e)' /\ LockOf(aim'[d].unit) = LockOf(aim'[e].unit) /\ LockOf(aim'[d].unit) # "none" => d = e
    BY <2>1, <2>2
  <2> QED BY <2>3 DEF LocksExclude, LockOf
<1>5. Untouched /\ UNCHANGED marker /\ UNCHANGED intent
  BY DEF Killed, Untouched, serviceVars, intentVars
<1>6. ServiceTypes' /\ Spared
  BY <1>1, <1>5, UntouchedTypes DEF ServiceTypes
<1>7. PromiseInv'
  BY <1>1, <1>2, <1>6, PromiseKept
<1> QED BY <1>3, <1>4, <1>6, <1>7 DEF LifeInv

LEMMA LaunchLife == ASSUME LifeInv, NEW c \in Client, Launch(c), StillDisturbed, Fixed PROVE LifeInv'
<1>1. CommandTypes /\ ServiceTypes /\ OnRoute
  BY DEF LifeInv
<1>2. At(c, "launch") /\ ~At(c, "lock") /\ "launch" \in todo[c]
  BY <1>1, NotLock, PlaceFacts DEF Launch, At
<1>3. aim[c] \in Operation /\ aim[c].unit \in Unit
  <2>1. aim[c] \in Operation /\ "launch" \in Way(aim[c])
    BY <1>1, <1>2 DEF OnRoute
  <2> QED BY <2>1, WayFacts
<1>4. Over(c) \/ (GoesOn(c) /\ UNCHANGED promise)
  BY CloseIsOver DEF Launch
<1>5. /\ unit' = [unit EXCEPT ![aim[c].unit] = IF @ = "down" THEN installed ELSE @]
      /\ failed' = failed \ {aim[c].unit}
      /\ UNCHANGED marker /\ UNCHANGED intent /\ UNCHANGED ready /\ UNCHANGED stopping
      /\ UNCHANGED requested /\ UNCHANGED busy
  BY DEF Launch, intentVars
<1>6. ServiceTypes' /\ Spared
  BY <1>1, <1>3, <1>5 DEF ServiceTypes, Fixed, Spared
<1> QED BY <1>2, <1>4, <1>6, Settles

LEMMA HaltLife == ASSUME LifeInv, NEW c \in Client, Halt(c), StillDisturbed, Fixed PROVE LifeInv'
<1>1. CommandTypes /\ ServiceTypes /\ OnRoute
  BY DEF LifeInv
<1>2. At(c, "halt") /\ ~At(c, "lock") /\ "halt" \in todo[c] /\ Underway(c) /\ Left(c) = todo[c] \ {"halt"}
  BY <1>1, NotLock, AtFacts, PlaceFacts DEF Halt, At
<1>3. aim[c] \in Operation /\ aim[c].unit \in Unit
  <2>1. aim[c] \in Operation /\ "halt" \in Way(aim[c])
    BY <1>1, <1>2 DEF OnRoute
  <2> QED BY <2>1, WayFacts
<1>4. Over(c) \/ (GoesOn(c) /\ UNCHANGED promise)
  BY CloseIsOver DEF Halt
<1>5. PICK u \in Unit : u = aim[c].unit
  BY <1>3
<1>6. /\ unit' = [unit EXCEPT ![u] = "down"]
      /\ failed' = failed \ {u} /\ ready' = ready \ {u} /\ busy' = busy \ {u}
      /\ stopping' = (stopping /\ u # "controller")
      /\ UNCHANGED marker /\ UNCHANGED intent /\ UNCHANGED requested
  BY <1>5 DEF Halt, Ends, intentVars
<1>7. ServiceTypes'
  BY <1>1, <1>6 DEF ServiceTypes, Fixed
<1>8. ASSUME NEW d \in Client, promise[d] # "none", "halt" \in todo'[d] PROVE Spared
  <2>1. d # c
    BY <1>1, <1>2, <1>4, <1>8 DEF Over, GoesOn, CommandTypes
  <2>2. u # "controller"
    BY <1>2, <1>5, <1>8, <2>1, OnePromise
  <2> QED BY <1>6, <2>2 DEF Spared
<1> QED BY <1>2, <1>4, <1>7, <1>8, Settles

LEMMA RollbackSpares ==
    ASSUME LifeInv, NEW c \in Client, Rollback(c), Over(c), Underway(c)
    PROVE  /\ marker' \in {marker, marker \cup {"controller"}}
           /\ stopping' \in BOOLEAN
           /\ \A d \in Client : promise[d] # "none" /\ "halt" \in todo'[d] => stopping' = stopping /\ d # c
<1>1. marker' \in {marker, marker \cup {"controller"}} /\ stopping' \in BOOLEAN
  BY DEF Rollback, LifeInv, ServiceTypes
<1>2. ASSUME NEW d \in Client, promise[d] # "none", "halt" \in todo'[d] PROVE stopping' = stopping /\ d # c
  <2>1. d # c
    BY <1>2 DEF Over, LifeInv, CommandTypes
  <2>2. promise[c] = "none"
    <3>1. promise[c] # "none" => aim[c].unit = "controller"
      BY DEF LifeInv, PromiseInv
    <3> QED BY <1>2, <2>1, <3>1, OnePromise
  <2> QED BY <2>1, <2>2 DEF Rollback
<1> QED BY <1>1, <1>2

LEMMA TimeOutLife == ASSUME LifeInv, NEW c \in Client, TimeOut(c), StillDisturbed, Fixed PROVE LifeInv'
<1>1. CommandTypes /\ ServiceTypes
  BY DEF LifeInv
<1>2. PICK s \in {"gone", "ready"} : At(c, s)
  BY DEF TimeOut
<1>3. ~At(c, "lock") /\ Underway(c)
  BY <1>1, <1>2, NotLock, AtFacts, PlaceFacts
<1>4. Over(c) /\ UNCHANGED intent /\ UNCHANGED unit /\ UNCHANGED failed /\ UNCHANGED ready /\ UNCHANGED requested
      /\ UNCHANGED busy
  BY CloseIsOver DEF TimeOut
<1>5. /\ marker' \in {marker, marker \cup {"controller"}} /\ stopping' \in BOOLEAN
      /\ \A d \in Client : promise[d] # "none" /\ "halt" \in todo'[d] => stopping' = stopping
  <2>1. CASE Rollback(c)
    BY <1>3, <1>4, <2>1, RollbackSpares
  <2>2. CASE UNCHANGED <<marker, stopping>>
    BY <1>1, <2>2 DEF ServiceTypes
  <2> QED BY <2>1, <2>2 DEF TimeOut
<1>6. ServiceTypes'
  BY <1>1, <1>4, <1>5 DEF ServiceTypes, Fixed, Unit
<1>7. (\E d \in Client : promise[d] # "none" /\ "halt" \in todo'[d]) => Spared
  BY <1>4, <1>5 DEF Spared
<1> QED BY <1>3, <1>4, <1>6, <1>7, Settles

LEMMA ManagerFailsLife == ASSUME LifeInv, NEW c \in Client, ManagerFails(c), StillDisturbed, Fixed PROVE LifeInv'
<1>1. CommandTypes /\ ServiceTypes /\ OnRoute
  BY DEF LifeInv
<1>2. PICK s \in {"halt", "launch"} : At(c, s)
  BY DEF ManagerFails
<1>3. ~At(c, "lock") /\ Underway(c) /\ s \in todo[c]
  BY <1>1, <1>2, NotLock, AtFacts, PlaceFacts
<1>4. aim[c] \in Operation /\ aim[c].unit \in Unit
  <2>1. aim[c] \in Operation /\ s \in Way(aim[c])
    BY <1>1, <1>3 DEF OnRoute
  <2> QED BY <1>2, <2>1, WayFacts
<1>5. PICK u \in Unit : u = aim[c].unit
  BY <1>4
<1>6. Over(c) /\ UNCHANGED intent /\ UNCHANGED requested
  BY CloseIsOver DEF ManagerFails
<1>7. CASE Rollback(c) /\ UNCHANGED <<unit, failed, ready, busy>>
  <2>1. /\ marker' \in {marker, marker \cup {"controller"}} /\ stopping' \in BOOLEAN
        /\ \A d \in Client : promise[d] # "none" /\ "halt" \in todo'[d] => stopping' = stopping
    BY <1>3, <1>6, <1>7, RollbackSpares
  <2>2. ServiceTypes'
    BY <1>1, <1>6, <1>7, <2>1 DEF ServiceTypes, Fixed, Unit
  <2>3. (\E d \in Client : promise[d] # "none" /\ "halt" \in todo'[d]) => Spared
    BY <1>7, <2>1 DEF Spared
  <2> QED BY <1>3, <1>6, <2>2, <2>3, Settles
<1>8. CASE /\ unit' = [unit EXCEPT ![aim[c].unit] = "down"]
           /\ failed' = failed \ {aim[c].unit}
           /\ ready' = ready \ {aim[c].unit} /\ busy' = busy \ {aim[c].unit}
           /\ Rollback(c)
  <2>1. /\ marker' \in {marker, marker \cup {"controller"}} /\ stopping' \in BOOLEAN
        /\ \A d \in Client : promise[d] # "none" /\ "halt" \in todo'[d] => stopping' = stopping /\ d # c
    BY <1>3, <1>6, <1>8, RollbackSpares
  <2>2. ServiceTypes'
    BY <1>1, <1>5, <1>6, <1>8, <2>1 DEF ServiceTypes, Fixed, Unit
  <2>3. ASSUME NEW d \in Client, promise[d] # "none", "halt" \in todo'[d] PROVE Spared
    <3>1. d # c /\ stopping' = stopping
      BY <2>1, <2>3
    <3>2. u # "controller"
      BY <1>3, <1>5, <2>3, <3>1, OnePromise
    <3> QED BY <1>5, <1>8, <3>1, <3>2 DEF Spared
  <2> QED BY <1>3, <1>6, <2>2, <2>3, Settles
<1>9. CASE UNCHANGED <<marker, unit, failed, ready, stopping, busy>>
  <2>1. ServiceTypes' /\ Spared
    BY <1>1, <1>6, <1>9 DEF ServiceTypes, Fixed, Spared
  <2> QED BY <1>3, <1>6, <2>1, Settles
<1> QED BY <1>7, <1>8, <1>9 DEF ManagerFails

LEMMA QuiesceLife == ASSUME LifeInv, NEW c \in Client, Quiesce(c), StillDisturbed, Fixed PROVE LifeInv'
<1>1. CommandTypes /\ ServiceTypes /\ OnRoute /\ LocksExclude /\ PromiseInv
  BY DEF LifeInv
<1>2. At(c, "quiesce") /\ ~At(c, "lock") /\ "quiesce" \in todo[c] /\ Underway(c) /\ Left(c) = todo[c] \ {"quiesce"}
  BY <1>1, NotLock, AtFacts, PlaceFacts DEF Quiesce, At
<1>3. /\ aim[c] \in Operation /\ aim[c].unit = "controller" /\ "halt" \in todo[c]
  <2>1. aim[c] \in Operation /\ "quiesce" \in Way(aim[c])
    BY <1>1, <1>2 DEF OnRoute
  <2>2. aim[c].unit = "controller" /\ "halt" \in Way(aim[c])
    BY <2>1, WayFacts
  <2>3. Place["quiesce"] <= Place["halt"]
    BY PlaceFacts
  <2> QED BY <1>1, <1>2, <2>1, <2>2, <2>3 DEF OnRoute
<1>4. \A d \in Client : promise[d] # "none" => d = c
  BY <1>2, <1>3, OnePromise
<1>5. /\ UNCHANGED marker /\ UNCHANGED intent /\ UNCHANGED unit /\ UNCHANGED failed /\ UNCHANGED ready
      /\ UNCHANGED requested /\ UNCHANGED busy
  BY DEF Quiesce, intentVars
<1>6. CASE Refuses
  <2>1. Over(c) /\ UNCHANGED stopping
    BY <1>6, CloseIsOver DEF Quiesce
  <2>2. ServiceTypes' /\ Spared
    BY <1>1, <1>5, <2>1 DEF ServiceTypes, Fixed, Spared
  <2> QED BY <1>2, <2>1, <2>2, Settles
<1>7. CASE ~Refuses
  <2>1. /\ todo' = [todo EXCEPT ![c] = Left(c)] /\ UNCHANGED aim /\ UNCHANGED outcome
        /\ stopping' = Answering
        /\ promise' = [promise EXCEPT ![c] = IF ~Answering THEN "none"
                            ELSE IF "controller" \in marker THEN "marked" ELSE "unmarked"]
    BY <1>7 DEF Quiesce
  <2>2. GoesOn(c)
    BY <1>2, <1>3, <2>1 DEF GoesOn
  <2>3. promise' \in [Client -> {"none", "marked", "unmarked"}] /\ stopping' \in BOOLEAN
    BY <1>1, <2>1 DEF CommandTypes, Answering
  <2>4. CommandTypes' /\ OnRoute' /\ LocksExclude'
    BY <1>1, <1>2, <2>2, <2>3, ControlTypes, LocksKept
  <2>5. ServiceTypes'
    BY <1>1, <1>5, <2>3 DEF ServiceTypes, Fixed
  <2>6. ASSUME NEW d \in Client, promise'[d] # "none"
        PROVE  /\ Underway(d)' /\ aim'[d].unit = "controller" /\ "quiesce" \notin todo'[d]
               /\ "halt" \in todo'[d] /\ d \notin disturbed' =>
                     "controller" \in ready' /\ stopping' /\ "controller" \notin busy'
    <3>1. d = c
      BY <1>1, <1>4, <2>1, <2>6 DEF CommandTypes
    <3>2. Answering
      BY <1>1, <2>1, <2>6, <3>1 DEF CommandTypes
    <3>3. "controller" \notin busy /\ "controller" \in ready
      BY <1>7, <3>2 DEF Refuses, Answering
    <3>4. todo'[c] = todo[c] \ {"quiesce"} /\ todo'[c] # {} /\ "lock" \notin todo[c] /\ aim'[c] = aim[c]
      BY <1>1, <1>2, <1>3, <2>1 DEF CommandTypes, Underway
    <3> QED BY <1>3, <1>5, <2>1, <3>1, <3>2, <3>3, <3>4 DEF Underway
  <2> QED BY <2>4, <2>5, <2>6 DEF LifeInv, PromiseInv
<1> QED BY <1>6, <1>7

LEMMA CommandLife == ASSUME LifeInv, NEW c \in Client, CommandStep(c) PROVE LifeInv'
<1>1. StillDisturbed /\ Fixed
  BY DEF CommandStep, StillDisturbed, Fixed
<1>2. \/ Lock(c) \/ Quiesce(c) \/ Unmark(c) \/ Vacant(c) \/ Mark(c) \/ Halt(c)
      \/ Gone(c) \/ Launch(c) \/ Await(c) \/ TimeOut(c) \/ Ask(c) \/ ManagerFails(c) \/ Killed(c)
  BY DEF CommandStep
<1> QED BY <1>1, <1>2, LockLife, QuiesceLife, MarkingLife, HaltLife, LaunchLife, TimeOutLife, AskLife,
           ManagerFailsLife, KilledLife

LEMMA IssueLife ==
    ASSUME LifeInv, NEW c \in Client, NEW a \in Operation, Issue(c, a.unit, a.op)
    PROVE  LifeInv'
<1>1. CommandTypes /\ ServiceTypes /\ OnRoute /\ LocksExclude /\ PromiseInv
  BY DEF LifeInv
<1>2. /\ todo[c] = {} /\ aim' = [aim EXCEPT ![c] = a] /\ todo' = [todo EXCEPT ![c] = Way(a)]
      /\ outcome' = [outcome EXCEPT ![c] = "none"] /\ UNCHANGED promise /\ UNCHANGED disturbed
      /\ UNCHANGED marker /\ UNCHANGED intent /\ Untouched /\ Fixed
  <2>1. a = [unit |-> a.unit, op |-> a.op]
    BY DEF Operation
  <2> QED BY <2>1 DEF Issue, Way, Untouched, Fixed, intentVars, serviceVars
<1>3. Way(a) \subseteq Stage /\ "lock" \in Way(a)
  BY WayFacts
<1>4. CommandTypes'
  BY <1>1, <1>2, <1>3 DEF CommandTypes
<1>5. \A d \in Client : d # c => todo'[d] = todo[d] /\ aim'[d] = aim[d]
  BY <1>1, <1>2 DEF CommandTypes
<1>6. todo'[c] = Way(a) /\ aim'[c] = a
  BY <1>1, <1>2 DEF CommandTypes
<1>7. OnRoute'
  <2> SUFFICES ASSUME NEW d \in Client, todo'[d] # {}
               PROVE  /\ aim'[d] \in Operation /\ todo'[d] \subseteq Way(aim'[d])
                      /\ \A t \in todo'[d], s \in Way(aim'[d]) : Place[t] <= Place[s] => s \in todo'[d]
    BY DEF OnRoute
  <2>1. CASE d = c
    BY <1>6, <2>1
  <2>2. CASE d # c
    BY <1>1, <1>5, <2>2 DEF OnRoute
  <2> QED BY <2>1, <2>2
<1>8. LocksExclude'
  <2>1. \A d \in Client : Underway(d)' => Underway(d) /\ aim'[d] = aim[d]
    BY <1>3, <1>5, <1>6 DEF Underway
  <2>2. \A d, e \in Client :
        Underway(d) /\ Underway(e) /\ LockOf(aim[d].unit) = LockOf(aim[e].unit) /\ LockOf(aim[d].unit) # "none" => d = e
    BY <1>1 DEF LocksExclude
  <2>3. \A d, e \in Client :
        Underway(d)' /\ Underway(e)' /\ LockOf(aim'[d].unit) = LockOf(aim'[e].unit) /\ LockOf(aim'[d].unit) # "none" => d = e
    BY <2>1, <2>2
  <2> QED BY <2>3 DEF LocksExclude, LockOf
<1>9. ServiceTypes'
  BY <1>1, <1>2, UntouchedTypes DEF ServiceTypes
<1>10. PromiseInv'
  <2> SUFFICES ASSUME NEW d \in Client, promise[d] # "none"
               PROVE  /\ Underway(d)' /\ aim'[d].unit = "controller" /\ "quiesce" \notin todo'[d]
                      /\ "halt" \in todo'[d] /\ d \notin disturbed =>
                            "controller" \in ready /\ stopping /\ "controller" \notin busy
    BY <1>2 DEF PromiseInv, Untouched
  <2>1. d # c
    BY <1>1, <1>2 DEF PromiseInv, Underway
  <2>2. todo'[d] = todo[d] /\ aim'[d] = aim[d]
    BY <1>5, <2>1
  <2> QED BY <1>1, <2>2 DEF PromiseInv, Underway
<1> QED BY <1>4, <1>7, <1>8, <1>9, <1>10 DEF LifeInv

LEMMA OwnerIssuesLife == ASSUME LifeInv, NEW c \in Client, OwnerIssues(c) PROVE LifeInv'
<1>1. CASE \E u \in Unit, op \in {"start", "stop", "restart"} : Issue(c, u, op)
  <2>1. PICK u \in Unit, op \in {"start", "stop", "restart"} : Issue(c, u, op)
    BY <1>1
  <2>2. PICK a \in Operation : a.unit = u /\ a.op = op
    <3>1. [unit |-> u, op |-> op] \in Operation
      BY DEF Operation
    <3> QED BY <3>1
  <2> QED BY <2>1, <2>2, IssueLife
<1>2. CASE \E op \in {"on", "off"} : Issue(c, "worker", op)
  <2>1. PICK op \in {"on", "off"} : Issue(c, "worker", op)
    BY <1>2
  <2>2. PICK a \in Operation : a.unit = "worker" /\ a.op = op
    <3>1. [unit |-> "worker", op |-> op] \in Operation
      BY DEF Operation
    <3> QED BY <3>1
  <2> QED BY <2>1, <2>2, IssueLife
<1> QED BY <1>1, <1>2 DEF OwnerIssues

\* A step of a service leaves every command as it is; only the controller's crash takes back
\* what it has promised, and disturbs every command.
Promising == "controller" \in ready /\ stopping /\ "controller" \notin busy
LEMMA ServiceEffect ==
    ASSUME ServiceTypes, CommandTypes, NEW u \in Unit, ServiceStep(u)
    PROVE  /\ ServiceTypes' /\ disturbed' \subseteq Client
           /\ \A c \in Client : todo[c] # {} /\ c \in disturbed => c \in disturbed'
           /\ Promising => Promising' \/ \A c \in Client : todo[c] # {} => c \in disturbed'
<1>1. Fixed /\ UNCHANGED marker /\ UNCHANGED intent
  BY DEF ServiceStep, Fixed, intentVars
<1>2. CASE Boot(u) /\ UNCHANGED disturbed
  <2>1. CASE u \in marker
    <3>1. /\ ready' = ready \cup {u} /\ unit[u] # "down" /\ UNCHANGED unit /\ UNCHANGED busy /\ UNCHANGED stopping
          /\ UNCHANGED failed /\ requested' \in BOOLEAN
      BY <1>2, <2>1 DEF Boot, ServiceTypes
    <3> QED BY <1>1, <1>2, <3>1 DEF ServiceTypes, Fixed, Promising, CommandTypes
  <2>2. CASE u \notin marker
    <3>1. /\ unit' = [unit EXCEPT ![u] = "down"] /\ ready' = ready \ {u} /\ busy' = busy \ {u}
          /\ stopping' = (stopping /\ u # "controller") /\ UNCHANGED requested /\ UNCHANGED failed
          /\ u \notin ready
      BY <1>2, <2>2 DEF Boot, Ends
    <3> QED BY <1>1, <1>2, <3>1 DEF ServiceTypes, Fixed, Promising, CommandTypes
  <2> QED BY <2>1, <2>2
<1>3. CASE Resign(u) /\ UNCHANGED disturbed
  <2>1. /\ unit' = [unit EXCEPT ![u] = "down"] /\ ready' = ready \ {u} /\ busy' = busy \ {u}
        /\ stopping' = (stopping /\ u # "controller") /\ UNCHANGED requested /\ UNCHANGED failed
        /\ u # "controller"
    BY <1>3 DEF Resign, Ends
  <2> QED BY <1>1, <1>3, <2>1 DEF ServiceTypes, Fixed, Promising, CommandTypes
<1>4. CASE TakeWork(u) /\ UNCHANGED disturbed
  <2>1. /\ busy' = busy \cup {u} /\ u \in ready
        /\ u = "controller" => ~stopping
        /\ UNCHANGED unit /\ UNCHANGED failed /\ UNCHANGED ready /\ UNCHANGED stopping /\ UNCHANGED requested
    BY <1>4 DEF TakeWork
  <2> QED BY <1>1, <1>4, <2>1 DEF ServiceTypes, Fixed, Promising, CommandTypes
<1>5. CASE EndWork(u) /\ UNCHANGED disturbed
  <2>1. /\ busy' = busy \ {u}
        /\ UNCHANGED unit /\ UNCHANGED failed /\ UNCHANGED ready /\ UNCHANGED stopping /\ UNCHANGED requested
    BY <1>5 DEF EndWork
  <2> QED BY <1>1, <1>5, <2>1 DEF ServiceTypes, Fixed, Promising, CommandTypes
<1>6. CASE Restart(u) /\ UNCHANGED disturbed
  <2>1. /\ u \in failed /\ unit' = [unit EXCEPT ![u] = installed] /\ failed' = failed \ {u}
        /\ UNCHANGED ready /\ UNCHANGED stopping /\ UNCHANGED requested /\ UNCHANGED busy
    BY <1>6 DEF Restart
  <2> QED BY <1>1, <1>6, <2>1 DEF ServiceTypes, Fixed, Promising, CommandTypes
<1>7. CASE /\ Crash(u)
           /\ disturbed' = IF u = "controller" THEN {c \in Client : todo[c] # {}} ELSE disturbed
  <2>1. /\ unit' = [unit EXCEPT ![u] = "down"] /\ ready' = ready \ {u} /\ busy' = busy \ {u}
        /\ stopping' = (stopping /\ u # "controller") /\ UNCHANGED requested /\ failed' = failed \cup {u}
    BY <1>7 DEF Crash, Ends
  <2>2. ServiceTypes'
    BY <1>1, <2>1 DEF ServiceTypes, Fixed
  <2>3. CASE u = "controller"
    BY <1>7, <2>2, <2>3
  <2>4. CASE u # "controller"
    BY <1>7, <2>1, <2>2, <2>4 DEF Promising, CommandTypes
  <2> QED BY <2>3, <2>4
<1> QED BY <1>2, <1>3, <1>4, <1>5, <1>6, <1>7 DEF ServiceStep

LEMMA ServiceLife == ASSUME LifeInv, NEW u \in Unit, ServiceStep(u) PROVE LifeInv'
<1>1. CommandTypes /\ ServiceTypes /\ OnRoute /\ LocksExclude /\ PromiseInv
  BY DEF LifeInv
<1>2. UNCHANGED aim /\ UNCHANGED todo /\ UNCHANGED outcome /\ UNCHANGED promise
  BY DEF ServiceStep, commandVars
<1>3. OnRoute' /\ LocksExclude'
  BY <1>1, <1>2 DEF OnRoute, LocksExclude, Underway, LockOf
<1>4. ServiceTypes' /\ CommandTypes'
  BY <1>1, <1>2, ServiceEffect DEF CommandTypes
<1>5. PromiseInv'
  <2> SUFFICES ASSUME NEW c \in Client, promise[c] # "none"
               PROVE  /\ Underway(c) /\ aim[c].unit = "controller" /\ "quiesce" \notin todo[c]
                      /\ "halt" \in todo[c] /\ c \notin disturbed' => Promising'
    BY <1>2 DEF PromiseInv, Underway, Promising
  <2>1. /\ Underway(c) /\ aim[c].unit = "controller" /\ "quiesce" \notin todo[c] /\ todo[c] # {}
        /\ "halt" \in todo[c] /\ c \notin disturbed => Promising
    BY <1>1 DEF PromiseInv, Promising, Underway
  <2> QED BY <1>1, <2>1, ServiceEffect
<1> QED BY <1>3, <1>4, <1>5 DEF LifeInv

LEMMA LifeStarts == LifecycleInit => LifeInv
<1> SUFFICES ASSUME LifecycleInit PROVE LifeInv
  OBVIOUS
<1>1. /\ installed = "old" /\ guardRecord = FALSE /\ marker \subseteq Unit /\ intent \in BOOLEAN
      /\ unit = [u \in Unit |-> IF u \in marker THEN "old" ELSE "down"]
      /\ failed = {} /\ ready = marker /\ busy = {} /\ stopping = FALSE /\ requested = intent
  BY LifecycleAssumption DEF LifecycleInit
<1>2. ServiceTypes
  BY <1>1 DEF ServiceTypes
<1>3. /\ aim = [c \in Client |-> NoAim] /\ todo = [c \in Client |-> {}]
      /\ outcome = [c \in Client |-> "none"] /\ promise = [c \in Client |-> "none"] /\ disturbed = {}
  BY DEF LifecycleInit
<1>4. CommandTypes /\ OnRoute /\ LocksExclude /\ PromiseInv
  BY <1>3 DEF CommandTypes, OnRoute, LocksExclude, PromiseInv, Underway
<1> QED BY <1>2, <1>4 DEF LifeInv

\* Everything that is about services and commands, when the updater does something else.
LEMMA OtherLife ==
    ASSUME LifeInv, installed' \in {"old", "new"}, guardRecord' \in BOOLEAN, intent' \in BOOLEAN,
           UNCHANGED marker, UNCHANGED serviceVars, UNCHANGED aim, UNCHANGED todo, UNCHANGED promise,
           UNCHANGED disturbed, outcome' \in [Client -> {"none", "done", "failed"}]
    PROVE  LifeInv'
<1>1. CommandTypes /\ ServiceTypes /\ OnRoute /\ LocksExclude /\ PromiseInv
  BY DEF LifeInv
<1>2. Untouched
  BY DEF Untouched, serviceVars
<1>3. CommandTypes' /\ OnRoute' /\ LocksExclude'
  BY <1>1 DEF CommandTypes, OnRoute, LocksExclude, Underway, LockOf
<1>4. ServiceTypes'
  BY <1>1, <1>2 DEF ServiceTypes, Untouched
<1>5. PromiseInv'
  BY <1>1, <1>2 DEF PromiseInv, Underway, Untouched
<1> QED BY <1>3, <1>4, <1>5 DEF LifeInv

\* The updater is killed with its command.
LEMMA UpdaterDiesLife == ASSUME LifeInv, UpdaterDies PROVE LifeInv'
<1>1. CommandTypes /\ ServiceTypes /\ OnRoute /\ LocksExclude /\ PromiseInv
  BY DEF LifeInv
<1>2. /\ todo' = [todo EXCEPT ![Updater] = {}] /\ outcome' = [outcome EXCEPT ![Updater] = "none"]
      /\ aim' = [aim EXCEPT ![Updater] = NoAim] /\ promise' = [promise EXCEPT ![Updater] = "none"]
      /\ disturbed' = disturbed \ {Updater}
      /\ UNCHANGED marker /\ UNCHANGED intent /\ Untouched /\ Fixed
  BY DEF UpdaterDies, intentVars, serviceVars, Untouched, Fixed
<1>3. CommandTypes'
  BY <1>1, <1>2 DEF CommandTypes
<1>4. /\ todo'[Updater] = {} /\ promise'[Updater] = "none"
      /\ \A c \in Client : c # Updater => todo'[c] = todo[c] /\ aim'[c] = aim[c] /\ promise'[c] = promise[c]
  BY <1>1, <1>2 DEF CommandTypes, Client
<1>5. OnRoute'
  BY <1>1, <1>4 DEF OnRoute
<1>6. LocksExclude'
  <2>1. \A d \in Client : Underway(d)' => Underway(d) /\ aim'[d] = aim[d]
    BY <1>4 DEF Underway
  <2>2. \A d, e \in Client :
        Underway(d) /\ Underway(e) /\ LockOf(aim[d].unit) = LockOf(aim[e].unit) /\ LockOf(aim[d].unit) # "none" => d = e
    BY <1>1 DEF LocksExclude
  <2>3. \A d, e \in Client :
        Underway(d)' /\ Underway(e)' /\ LockOf(aim'[d].unit) = LockOf(aim'[e].unit) /\ LockOf(aim'[d].unit) # "none" => d = e
    BY <2>1, <2>2
  <2> QED BY <2>3 DEF LocksExclude, LockOf
<1>7. ServiceTypes'
  BY <1>1, <1>2, UntouchedTypes DEF ServiceTypes
<1>8. PromiseInv'
  <2> SUFFICES ASSUME NEW d \in Client, promise'[d] # "none"
               PROVE  /\ Underway(d)' /\ aim'[d].unit = "controller" /\ "quiesce" \notin todo'[d]
                      /\ "halt" \in todo'[d] /\ d \notin disturbed' =>
                            "controller" \in ready /\ stopping /\ "controller" \notin busy
    BY <1>2 DEF PromiseInv, Untouched
  <2>1. d # Updater
    BY <1>4
  <2>2. todo'[d] = todo[d] /\ aim'[d] = aim[d] /\ promise'[d] = promise[d] /\ (d \notin disturbed' => d \notin disturbed)
    BY <1>2, <1>4, <2>1
  <2> QED BY <1>1, <2>2 DEF PromiseInv, Underway
<1> QED BY <1>3, <1>5, <1>6, <1>7, <1>8 DEF LifeInv

-----------------------------------------------------------------------------
(* The plans of the updater.                                               *)
LEMMA LeastOf ==
    ASSUME NEW S \in SUBSET (1..12), S # {}
    PROVE  \E i \in S : \A k \in S : i <= k
<1> SUFFICES ASSUME \A i \in S : \E k \in S : ~(i <= k) PROVE FALSE
  OBVIOUS
<1>1. \A k \in S : k \in 1..12
  OBVIOUS
<1>2. 1 \notin S
  BY <1>1
<1>3. 2 \notin S
  BY <1>1, <1>2
<1>4. 3 \notin S
  BY <1>1, <1>2, <1>3
<1>5. 4 \notin S
  BY <1>1, <1>2, <1>3, <1>4
<1>6. 5 \notin S
  BY <1>1, <1>2, <1>3, <1>4, <1>5
<1>7. 6 \notin S
  BY <1>1, <1>2, <1>3, <1>4, <1>5, <1>6
<1>8. 7 \notin S
  BY <1>1, <1>2, <1>3, <1>4, <1>5, <1>6, <1>7
<1>9. 8 \notin S
  BY <1>1, <1>2, <1>3, <1>4, <1>5, <1>6, <1>7, <1>8
<1>10. 9 \notin S
  BY <1>1, <1>2, <1>3, <1>4, <1>5, <1>6, <1>7, <1>8, <1>9
<1>11. 10 \notin S
  BY <1>1, <1>2, <1>3, <1>4, <1>5, <1>6, <1>7, <1>8, <1>9, <1>10
<1>12. 11 \notin S
  BY <1>1, <1>2, <1>3, <1>4, <1>5, <1>6, <1>7, <1>8, <1>9, <1>10, <1>11
<1>13. 12 \notin S
  BY <1>1, <1>2, <1>3, <1>4, <1>5, <1>6, <1>7, <1>8, <1>9, <1>10, <1>11, <1>12
<1>14. PICK k \in S : k \in 1..12
  BY <1>1
<1>15. k = 1 \/ k = 2 \/ k = 3 \/ k = 4 \/ k = 5 \/ k = 6 \/ k = 7 \/ k = 8 \/ k = 9 \/ k = 10 \/ k = 11 \/ k = 12
  BY <1>14
<1> QED BY <1>15, <1>2, <1>3, <1>4, <1>5, <1>6, <1>7, <1>8, <1>9, <1>10, <1>11, <1>12, <1>13

LEMMA ActivationTable ==
    /\ DOMAIN Activation = 1..12
    /\ Activation[1] = Step("chat", "quiesce") /\ Activation[2] = Step("files", "idle")
    /\ Activation[3] = Step("controller", "stop") /\ Activation[4] = Step("monitor", "quiesce")
    /\ Activation[5] = Step("files", "replace") /\ Activation[6] = Step("controller", "start")
    /\ Activation[7] = Step("controller", "verify") /\ Activation[8] = Step("worker", "intent")
    /\ Activation[9] = Step("monitor", "resume") /\ Activation[10] = Step("monitor", "verify")
    /\ Activation[11] = Step("chat", "resume") /\ Activation[12] = Step("chat", "verify")
BY DEF Activation, Verify

LEMMA BackoutTable ==
    /\ DOMAIN Backout = 1..11
    /\ Backout[1] = Step("chat", "quiesce") /\ Backout[2] = Step("monitor", "quiesce")
    /\ Backout[3] = Step("controller", "stop") /\ Backout[4] = Step("files", "restore")
    /\ Backout[5] = Step("controller", "start") /\ Backout[6] = Step("controller", "verify")
    /\ Backout[7] = Step("worker", "intent")
    /\ Backout[8] = Step("monitor", "resume") /\ Backout[9] = Step("monitor", "verify")
    /\ Backout[10] = Step("chat", "resume") /\ Backout[11] = Step("chat", "verify")
BY DEF Backout, Verify

\* What a plan has due: the place, the step, and what the places say of the steps.
IsStep(i, s) == 
    /\ s = [unit |-> s.unit, op |-> s.op]
    /\ s.op \in Calls => s \in Operation /\ s.unit \in Unit
    /\ s.op = "start" => s = Step("controller", "start")
    /\ s.op = "stop" => s.unit = "controller" /\ i = 3
    /\ s.op = "intent" => s.unit = "worker"

LEMMA ActivationFacts ==
    ASSUME NEW i \in 1..12
    PROVE  /\ IsStep(i, Activation[i])
           /\ Activation[i].op = "start" <=> i = 6
           /\ Activation[i].op # "restore"
<1>1. PICK u \in Unit \cup {"worker", "files"}, op \in {"quiesce", "idle", "stop", "replace", "start", "verify", "intent", "resume"} :
        /\ Activation[i] = [unit |-> u, op |-> op]
        /\ op \in Calls => u \in Unit
        /\ op = "start" => u = "controller"
        /\ op = "stop" => u = "controller" /\ i = 3
        /\ op = "intent" => u = "worker"
        /\ op = "start" <=> i = 6
  BY ActivationTable DEF Step, Unit, Calls
<1> QED BY <1>1 DEF IsStep, Calls, Operation, Step, Unit

LEMMA BackoutFacts ==
    ASSUME NEW i \in 1..11
    PROVE  /\ IsStep(i, Backout[i])
           /\ Backout[i].op = "start" <=> i = 5
           /\ Backout[i].op # "replace"
           /\ Backout[i].op = "restore" <=> i = 4
           /\ Backout[i].op \in {"quiesce", "stop"} <=> i < 4
           /\ \A u \in Unit : StopAt[u] = i => Backout[i].unit = u
           /\ i < 4 => StopAt[Backout[i].unit] = i
<1>1. StopAt["chat"] = 1 /\ StopAt["monitor"] = 2 /\ StopAt["controller"] = 3
  BY DEF StopAt
<1>2. PICK u \in Unit \cup {"worker", "files"}, op \in {"quiesce", "stop", "restore", "start", "verify", "intent", "resume"} :
        /\ Backout[i] = [unit |-> u, op |-> op]
        /\ op \in Calls => u \in Unit
        /\ op = "start" => u = "controller"
        /\ op = "stop" => u = "controller" /\ i = 3
        /\ op = "intent" => u = "worker"
        /\ op = "start" <=> i = 5
        /\ op = "restore" <=> i = 4
        /\ op \in {"quiesce", "stop"} <=> i < 4
        /\ i = 1 => u = "chat"
        /\ i = 2 => u = "monitor"
        /\ i = 3 => u = "controller"
  BY BackoutTable DEF Step, Unit, Calls
<1>3. IsStep(i, Backout[i])
  BY <1>2 DEF IsStep, Calls, Operation, Step, Unit
<1>4. \A v \in Unit : StopAt[v] = i => Backout[i].unit = v
  BY <1>1, <1>2 DEF Unit
<1>5. i < 4 => StopAt[Backout[i].unit] = i
  BY <1>1, <1>2
<1> QED BY <1>2, <1>3, <1>4, <1>5

LEMMA DueFacts ==
    ASSUME PlanInv, Walking, plan # {}
    PROVE  /\ Due \in plan /\ Due \in 1..12 /\ \A k \in plan : k \in 1..12 /\ Due <= k
           /\ IsStep(Due, DueStep) /\ DueStep.unit \in wanted \cup {"files"}
           /\ DueStep.op = "start" <=> Due = StartAt
           /\ phase = "activate" => DueStep.op # "restore"
           /\ phase = "backout" =>
                /\ DueStep.op # "replace"
                /\ DueStep.op = "restore" <=> Due = 4
                /\ DueStep.op \in {"quiesce", "stop"} <=> Due < 4
                /\ \A u \in Unit : StopAt[u] = Due => DueStep.unit = u
                /\ Due < 4 => StopAt[DueStep.unit] = Due
<1>1. plan \subseteq For(Steps) /\ plan \subseteq 1..12
  <2>1. Steps = Activation \/ Steps = Backout
    BY DEF Steps
  <2>2. DOMAIN Steps \subseteq 1..12
    BY <2>1, ActivationTable, BackoutTable
  <2>3. For(Steps) \subseteq DOMAIN Steps
    BY DEF For
  <2> QED BY <2>2, <2>3 DEF PlanInv
<1>2. Due \in plan /\ \A k \in plan : Due <= k
  BY <1>1, LeastOf DEF Due
<1>3. Due \in For(Steps) /\ Due \in 1..12
  BY <1>1, <1>2
<1>4. CASE phase = "activate"
  <2>1. DueStep = Activation[Due] /\ Steps = Activation /\ StartAt = 6
    BY <1>4 DEF DueStep, Steps, StartAt
  <2>2. DueStep.unit \in wanted \cup {"files"}
    BY <1>3, <2>1 DEF For
  <2> QED BY <1>1, <1>2, <1>3, <1>4, <2>1, <2>2, ActivationFacts
<1>5. CASE phase = "backout"
  <2>1. DueStep = Backout[Due] /\ Steps = Backout /\ StartAt = 5
    BY <1>5 DEF DueStep, Steps, StartAt
  <2>2. DueStep.unit \in wanted \cup {"files"} /\ Due \in 1..11
    BY <1>3, <2>1, BackoutTable DEF For
  <2> QED BY <1>1, <1>2, <1>3, <1>5, <2>1, <2>2, BackoutFacts
<1> QED BY <1>4, <1>5 DEF Walking

\* Outside a plan, and at a step that is no command, the updater has no command.
LEMMA NoCommand ==
    ASSUME CallInv, ~Walking \/ plan = {} \/ DueStep.op \notin Calls
    PROVE  todo[Updater] = {} /\ outcome[Updater] = "none"
BY DEF CallInv

\* The steps of a plan that are over: the end of a command, and what the updater does for itself.
WalkStep == Outcome \/ Replace \/ Check \/ RestoreIntent
RestKept == UNCHANGED wanted /\ UNCHANGED revision /\ UNCHANGED backup /\ UNCHANGED marker
         /\ UNCHANGED serviceVars /\ UNCHANGED aim /\ UNCHANGED todo /\ UNCHANGED promise /\ UNCHANGED disturbed
LEMMA WalkFacts ==
    ASSUME LifeInv, PlanInv, CallInv, WalkStep
    PROVE  /\ Walking /\ plan # {} /\ RestKept /\ UNCHANGED guardRecord
           /\ Advance \/ Abandon
           /\ todo[Updater] = {} /\ outcome'[Updater] = "none" /\ outcome' \in [Client -> {"none", "done", "failed"}]
           /\ Advance /\ DueStep.op \in Calls => outcome[Updater] = "done"
           /\ installed' \in {"old", "new"} /\ intent' \in BOOLEAN
           /\ intent' = intent \/ (intent' = TRUE /\ "worker" \in wanted)
           /\ phase = "backout" => installed' \in {installed, "old"}
           /\ phase = "backout" /\ Due = 4 /\ Advance => installed' = "old"
<1>1. CommandTypes /\ ServiceTypes
  BY DEF LifeInv
<1>2. CASE Outcome
  <2>1. /\ RestKept /\ UNCHANGED guardRecord /\ UNCHANGED installed /\ UNCHANGED intent
        /\ outcome' = [outcome EXCEPT ![Updater] = "none"]
    BY <1>2 DEF Outcome, RestKept, intentVars
  <2>2. /\ Walking /\ plan # {} /\ DueStep.op \in Calls
        /\ \/ outcome[Updater] = "done" /\ Advance
           \/ outcome[Updater] = "failed" /\ Abandon
    BY <1>2 DEF Outcome, Planned, Walking, Calls
  <2>3. todo[Updater] = {}
    BY <2>2 DEF CallInv
  <2>4. phase = "backout" => Due # 4
    BY <2>2, DueFacts DEF Calls
  <2>5. ~(Advance /\ Abandon)
    BY DEF Advance, Abandon
  <2> QED BY <1>1, <2>1, <2>2, <2>3, <2>4, <2>5 DEF CommandTypes, ServiceTypes, Client
<1>3. CASE Replace \/ Check \/ RestoreIntent
  <2>1. RestKept /\ UNCHANGED guardRecord /\ UNCHANGED outcome
    BY <1>3 DEF Replace, Check, RestoreIntent, RestKept, intentVars, commandVars
  <2>2. /\ Walking /\ plan # {} /\ DueStep.op \in {"replace", "restore", "verify", "idle", "intent"}
        /\ Advance \/ Abandon
    BY <1>3 DEF Replace, Check, RestoreIntent, Planned, Walking
  <2>3. DueStep.op \notin Calls
    BY <2>2 DEF Calls
  <2>4. todo[Updater] = {} /\ outcome[Updater] = "none"
    BY <2>3, NoCommand
  <2>5. ~(Advance /\ Abandon)
    BY DEF Advance, Abandon
  <2>6. CASE Replace
    <3>1. /\ UNCHANGED intent
          /\ \/ Planned("replace") /\ installed' = "new"
             \/ Planned("restore") /\ installed' = "old"
             \/ Abandon /\ UNCHANGED installed
      BY <2>6 DEF Replace, intentVars
    <3>2. phase = "backout" => DueStep.op # "replace"
      BY <2>2, DueFacts
    <3> QED BY <1>1, <2>1, <2>2, <2>3, <2>4, <2>5, <3>1, <3>2 DEF ServiceTypes, CommandTypes, Planned
  <2>7. CASE Check
    <3>1. UNCHANGED intent /\ UNCHANGED installed /\ DueStep.op # "restore"
      BY <2>7 DEF Check, intentVars, Planned
    <3>2. phase = "backout" => Due # 4
      BY <2>2, <3>1, DueFacts
    <3> QED BY <1>1, <2>1, <2>2, <2>3, <2>4, <3>1, <3>2 DEF ServiceTypes, CommandTypes
  <2>8. CASE RestoreIntent
    <3>1. intent' = TRUE /\ UNCHANGED installed /\ DueStep.op = "intent"
      BY <2>8 DEF RestoreIntent, Planned
    <3>2. /\ phase = "backout" => Due # 4
          /\ "worker" \in wanted
      BY <2>2, <3>1, DueFacts DEF IsStep
    <3> QED BY <1>1, <2>1, <2>2, <2>3, <2>4, <3>1, <3>2 DEF ServiceTypes, CommandTypes
  <2> QED BY <1>3, <2>6, <2>7, <2>8
<1> QED BY <1>2, <1>3 DEF WalkStep

-----------------------------------------------------------------------------
(* The record and the plan, step by step.                                  *)
\* The updater is at no plan.
LEMMA AtRest ==
    ASSUME phase' \notin {"activate", "backout"}, plan' = {}, todo'[Updater] = {}, outcome'[Updater] = "none"
    PROVE  PlanInv' /\ CallInv'
BY DEF PlanInv, CallInv, Walking

LEMMA EarlyBase ==
    ASSUME LifeInv, BaseInv, Begin \/ Prepare \/ Secure \/ (Complete /\ UNCHANGED overlapped)
    PROVE  BaseInv'
<1>1. UpdateTypes /\ RecordInv /\ PlanInv /\ CallInv
  BY DEF BaseInv
<1>2. phase \in {"off", "build", "backup", "write"} /\ UNCHANGED lifecycleVars
  BY DEF Begin, Prepare, Secure, Complete
<1>3. UNCHANGED installed /\ UNCHANGED todo /\ UNCHANGED outcome
  BY <1>2 DEF lifecycleVars, commandVars
<1>4. ~Walking /\ plan = {} /\ todo[Updater] = {} /\ outcome[Updater] = "none"
  BY <1>1, <1>2, NoCommand DEF PlanInv, Walking
<1>5. CASE Begin
  <2>1. /\ record' = "running" /\ phase' = "build" /\ overlapped' = FALSE
        /\ UNCHANGED revision /\ UNCHANGED backup /\ UNCHANGED plan /\ UNCHANGED wanted
        /\ record \notin {"activating", "recovery_required"}
    BY <1>5 DEF Begin
  <2>2. UpdateTypes' /\ RecordInv'
    BY <1>1, <1>3, <2>1 DEF UpdateTypes, RecordInv, Phase
  <2> QED BY <1>3, <1>4, <2>1, <2>2, AtRest DEF BaseInv
<1>6. CASE Prepare
  <2>1. /\ phase = "build" /\ UNCHANGED revision /\ UNCHANGED backup /\ UNCHANGED wanted
        /\ \/ record' \in {"completed", "failed"} /\ phase' = "off" /\ plan' = {} /\ UNCHANGED overlapped
           \/ /\ revision = "old" /\ overlapped' = (\E c \in Owner : todo[c] # {})
              /\ record' = "activating" /\ phase' = "backup" /\ UNCHANGED plan
    BY <1>6 DEF Prepare, AlreadyCurrent, CandidateFails, Finish
  <2>2. overlapped' \in BOOLEAN
    BY <1>1, <2>1 DEF UpdateTypes
  <2>3. UpdateTypes' /\ RecordInv'
    BY <1>1, <1>3, <2>1, <2>2 DEF UpdateTypes, RecordInv, Phase
  <2>4. phase' \notin {"activate", "backout"} /\ plan' = {}
    BY <1>4, <2>1
  <2> QED BY <1>3, <1>4, <2>3, <2>4, AtRest DEF BaseInv
<1>7. CASE Secure
  <2>1. /\ phase = "backup" /\ UNCHANGED revision /\ UNCHANGED overlapped
        /\ \/ /\ wanted' = marker \cup (IF intent THEN {"worker"} ELSE {})
              /\ backup' = TRUE /\ phase' = "guard" /\ UNCHANGED record /\ UNCHANGED plan
           \/ record' = "recovery_required" /\ phase' = "off" /\ plan' = {} /\ UNCHANGED backup /\ UNCHANGED wanted
    BY <1>7 DEF Secure, Finish
  <2>2. wanted' \subseteq Unit \cup {"worker"}
    BY <1>1, <2>1 DEF UpdateTypes, LifeInv, ServiceTypes
  <2>3. UpdateTypes' /\ RecordInv'
    BY <1>1, <1>3, <2>1, <2>2 DEF UpdateTypes, RecordInv, Phase
  <2>4. phase' \notin {"activate", "backout"} /\ plan' = {}
    BY <1>4, <2>1
  <2> QED BY <1>3, <1>4, <2>3, <2>4, AtRest DEF BaseInv
<1>8. CASE Complete /\ UNCHANGED overlapped
  <2>1. /\ phase = "write" /\ UNCHANGED backup /\ UNCHANGED wanted /\ UNCHANGED overlapped
        /\ \/ revision' = installed /\ UNCHANGED phase /\ UNCHANGED record /\ UNCHANGED plan
           \/ revision = installed /\ record' = "completed" /\ phase' = "off" /\ plan' = {} /\ UNCHANGED revision
           \/ record' \in {"recovery_required", record} /\ phase' = "off" /\ plan' = {} /\ UNCHANGED revision
    BY <1>8 DEF Complete, Finish
  <2>2. installed \in {"old", "new"}
    BY DEF LifeInv, ServiceTypes
  <2>3. UpdateTypes' /\ RecordInv'
    BY <1>1, <1>3, <2>1, <2>2 DEF UpdateTypes, RecordInv, Phase
  <2>4. phase' \notin {"activate", "backout"} /\ plan' = {}
    BY <1>4, <2>1
  <2> QED BY <1>3, <1>4, <2>3, <2>4, AtRest DEF BaseInv
<1> QED BY <1>5, <1>6, <1>7, <1>8

LEMMA ConcludeFacts ==
    ASSUME PlanInv, CallInv, Conclude
    PROVE  /\ plan = {} /\ todo[Updater] = {} /\ outcome[Updater] = "none"
           /\ UNCHANGED installed /\ UNCHANGED marker /\ UNCHANGED intent /\ UNCHANGED serviceVars
           /\ UNCHANGED commandVars /\ UNCHANGED disturbed
           /\ UNCHANGED revision /\ UNCHANGED backup /\ UNCHANGED plan /\ UNCHANGED wanted
           /\ \/ phase = "activate" /\ phase' = "write" /\ UNCHANGED record
              \/ phase = "backout" /\ record' \in {"rolled_back", record} /\ phase' = "release"
              \/ phase = "release" /\ phase' = "off" /\ UNCHANGED record
              \/ phase = "giveup" /\ phase' = "off" /\ record' = "recovery_required"
<1>1. plan = {}
  BY DEF Conclude, PlanInv, Walking
<1>2. todo[Updater] = {} /\ outcome[Updater] = "none"
  BY <1>1, NoCommand
<1> QED BY <1>1, <1>2 DEF Conclude, intentVars

LEMMA ConcludeBase ==
    ASSUME LifeInv, BaseInv, Conclude, UNCHANGED overlapped
    PROVE  BaseInv'
<1>1. UpdateTypes /\ RecordInv /\ PlanInv /\ CallInv
  BY DEF BaseInv
<1>2. UpdateTypes'
  BY <1>1, ConcludeFacts DEF UpdateTypes, Phase
<1>3. phase = "backout" => installed = "old"
  BY <1>1, ConcludeFacts DEF PlanInv
<1>4. RecordInv'
  BY <1>1, <1>3, ConcludeFacts DEF RecordInv
<1>5. PlanInv' /\ CallInv'
  <2>1. phase' \notin {"activate", "backout"} /\ plan' = {} /\ UNCHANGED todo /\ UNCHANGED outcome
    BY <1>1, ConcludeFacts DEF commandVars
  <2> QED BY <1>1, <2>1, ConcludeFacts, AtRest
<1> QED BY <1>2, <1>4, <1>5 DEF BaseInv

LEMMA FenceBase ==
    ASSUME LifeInv, BaseInv, Fence
    PROVE  BaseInv'
<1>1. UpdateTypes /\ RecordInv /\ PlanInv /\ CallInv
  BY DEF BaseInv
<1>2. /\ phase = "guard" /\ phase' = "activate" /\ plan' = For(Activation)
      /\ UNCHANGED installed /\ UNCHANGED revision /\ UNCHANGED record /\ UNCHANGED backup /\ UNCHANGED wanted
      /\ UNCHANGED overlapped /\ UNCHANGED todo /\ UNCHANGED outcome
  BY DEF Fence, commandVars
<1>3. UpdateTypes' /\ RecordInv'
  BY <1>1, <1>2 DEF UpdateTypes, RecordInv, Phase
<1>4. todo'[Updater] = {} /\ outcome'[Updater] = "none"
  BY <1>1, <1>2, NoCommand DEF Walking
<1>5. PlanInv'
  <2>1. Steps' = Activation /\ For(Activation)' = For(Activation) /\ For(Steps)' = For(Activation)
    BY <1>2 DEF Steps, For
  <2> QED BY <1>2, <2>1 DEF PlanInv, Walking
<1>6. CallInv'
  BY <1>4 DEF CallInv
<1> QED BY <1>3, <1>5, <1>6 DEF BaseInv

LEMMA WalkBase ==
    ASSUME LifeInv, BaseInv, WalkStep, UNCHANGED overlapped
    PROVE  BaseInv'
<1>1. UpdateTypes /\ RecordInv /\ PlanInv /\ CallInv
  BY DEF BaseInv
<1>2. /\ Walking /\ plan # {} /\ todo'[Updater] = {} /\ outcome'[Updater] = "none"
      /\ installed' \in {"old", "new"}
      /\ UNCHANGED wanted /\ UNCHANGED revision /\ UNCHANGED backup
      /\ phase = "backout" => installed' \in {installed, "old"}
      /\ phase = "backout" /\ Due = 4 /\ Advance => installed' = "old"
      /\ Advance \/ Abandon
  BY <1>1, WalkFacts DEF RestKept
<1>3. CallInv'
  BY <1>2 DEF CallInv
<1>4. CASE Advance
  <2>1. plan' = plan \ {Due} /\ UNCHANGED phase /\ UNCHANGED record
    BY <1>4 DEF Advance
  <2>2. UpdateTypes' /\ RecordInv'
    BY <1>1, <1>2, <2>1 DEF UpdateTypes, RecordInv, Walking
  <2>3. Due \in plan /\ Due \in 1..12 /\ \A k \in plan : k \in 1..12 /\ Due <= k
    BY <1>1, <1>2, DueFacts
  <2>4. For(Steps)' = For(Steps) /\ For(Steps) \subseteq 1..12
    <3>1. Steps' = Steps
      BY <2>1 DEF Steps
    <3>2. Steps = Activation \/ Steps = Backout
      BY DEF Steps
    <3>3. DOMAIN Steps \subseteq 1..12
      BY <3>2, ActivationTable, BackoutTable
    <3> QED BY <1>2, <3>1, <3>3 DEF For
  <2>5. ASSUME NEW i \in For(Steps), NEW k \in plan', k <= i PROVE i \in plan'
    <3>1. k \in plan /\ k # Due /\ Due <= k /\ k \in 1..12 /\ i \in 1..12
      BY <2>1, <2>3, <2>4, <2>5
    <3>2. i \in plan
      BY <1>1, <1>2, <2>5, <3>1 DEF PlanInv
    <3>3. i # Due
      BY <2>3, <2>5, <3>1
    <3> QED BY <2>1, <3>2, <3>3
  <2>6. phase' = "backout" /\ 4 \notin plan' => installed' = "old"
    BY <1>1, <1>2, <1>4, <2>1 DEF PlanInv
  <2>7. plan' \subseteq For(Steps)' /\ Walking'
    BY <1>1, <1>2, <2>1, <2>4 DEF PlanInv, Walking
  <2> QED BY <1>3, <2>2, <2>4, <2>5, <2>6, <2>7 DEF BaseInv, PlanInv
<1>5. CASE Abandon
  <2>1. /\ UNCHANGED record
        /\ \/ phase = "activate" /\ phase' = "backout" /\ plan' = For(Backout)
           \/ phase = "backout" /\ phase' = "giveup" /\ plan' = {}
    BY <1>5 DEF Abandon
  <2>2. UpdateTypes' /\ RecordInv'
    BY <1>1, <1>2, <2>1 DEF UpdateTypes, RecordInv, Phase
  <2>3. CASE phase' = "backout"
    <3>1. plan' = For(Backout)
      BY <2>1, <2>3
    <3>2. Steps' = Backout /\ For(Steps)' = For(Backout)
      BY <1>2, <2>3 DEF Steps, For
    <3>3. 4 \in For(Backout)
      <4>1. Backout[4].unit = "files" /\ 4 \in DOMAIN Backout
        BY BackoutTable DEF Step
      <4> QED BY <4>1 DEF For
    <3>4. PlanInv'
      BY <2>3, <3>1, <3>2, <3>3 DEF PlanInv, Walking
    <3> QED BY <1>3, <2>2, <3>4 DEF BaseInv
  <2>4. CASE phase' = "giveup"
    <3>1. plan' = {}
      BY <2>1, <2>4
    <3>2. PlanInv'
      BY <2>4, <3>1 DEF PlanInv, Walking
    <3> QED BY <1>3, <2>2, <3>2 DEF BaseInv
  <2> QED BY <2>1, <2>3, <2>4
<1> QED BY <1>2, <1>4, <1>5

\* Steps that leave the updater's own state as it is.
LEMMA StandStill ==
    ASSUME BaseInv, UNCHANGED ownVars, UNCHANGED installed, overlapped' \in BOOLEAN,
           todo'[Updater] # {} \/ outcome'[Updater] # "none" =>
              /\ Walking /\ plan # {} /\ DueStep.op \in Calls
              /\ todo'[Updater] # {} => aim'[Updater] = DueStep /\ outcome'[Updater] = "none"
    PROVE  BaseInv'
<1>1. UpdateTypes /\ RecordInv /\ PlanInv /\ CallInv
  BY DEF BaseInv
<1>2. /\ UNCHANGED phase /\ UNCHANGED plan /\ UNCHANGED wanted /\ UNCHANGED record /\ UNCHANGED revision
      /\ UNCHANGED backup
  BY DEF ownVars
<1>3. UpdateTypes' /\ RecordInv'
  BY <1>1, <1>2 DEF UpdateTypes, RecordInv
<1>4. (Walking' <=> Walking) /\ Steps' = Steps /\ For(Steps)' = For(Steps) /\ Due' = Due /\ DueStep' = DueStep
  <2>1. (Walking' <=> Walking) /\ Steps' = Steps
    BY <1>2 DEF Walking, Steps
  <2>2. Due' = Due
    BY <1>2 DEF Due
  <2>3. For(Steps)' = For(Steps)
    BY <1>2, <2>1 DEF For
  <2>4. DueStep' = DueStep
    BY <1>2, <2>2 DEF DueStep
  <2> QED BY <2>1, <2>2, <2>3, <2>4
<1>5. PlanInv'
  BY <1>1, <1>2, <1>4 DEF PlanInv
<1>6. CallInv'
  BY <1>2, <1>4 DEF CallInv
<1> QED BY <1>3, <1>5, <1>6 DEF BaseInv

LEMMA CommandControl ==
    ASSUME LifeInv, NEW c \in Client, CommandStep(c)
    PROVE  /\ GoesOn(c) \/ Over(c)
           /\ todo[c] # {} /\ UNCHANGED installed
           /\ \A d \in Client : d # c => todo'[d] = todo[d] /\ aim'[d] = aim[d] /\ outcome'[d] = outcome[d]
           /\ todo'[c] # {} => aim'[c] = aim[c] /\ outcome'[c] = outcome[c]
<1>1. CommandTypes /\ OnRoute
  BY DEF LifeInv
<1>2. \/ Lock(c) \/ Quiesce(c) \/ Unmark(c) \/ Vacant(c) \/ Mark(c) \/ Halt(c)
      \/ Gone(c) \/ Launch(c) \/ Await(c) \/ TimeOut(c) \/ Ask(c) \/ ManagerFails(c) \/ Killed(c)
  BY DEF CommandStep
<1>3. todo[c] # {}
  BY <1>2 DEF Lock, Quiesce, Unmark, Vacant, Mark, Halt, Gone, Launch, Await, TimeOut, Ask, ManagerFails, Killed, At
<1>4. GoesOn(c) \/ Over(c)
  <2>1. CASE Quiesce(c)
    <3>1. CASE Refuses
      BY <2>1, <3>1, CloseIsOver DEF Quiesce
    <3>2. CASE ~Refuses
      <4>1. todo' = [todo EXCEPT ![c] = Left(c)] /\ UNCHANGED aim /\ UNCHANGED outcome /\ At(c, "quiesce")
        BY <2>1, <3>2 DEF Quiesce
      <4>2. Left(c) = todo[c] \ {"quiesce"} /\ "quiesce" \in todo[c]
        BY <1>1, <4>1, AtFacts, PlaceFacts
      <4>3. "halt" \in todo[c]
        <5>1. aim[c] \in Operation /\ "quiesce" \in Way(aim[c])
          BY <1>1, <4>2 DEF OnRoute
        <5>2. "halt" \in Way(aim[c]) /\ Place["quiesce"] <= Place["halt"]
          BY <5>1, WayFacts, PlaceFacts
        <5> QED BY <1>1, <4>2, <5>2 DEF OnRoute
      <4> QED BY <4>1, <4>2, <4>3 DEF GoesOn
    <3> QED BY <3>1, <3>2
  <2>2. CASE ~Quiesce(c)
    <3>1. Proceed(c) \/ Fail(c) \/ Close(c, "done")
      BY <1>2, <2>2 DEF Lock, Unmark, Vacant, Mark, Halt, Gone, Launch, Await, TimeOut, Ask, ManagerFails, Killed
    <3> QED BY <3>1, CloseIsOver
  <2> QED BY <2>1, <2>2
<1>5. UNCHANGED installed
  BY DEF CommandStep
<1>6. \A d \in Client : d # c => todo'[d] = todo[d] /\ aim'[d] = aim[d] /\ outcome'[d] = outcome[d]
  BY <1>1, <1>4 DEF GoesOn, Over, CommandTypes
<1>7. todo'[c] # {} => aim'[c] = aim[c] /\ outcome'[c] = outcome[c]
  BY <1>1, <1>4 DEF GoesOn, Over, CommandTypes
<1> QED BY <1>3, <1>4, <1>5, <1>6, <1>7

LEMMA CommandBase ==
    ASSUME LifeInv, BaseInv, CommandStep(Updater), UNCHANGED ownVars, UNCHANGED overlapped
    PROVE  BaseInv'
<1>1. CallInv /\ UpdateTypes
  BY DEF BaseInv
<1>2. /\ todo[Updater] # {} /\ UNCHANGED installed
      /\ todo'[Updater] # {} => aim'[Updater] = aim[Updater] /\ outcome'[Updater] = outcome[Updater]
  BY CommandControl DEF Client
<1>3. Walking /\ plan # {} /\ DueStep.op \in Calls /\ aim[Updater] = DueStep /\ outcome[Updater] = "none"
  BY <1>1, <1>2 DEF CallInv
<1> QED BY <1>1, <1>2, <1>3, StandStill DEF UpdateTypes

LEMMA OwnerBase ==
    ASSUME LifeInv, BaseInv, NEW c \in Owner, OwnerStep(c)
    PROVE  BaseInv'
<1>1. CallInv /\ UpdateTypes
  BY DEF BaseInv
<1>2. c \in Client /\ Updater \in Client /\ c # Updater /\ CommandTypes
  BY LifecycleAssumption DEF Client, LifeInv
<1>3. /\ UNCHANGED installed
      /\ todo'[Updater] = todo[Updater] /\ aim'[Updater] = aim[Updater] /\ outcome'[Updater] = outcome[Updater]
  <2>1. CASE CommandStep(c)
    BY <1>2, <2>1, CommandControl
  <2>2. CASE OwnerIssues(c)
    <3>1. \E u \in Unit \cup {"worker"}, op \in {"start", "stop", "restart", "on", "off"} : Issue(c, u, op)
      BY <2>2 DEF OwnerIssues
    <3>2. PICK u \in Unit \cup {"worker"}, op \in {"start", "stop", "restart", "on", "off"} : Issue(c, u, op)
      BY <3>1
    <3> QED BY <1>2, <3>2 DEF Issue, CommandTypes
  <2> QED BY <2>1, <2>2 DEF OwnerStep
<1>4. UNCHANGED ownVars /\ overlapped' \in BOOLEAN
  BY <1>1 DEF OwnerStep, UpdateTypes
<1> QED BY <1>1, <1>3, <1>4, StandStill DEF CallInv

LEMMA CallFacts ==
    ASSUME LifeInv, BaseInv, Call
    PROVE  /\ Walking /\ plan # {} /\ DueStep \in Operation /\ DueStep.op \in Calls
           /\ Issue(Updater, DueStep.unit, DueStep.op)
           /\ todo' = [todo EXCEPT ![Updater] = Way(DueStep)] /\ aim' = [aim EXCEPT ![Updater] = DueStep]
           /\ outcome' = [outcome EXCEPT ![Updater] = "none"] /\ todo[Updater] = {}
           /\ todo'[Updater] = Way(DueStep) /\ aim'[Updater] = DueStep /\ outcome'[Updater] = "none"
           /\ \A c \in Owner : todo'[c] = todo[c]
           /\ UNCHANGED installed /\ UNCHANGED marker /\ UNCHANGED intent /\ UNCHANGED serviceVars /\ UNCHANGED ownVars
<1>1. PlanInv
  BY DEF BaseInv
<1>2. PICK op \in {"quiesce", "resume", "start", "stop"} :
        Planned(op) /\ outcome[Updater] = "none" /\ Issue(Updater, DueStep.unit, op)
  BY DEF Call
<1>3. Walking /\ plan # {} /\ DueStep.op = op /\ op \in Calls
  BY <1>2 DEF Planned, Walking, Calls
<1>4. DueStep \in Operation /\ DueStep = [unit |-> DueStep.unit, op |-> DueStep.op]
  BY <1>1, <1>3, DueFacts DEF IsStep
<1>5. Issue(Updater, DueStep.unit, DueStep.op)
  BY <1>2, <1>3
<1>6. /\ todo' = [todo EXCEPT ![Updater] = Way(DueStep)] /\ aim' = [aim EXCEPT ![Updater] = DueStep]
      /\ outcome' = [outcome EXCEPT ![Updater] = "none"] /\ todo[Updater] = {}
      /\ UNCHANGED installed /\ UNCHANGED marker /\ UNCHANGED intent /\ UNCHANGED serviceVars
  BY <1>4, <1>5 DEF Issue, Way, intentVars
<1>7. UNCHANGED ownVars
  BY DEF Call
<1>8. /\ todo'[Updater] = Way(DueStep) /\ aim'[Updater] = DueStep /\ outcome'[Updater] = "none"
      /\ \A c \in Owner : todo'[c] = todo[c]
  BY <1>6, LifecycleAssumption DEF LifeInv, CommandTypes, Client
<1> QED BY <1>3, <1>4, <1>5, <1>6, <1>7, <1>8

LEMMA CallBase ==
    ASSUME LifeInv, BaseInv, Call, UNCHANGED overlapped
    PROVE  BaseInv'
BY CallFacts, StandStill DEF BaseInv, UpdateTypes

LEMMA ServiceBase ==
    ASSUME LifeInv, BaseInv, NEW u \in Unit, ServiceStep(u), UNCHANGED ownVars, UNCHANGED overlapped
    PROVE  BaseInv'
<1>1. CallInv /\ UpdateTypes
  BY DEF BaseInv
<1>2. UNCHANGED installed /\ UNCHANGED todo /\ UNCHANGED aim /\ UNCHANGED outcome
  BY DEF ServiceStep, commandVars
<1> QED BY <1>1, <1>2, StandStill DEF CallInv, UpdateTypes

LEMMA DiesFacts ==
    ASSUME LifeInv, UpdaterDies
    PROVE  /\ phase' = "off" /\ plan' = {} /\ todo'[Updater] = {} /\ outcome'[Updater] = "none"
           /\ \A c \in Owner : todo'[c] = todo[c]
           /\ UNCHANGED installed /\ UNCHANGED marker /\ UNCHANGED intent /\ UNCHANGED serviceVars
           /\ UNCHANGED revision /\ UNCHANGED record /\ UNCHANGED backup /\ UNCHANGED wanted /\ UNCHANGED overlapped
<1>1. /\ todo' = [todo EXCEPT ![Updater] = {}] /\ outcome' = [outcome EXCEPT ![Updater] = "none"]
  BY DEF UpdaterDies
<1>2. /\ todo'[Updater] = {} /\ outcome'[Updater] = "none"
      /\ \A c \in Owner : todo'[c] = todo[c]
  BY <1>1, LifecycleAssumption DEF LifeInv, CommandTypes, Client
<1> QED BY <1>2 DEF UpdaterDies, intentVars

LEMMA DiesBase ==
    ASSUME LifeInv, BaseInv, UpdaterDies
    PROVE  BaseInv'
<1>1. UpdateTypes /\ RecordInv
  BY DEF BaseInv
<1>2. UpdateTypes' /\ RecordInv'
  BY <1>1, DiesFacts DEF UpdateTypes, RecordInv, Phase
<1> QED BY <1>2, DiesFacts, AtRest DEF BaseInv

\* The life of the commands and services, whatever the updater does.
LEMMA LifeStep == ASSUME LifeInv, BaseInv, UpdateNext PROVE LifeInv'
<1>1. PlanInv /\ CallInv
  BY DEF BaseInv
<1>2. CASE Begin \/ Prepare \/ Secure \/ Complete
  <2>1. UNCHANGED lifecycleVars
    BY <1>2 DEF Begin, Prepare, Secure, Complete
  <2> QED BY <2>1, OtherLife DEF lifecycleVars, intentVars, commandVars, LifeInv, ServiceTypes, CommandTypes
<1>3. CASE Fence \/ Conclude
  <2>1. /\ guardRecord' \in BOOLEAN /\ UNCHANGED installed /\ UNCHANGED marker /\ UNCHANGED intent
        /\ UNCHANGED serviceVars /\ UNCHANGED commandVars /\ UNCHANGED disturbed
    BY <1>3 DEF Fence, Conclude, intentVars, LifeInv, ServiceTypes
  <2> QED BY <2>1, OtherLife DEF commandVars, LifeInv, ServiceTypes, CommandTypes
<1>4. CASE Call
  BY <1>4, CallFacts, IssueLife DEF Client
<1>5. CASE WalkStep
  BY <1>1, <1>5, WalkFacts, OtherLife DEF RestKept, LifeInv, ServiceTypes
<1>6. CASE CommandStep(Updater)
  BY <1>6, CommandLife DEF Client
<1>7. CASE UpdaterDies
  BY <1>7, UpdaterDiesLife
<1>8. CASE \E c \in Owner : OwnerStep(c)
  <2>1. PICK c \in Owner : OwnerIssues(c) \/ CommandStep(c)
    BY <1>8 DEF OwnerStep
  <2> QED BY <2>1, CommandLife, OwnerIssuesLife DEF Client
<1>9. CASE \E u \in Unit : ServiceStep(u)
  BY <1>9, ServiceLife
<1> QED BY <1>2, <1>3, <1>4, <1>5, <1>6, <1>7, <1>8, <1>9 DEF UpdateNext, UpdaterStep, WalkStep

LEMMA BaseStep == ASSUME LifeInv, BaseInv, UpdateNext PROVE BaseInv'
<1>1. CASE Begin \/ Prepare \/ Secure \/ (Complete /\ UNCHANGED <<overlapped, applies>>)
  BY <1>1, EarlyBase
<1>2. CASE Fence
  BY <1>2, FenceBase
<1>3. CASE Conclude /\ UNCHANGED <<overlapped, applies>>
  BY <1>3, ConcludeBase
<1>4. CASE Call /\ UNCHANGED <<overlapped, applies>>
  BY <1>4, CallBase
<1>5. CASE WalkStep /\ UNCHANGED <<overlapped, applies>>
  BY <1>5, WalkBase
<1>6. CASE CommandStep(Updater) /\ UNCHANGED <<ownVars, overlapped, applies>>
  BY <1>6, CommandBase
<1>7. CASE UpdaterDies
  BY <1>7, DiesBase
<1>8. CASE \E c \in Owner : OwnerStep(c)
  BY <1>8, OwnerBase
<1>9. CASE \E u \in Unit : ServiceStep(u) /\ UNCHANGED <<ownVars, overlapped, applies>>
  <2>1. PICK u \in Unit : ServiceStep(u) /\ UNCHANGED <<ownVars, overlapped, applies>>
    BY <1>9
  <2> QED BY <2>1, ServiceBase
<1> QED BY <1>1, <1>2, <1>3, <1>4, <1>5, <1>6, <1>7, <1>8, <1>9 DEF UpdateNext, UpdaterStep, WalkStep

-----------------------------------------------------------------------------
(* The services and their markers, step by step.                           *)

\* After a way back nothing runs the program that was taken back.
TakenBack == record = "rolled_back" => \A u \in wanted \cap Unit : unit[u] # "new"

LEMMA EarlyAlone ==
    ASSUME LifeInv, BaseInv, AloneInv, Begin \/ Prepare \/ Secure \/ (Complete /\ UNCHANGED overlapped)
    PROVE  AloneInv'
<1>1. RecordInv /\ CallInv /\ UpdateTypes /\ PlanInv
  BY DEF BaseInv
<1>2. phase \in {"off", "build", "backup", "write"} /\ UNCHANGED lifecycleVars
  BY DEF Begin, Prepare, Secure, Complete
<1>3. UNCHANGED todo /\ UNCHANGED unit /\ UNCHANGED marker /\ UNCHANGED intent
  BY <1>2 DEF lifecycleVars, commandVars, serviceVars, intentVars
<1>4. CASE Begin
  <2>1. phase' = "build" /\ record' = "running"
    BY <1>4 DEF Begin
  <2> QED BY <2>1 DEF AloneInv, Activating
<1>5. CASE Prepare
  <2>1. /\ \/ record' \in {"completed", "failed"} /\ phase' = "off"
           \/ /\ overlapped' = (\E c \in Owner : todo[c] # {})
              /\ record' = "activating" /\ phase' = "backup"
    BY <1>5 DEF Prepare, AlreadyCurrent, CandidateFails, Finish
  <2> QED BY <1>3, <2>1 DEF AloneInv, Activating, BackoutInv, MarkerInv
<1>6. CASE Secure
  <2>1. /\ phase = "backup" /\ UNCHANGED overlapped
        /\ \/ /\ wanted' = marker \cup (IF intent THEN {"worker"} ELSE {})
              /\ phase' = "guard" /\ UNCHANGED record
           \/ record' = "recovery_required" /\ phase' = "off"
    BY <1>6 DEF Secure, Finish
  <2>2. record # "rolled_back" /\ marker \subseteq Unit /\ intent \in BOOLEAN
    BY <1>1, <2>1 DEF RecordInv, LifeInv, ServiceTypes
  <2>3. CASE phase' = "off"
    BY <2>1, <2>3 DEF AloneInv, Activating
  <2>4. CASE phase' = "guard"
    <3>1. wanted' = marker \cup (IF intent THEN {"worker"} ELSE {}) /\ record' # "rolled_back"
      BY <2>1, <2>2, <2>4
    <3>2. MarkerInv'
      <4>1. "worker" \notin marker
        BY <2>2 DEF Unit
      <4> QED BY <1>3, <2>2, <2>4, <3>1, <4>1 DEF MarkerInv, Walking
    <3> QED BY <1>3, <2>1, <2>4, <3>1, <3>2 DEF AloneInv, Activating, BackoutInv
  <2> QED BY <2>1, <2>3, <2>4
<1>7. CASE Complete /\ UNCHANGED overlapped
  <2>1. phase = "write" /\ UNCHANGED overlapped /\ UNCHANGED wanted
    BY <1>7 DEF Complete
  <2>2. \/ UNCHANGED phase /\ UNCHANGED record
        \/ phase' = "off" /\ record' \in {"completed", "recovery_required", record}
    BY <1>7 DEF Complete, Finish
  <2>3. record # "rolled_back"
    BY <1>1, <2>1 DEF RecordInv
  <2>4. CASE phase' = "off"
    BY <2>1, <2>2, <2>3, <2>4 DEF AloneInv, Activating
  <2>5. CASE phase' = "write"
    <3>1. MarkerInv => MarkerInv'
      BY <1>3, <2>1, <2>5 DEF MarkerInv, Walking
    <3> QED BY <1>3, <2>1, <2>2, <2>3, <2>5, <3>1 DEF AloneInv, Activating, BackoutInv
  <2> QED BY <2>1, <2>2, <2>4, <2>5
<1> QED BY <1>4, <1>5, <1>6, <1>7

LEMMA FenceAlone ==
    ASSUME LifeInv, BaseInv, AloneInv, Fence
    PROVE  AloneInv'
<1>1. RecordInv /\ CallInv /\ UpdateTypes /\ PlanInv
  BY DEF BaseInv
<1>2. /\ phase = "guard" /\ phase' = "activate" /\ plan' = For(Activation)
      /\ UNCHANGED record /\ UNCHANGED wanted /\ UNCHANGED overlapped
      /\ UNCHANGED todo /\ UNCHANGED outcome /\ UNCHANGED marker /\ UNCHANGED intent /\ UNCHANGED unit
  BY DEF Fence, commandVars, intentVars, serviceVars
<1>3. todo[Updater] = {} /\ outcome[Updater] = "none" /\ record # "rolled_back"
  BY <1>1, <1>2, NoCommand DEF Walking, RecordInv
<1>4. ~Starting'
  BY <1>2, <1>3 DEF Starting
<1>5. StartAt' = 6 /\ ("controller" \in wanted => 6 \in plan')
  <2>1. Activation[6].unit = "controller" /\ 6 \in DOMAIN Activation
    BY ActivationTable DEF Step
  <2> QED BY <1>2, <2>1 DEF StartAt, For
<1>6. MarkerInv => MarkerInv'
  BY <1>2, <1>4, <1>5 DEF MarkerInv
<1> QED BY <1>2, <1>3, <1>6 DEF AloneInv, Activating, BackoutInv

LEMMA ConcludeAlone ==
    ASSUME LifeInv, BaseInv, AloneInv, Conclude, UNCHANGED overlapped
    PROVE  AloneInv'
<1>1. RecordInv /\ CallInv /\ UpdateTypes /\ PlanInv
  BY DEF BaseInv
<1>2. /\ UNCHANGED todo /\ UNCHANGED marker /\ UNCHANGED intent /\ UNCHANGED unit /\ UNCHANGED wanted
      /\ plan = {}
  BY <1>1, ConcludeFacts DEF commandVars, serviceVars
<1>3. CASE phase' = "off"
  <2>1. (phase = "release" /\ UNCHANGED record) \/ record' = "recovery_required"
    BY <1>1, <1>3, ConcludeFacts
  <2> QED BY <1>2, <1>3, <2>1 DEF AloneInv, Activating
<1>4. CASE phase' # "off"
  <2>1. /\ phase \in {"activate", "backout"} /\ phase' \in {"write", "release"}
        /\ record' = "rolled_back" => phase = "backout" \/ record = "rolled_back"
    BY <1>1, <1>4, ConcludeFacts
  <2>2. record # "rolled_back"
    BY <1>1, <2>1 DEF RecordInv
  <2>3. MarkerInv => MarkerInv'
    BY <1>2, <2>1 DEF MarkerInv, Walking
  <2>4. BackoutInv => TakenBack'
    BY <1>2, <2>1, <2>2 DEF BackoutInv, TakenBack
  <2> QED BY <1>2, <2>1, <2>3, <2>4 DEF AloneInv, Activating, BackoutInv, TakenBack
<1> QED BY <1>3, <1>4

LEMMA DiesAlone ==
    ASSUME LifeInv, BaseInv, AloneInv, UpdaterDies
    PROVE  AloneInv'
<1>1. /\ phase' = "off" /\ UNCHANGED record /\ UNCHANGED wanted /\ UNCHANGED overlapped /\ UNCHANGED unit
  BY DiesFacts DEF serviceVars
<1> QED BY <1>1 DEF AloneInv, Activating

LEMMA CallAlone ==
    ASSUME LifeInv, BaseInv, AloneInv, Call, UNCHANGED overlapped
    PROVE  AloneInv'
<1>1. RecordInv /\ CallInv /\ UpdateTypes /\ PlanInv
  BY DEF BaseInv
<1>2. /\ Walking /\ UNCHANGED marker /\ UNCHANGED intent /\ UNCHANGED unit /\ UNCHANGED failed
      /\ UNCHANGED phase /\ UNCHANGED plan /\ UNCHANGED wanted /\ UNCHANGED record
      /\ todo'[Updater] = Way(DueStep) /\ outcome'[Updater] = "none" /\ DueStep \in Operation
      /\ \A c \in Owner : todo'[c] = todo[c]
  BY CallFacts DEF serviceVars, ownVars
<1>3. DueStep' = DueStep /\ StartAt' = StartAt
  <2>1. Due' = Due
    BY <1>2 DEF Due
  <2> QED BY <1>2, <2>1 DEF DueStep, StartAt
<1>4. ~Halting'
  <2>1. DueStep.op \in {"quiesce", "stop"} => "halt" \in Way(DueStep)
    BY <1>2, WayFacts
  <2> QED BY <1>2, <1>3, <2>1 DEF Halting
<1>5. ~Starting'
  <2>1. DueStep = Step("controller", "start") => "mark" \in Way(DueStep)
    BY <1>2, WayFacts DEF Step
  <2> QED BY <1>2, <1>3, <2>1 DEF Starting
<1>6. MarkerInv => MarkerInv'
  <2>1. Walking' <=> Walking
    BY <1>2 DEF Walking
  <2> QED BY <1>2, <1>3, <1>5, <2>1 DEF MarkerInv
<1>7. BackoutInv => BackoutInv'
  <2>1. \A u \in Unit : Down(u)' <=> Down(u)
    BY <1>2 DEF Down
  <2> QED BY <1>2, <1>4, <2>1 DEF BackoutInv
<1> QED BY <1>2, <1>6, <1>7 DEF AloneInv, Activating

LEMMA OwnerAlone ==
    ASSUME LifeInv, BaseInv, AloneInv, NEW c \in Owner, OwnerStep(c)
    PROVE  AloneInv'
<1>1. RecordInv /\ CallInv /\ UpdateTypes /\ PlanInv /\ ServiceTypes
  BY DEF BaseInv, LifeInv
<1> SUFFICES ASSUME ~overlapped' PROVE AloneInv'
  BY DEF AloneInv
<1>2. /\ ~overlapped /\ ~Activating /\ UNCHANGED phase /\ UNCHANGED record /\ UNCHANGED wanted
  BY <1>1 DEF OwnerStep, ownVars, UpdateTypes
<1>3. TakenBack
  BY <1>2 DEF AloneInv, TakenBack
<1>4. record = "rolled_back" => installed = "old"
  BY <1>1 DEF RecordInv
<1>5. ASSUME NEW u \in Unit PROVE unit'[u] \in {unit[u], "down", installed}
  <2>1. CASE OwnerIssues(c)
    <3>1. UNCHANGED unit
      BY <2>1 DEF OwnerIssues, Issue, serviceVars
    <3> QED BY <3>1
  <2>2. CASE CommandStep(c)
    <3>1. CASE Halt(c)
      BY <1>1, <3>1 DEF Halt, Ends, ServiceTypes
    <3>2. CASE Launch(c)
      BY <1>1, <3>2 DEF Launch, ServiceTypes
    <3>3. CASE ManagerFails(c)
      <4>1. UNCHANGED unit \/ unit' = [unit EXCEPT ![aim[c].unit] = "down"]
        BY <3>3 DEF ManagerFails
      <4> QED BY <1>1, <4>1 DEF ServiceTypes
    <3>4. CASE ~Halt(c) /\ ~Launch(c) /\ ~ManagerFails(c)
      <4>1. UNCHANGED unit
        BY <2>2, <3>4 DEF CommandStep, Lock, Quiesce, Unmark, Vacant, Mark, Gone, Await, TimeOut, Ask, Killed, serviceVars
      <4> QED BY <4>1
    <3> QED BY <3>1, <3>2, <3>3, <3>4
  <2> QED BY <2>1, <2>2 DEF OwnerStep
<1>6. TakenBack'
  BY <1>2, <1>3, <1>4, <1>5 DEF TakenBack
<1>7. ~Activating'
  BY <1>2 DEF Activating
<1> QED BY <1>6, <1>7 DEF AloneInv, TakenBack

LEMMA ServiceAlone ==
    ASSUME LifeInv, BaseInv, AloneInv, NEW s \in Unit, ServiceStep(s), UNCHANGED ownVars, UNCHANGED overlapped
    PROVE  AloneInv'
<1>1. RecordInv /\ CallInv /\ UpdateTypes /\ PlanInv /\ ServiceTypes
  BY DEF BaseInv, LifeInv
<1>2. /\ UNCHANGED phase /\ UNCHANGED plan /\ UNCHANGED record /\ UNCHANGED wanted
      /\ UNCHANGED todo /\ UNCHANGED outcome /\ UNCHANGED marker /\ UNCHANGED intent
  BY DEF ServiceStep, ownVars, commandVars, intentVars
<1>3. DueStep' = DueStep /\ StartAt' = StartAt /\ (Walking' <=> Walking)
  <2>1. Due' = Due
    BY <1>2 DEF Due
  <2> QED BY <1>2, <2>1 DEF DueStep, StartAt, Walking
<1>4. ASSUME NEW u \in Unit
      PROVE  /\ unit'[u] \in {unit[u], "down", installed}
             /\ Down(u) => Down(u)'
  <2>1. \/ UNCHANGED unit /\ UNCHANGED failed
        \/ unit' = [unit EXCEPT ![s] = "down"] /\ unit[s] # "down" /\ failed' \subseteq failed \cup {s}
        \/ unit' = [unit EXCEPT ![s] = installed] /\ s \in failed /\ failed' = failed \ {s}
    <3>1. CASE Boot(s)
      BY <3>1 DEF Boot, Ends
    <3>2. CASE Resign(s)
      BY <1>1, <3>2 DEF Resign, Ends, ServiceTypes
    <3>3. CASE TakeWork(s) \/ EndWork(s)
      BY <3>3 DEF TakeWork, EndWork
    <3>4. CASE Restart(s)
      BY <3>4 DEF Restart
    <3>5. CASE Crash(s)
      BY <3>5 DEF Crash, Ends
    <3> QED BY <3>1, <3>2, <3>3, <3>4, <3>5 DEF ServiceStep
  <2> QED BY <1>1, <2>1 DEF ServiceTypes, Down
<1>5. TakenBack => TakenBack'
  BY <1>1, <1>2, <1>4 DEF TakenBack, RecordInv
<1>6. MarkerInv => MarkerInv'
  <2>1. Starting' <=> Starting
    BY <1>2, <1>3 DEF Starting
  <2> QED BY <1>2, <1>3, <2>1 DEF MarkerInv
<1>7. BackoutInv => BackoutInv'
  <2> SUFFICES ASSUME BackoutInv, phase = "backout" PROVE BackoutInv'
    BY <1>2 DEF BackoutInv
  <2>1. Halting' <=> Halting
    BY <1>2, <1>3 DEF Halting
  <2>2. 4 \in plan /\ Halting => DueStep.unit \in Unit
    <3>1. Halting => plan # {} /\ DueStep.op \in Calls
      BY <1>1 DEF CallInv, Halting
    <3> QED BY <1>1, <3>1, DueFacts DEF IsStep, Walking
  <2>3. 4 \in plan /\ Halting => unit'[DueStep.unit] = "down" /\ DueStep.unit \notin failed'
    <3>1. \A u \in Unit : Down(u) => unit'[u] = "down" /\ u \notin failed'
      BY <1>4 DEF Down
    <3> QED BY <2>2, <3>1 DEF BackoutInv
  <2>4. 4 \in plan => \A u \in wanted \cap Unit : StopAt[u] \notin plan => Down(u)'
    BY <1>4 DEF BackoutInv
  <2>5. 4 \notin plan => \A u \in wanted \cap Unit : unit'[u] # "new"
    BY <1>1, <1>4 DEF BackoutInv, PlanInv
  <2> QED BY <1>2, <1>3, <2>1, <2>3, <2>4, <2>5 DEF BackoutInv, Down, StopAt
<1> QED BY <1>2, <1>5, <1>6, <1>7 DEF AloneInv, Activating, TakenBack

LEMMA StopIsEarly == \A u \in Unit : StopAt[u] \in 1..3 /\ StopAt[u] < 4 /\ ~(4 <= StopAt[u])
<1>1. StopAt["chat"] = 1 /\ StopAt["monitor"] = 2 /\ StopAt["controller"] = 3
  BY DEF StopAt
<1> QED BY <1>1 DEF Unit

LEMMA WalkAlone ==
    ASSUME LifeInv, BaseInv, AloneInv, WalkStep, UNCHANGED overlapped
    PROVE  AloneInv'
<1>1. RecordInv /\ CallInv /\ UpdateTypes /\ PlanInv /\ ServiceTypes
  BY DEF BaseInv, LifeInv
<1>2. /\ Walking /\ plan # {} /\ todo[Updater] = {} /\ outcome'[Updater] = "none"
      /\ UNCHANGED wanted /\ UNCHANGED marker /\ UNCHANGED unit /\ UNCHANGED failed /\ UNCHANGED todo
      /\ intent' = intent \/ (intent' = TRUE /\ "worker" \in wanted)
      /\ Advance /\ DueStep.op \in Calls => outcome[Updater] = "done"
      /\ Advance \/ Abandon
  BY <1>1, WalkFacts DEF RestKept, serviceVars
<1>3. record = "activating" /\ UNCHANGED record
  BY <1>1, <1>2 DEF RecordInv, Walking, Advance, Abandon
<1>4. Due \in plan /\ Due \in 1..12 /\ \A k \in plan : k \in 1..12 /\ Due <= k
  BY <1>1, <1>2, DueFacts
<1>5. ~Starting' /\ ~Halting'
  BY <1>2 DEF Starting, Halting
<1>6. \A u \in Unit : Down(u)' <=> Down(u)
  BY <1>2 DEF Down
<1>7. StopAt["chat"] = 1 /\ StopAt["monitor"] = 2 /\ StopAt["controller"] = 3
  BY DEF StopAt
<1>8. CASE Advance
  <2>1. plan' = plan \ {Due} /\ UNCHANGED phase
    BY <1>8 DEF Advance
  <2>2. StartAt' = StartAt /\ (Walking' <=> Walking)
    BY <2>1 DEF StartAt, Walking
  <2>3. MarkerInv => MarkerInv'
    <3> SUFFICES ASSUME MarkerInv PROVE MarkerInv'
      OBVIOUS
    <3>1. Due = StartAt => Starting
      <4>1. Due = StartAt => DueStep = Step("controller", "start") /\ DueStep.op \in Calls
        BY <1>1, <1>2, DueFacts DEF IsStep, Calls
      <4> QED BY <1>2, <1>8, <4>1 DEF Starting
    <3>2. Due = StartAt => "controller" \in marker
      BY <1>2, <3>1 DEF MarkerInv, Walking
    <3>3. phase \in {"activate", "backout"}
      BY <1>2 DEF Walking
    <3>4. "controller" \in wanted /\ StartAt \notin plan' => "controller" \in marker
      BY <1>2, <2>1, <3>2, <3>3 DEF MarkerInv
    <3>5. intent' <=> "worker" \in wanted
      <4>1. intent <=> "worker" \in wanted
        BY <3>3 DEF MarkerInv
      <4>2. CASE intent' = intent
        BY <4>1, <4>2, Zenon
      <4>3. CASE intent' = TRUE /\ "worker" \in wanted
        BY <4>3, Zenon
      <4> QED BY <1>2, <4>2, <4>3
    <3>6. marker' \subseteq wanted' /\ wanted' \cap {"chat", "monitor"} \subseteq marker' /\ (intent' <=> "worker" \in wanted')
      BY <1>2, <3>3, <3>5 DEF MarkerInv
    <3>7. phase' \in {"activate", "backout"}
      BY <2>1, <3>3
    <3>8. "controller" \in wanted' /\ StartAt' \notin plan' => "controller" \in marker'
      BY <1>2, <2>2, <3>4
    <3> QED BY <1>5, <3>6, <3>7, <3>8 DEF MarkerInv
  <2>4. BackoutInv => BackoutInv'
    <3> SUFFICES ASSUME BackoutInv, phase = "backout" PROVE BackoutInv'
      BY <2>1 DEF BackoutInv
    <3>1. /\ Due = 4 <=> DueStep.op = "restore"
          /\ DueStep.op \in {"quiesce", "stop"} <=> Due < 4
          /\ \A u \in Unit : StopAt[u] = Due => DueStep.unit = u
      BY <1>1, <1>2, DueFacts
    <3>2. 4 \in plan' => \A u \in wanted \cap Unit : StopAt[u] \notin plan' => Down(u)
      <4> SUFFICES ASSUME 4 \in plan', NEW u \in wanted \cap Unit, StopAt[u] \notin plan' PROVE Down(u)
        OBVIOUS
      <4>1. 4 \in plan
        BY <2>1
      <4>2. CASE StopAt[u] \notin plan
        BY <4>1, <4>2 DEF BackoutInv
      <4>3. CASE StopAt[u] \in plan
        <5>1. u \in Unit /\ StopAt[u] = Due
          BY <2>1, <4>3
        <5>2. Due < 4
          BY <5>1, StopIsEarly
        <5>3. StopAt[u] = Due /\ Due < 4 /\ DueStep.unit = u /\ DueStep.op \in {"quiesce", "stop"}
          BY <3>1, <5>1, <5>2
        <5>4. Halting
          BY <1>2, <1>8, <5>3 DEF Halting, Calls
        <5> QED BY <4>1, <5>3, <5>4 DEF BackoutInv
      <4> QED BY <4>2, <4>3
    <3>3. 4 \notin plan' => \A u \in wanted \cap Unit : unit[u] # "new"
      <4> SUFFICES ASSUME 4 \notin plan', NEW u \in wanted \cap Unit PROVE unit[u] # "new"
        OBVIOUS
      <4>1. CASE 4 \notin plan
        BY <4>1 DEF BackoutInv
      <4>2. CASE 4 \in plan
        <5>1. Due = 4
          BY <2>1, <4>2
        <5>2. StopAt[u] \notin plan
          BY <1>4, <5>1, StopIsEarly
        <5> QED BY <4>2, <5>2 DEF BackoutInv, Down
      <4> QED BY <4>1, <4>2
    <3>4. phase' = "backout"
      BY <2>1
    <3> QED BY <1>2, <1>5, <1>6, <3>2, <3>3, <3>4 DEF BackoutInv, StopAt
  <2> QED BY <1>2, <1>3, <2>1, <2>3, <2>4 DEF AloneInv, Activating
<1>9. CASE Abandon
  <2>1. \/ phase = "activate" /\ phase' = "backout" /\ plan' = For(Backout)
        \/ phase = "backout" /\ phase' = "giveup" /\ plan' = {}
    BY <1>9 DEF Abandon
  <2>2. CASE phase' = "giveup"
    BY <1>2, <1>3, <2>1, <2>2 DEF AloneInv, Activating, BackoutInv, MarkerInv
  <2>3. CASE phase' = "backout"
    <3>1. plan' = For(Backout) /\ phase = "activate"
      BY <2>1, <2>3
    <3>2. 4 \in plan'
      <4>1. Backout[4].unit = "files" /\ 4 \in DOMAIN Backout
        BY BackoutTable DEF Step
      <4> QED BY <3>1, <4>1 DEF For
    <3>3. \A u \in wanted \cap Unit : StopAt[u] \in plan'
      <4>1. /\ Backout[1].unit = "chat" /\ Backout[2].unit = "monitor" /\ Backout[3].unit = "controller"
            /\ 1 \in DOMAIN Backout /\ 2 \in DOMAIN Backout /\ 3 \in DOMAIN Backout
        BY BackoutTable DEF Step
      <4> QED BY <1>7, <3>1, <4>1 DEF For, Unit
    <3>4. BackoutInv'
      BY <1>2, <1>5, <3>2, <3>3 DEF BackoutInv, StopAt
    <3>5. "controller" \in wanted => 5 \in plan'
      <4>1. Backout[5].unit = "controller" /\ 5 \in DOMAIN Backout
        BY BackoutTable DEF Step
      <4> QED BY <3>1, <4>1 DEF For
    <3>6. StartAt' = 5
      BY <2>3 DEF StartAt
    <3>7. MarkerInv => (intent' <=> "worker" \in wanted)
      BY <1>2, <3>1 DEF MarkerInv
    <3>8. MarkerInv => MarkerInv'
      BY <1>2, <1>5, <2>3, <3>1, <3>5, <3>6, <3>7 DEF MarkerInv
    <3> QED BY <1>2, <1>3, <2>3, <3>1, <3>4, <3>8 DEF AloneInv, Activating
  <2> QED BY <2>1, <2>2, <2>3
<1> QED BY <1>2, <1>8, <1>9

\* What a command has passed when it goes on, or ends well, without a step it had left.
LEMMA StepAway ==
    ASSUME CommandTypes, NEW s \in Stage, At(Updater, s), Proceed(Updater) \/ Fail(Updater),
           NEW t \in Stage, t \in todo[Updater], t # s
    PROVE  t \in todo'[Updater] \/ (todo'[Updater] = {} /\ outcome'[Updater] = "failed")
<1>1. Left(Updater) = todo[Updater] \ {s} /\ t \in Left(Updater) /\ Updater \in Client
  BY AtFacts DEF Client
<1>2. CASE Fail(Updater)
  BY <1>1, <1>2 DEF Fail, Close, CommandTypes
<1>3. CASE Proceed(Updater)
  BY <1>1, <1>3 DEF Proceed, CommandTypes
<1> QED BY <1>2, <1>3

LEMMA Passing ==
    ASSUME LifeInv, CommandStep(Updater), NEW t \in {"halt", "mark"}, t \in todo[Updater],
           t \notin todo'[Updater], todo'[Updater] # {} \/ outcome'[Updater] = "done"
    PROVE  /\ t = "halt" => Halt(Updater)
           /\ t = "mark" => Mark(Updater) \/ marker' = marker \cup {"controller"}
<1>1. CommandTypes /\ OnRoute /\ Updater \in Client /\ t \in Stage
  BY PlaceFacts DEF LifeInv, Client
<1>2. ~Fail(Updater)
  BY <1>1 DEF Fail, Close, CommandTypes
<1>3. ASSUME NEW s \in Stage, At(Updater, s), Proceed(Updater) PROVE t = s
  BY <1>1, <1>2, <1>3, StepAway
<1>4. CASE Lock(Updater)
  BY <1>2, <1>3, <1>4, PlaceFacts DEF Lock
<1>5. CASE Quiesce(Updater)
  <2>1. todo' = [todo EXCEPT ![Updater] = Left(Updater)] /\ At(Updater, "quiesce")
    BY <1>2, <1>5 DEF Quiesce
  <2>2. Left(Updater) = todo[Updater] \ {"quiesce"}
    BY <1>1, <2>1, AtFacts, PlaceFacts
  <2> QED BY <1>1, <2>1, <2>2 DEF CommandTypes
<1>6. CASE Unmark(Updater) \/ Gone(Updater) \/ Launch(Updater) \/ Await(Updater) \/ Ask(Updater)
  <2>1. PICK s \in {"unmark", "gone", "launch", "ready", "ask"} : At(Updater, s) /\ Proceed(Updater)
    BY <1>2, <1>6 DEF Unmark, Gone, Launch, Await, Ask
  <2> QED BY <1>3, <2>1, PlaceFacts
<1>7. CASE Vacant(Updater)
  <2>1. /\ At(Updater, "vacant")
        /\ \/ Proceed(Updater)
           \/ aim[Updater].op = "start" /\ marker' = marker \cup {"controller"}
    BY <1>2, <1>7 DEF Vacant
  <2>2. CASE Proceed(Updater)
    BY <1>3, <2>1, <2>2, PlaceFacts
  <2>3. CASE aim[Updater].op = "start" /\ marker' = marker \cup {"controller"}
    <3>1. aim[Updater] \in Operation /\ t \in Way(aim[Updater])
      BY <1>1 DEF OnRoute
    <3> QED BY <2>3, <3>1, WayFacts
  <2> QED BY <2>1, <2>2, <2>3
<1>8. CASE Halt(Updater)
  BY <1>3, <1>8, PlaceFacts DEF Halt
<1>9. CASE Mark(Updater)
  BY <1>3, <1>9, PlaceFacts DEF Mark
<1> QED BY <1>2, <1>4, <1>5, <1>6, <1>7, <1>8, <1>9 DEF CommandStep, TimeOut, ManagerFails, Killed

\* What a step of a command does to the services and to the markers.
LEMMA CommandEffect ==
    ASSUME LifeInv, NEW c \in Client, CommandStep(c)
    PROVE  /\ \A u \in Unit : unit'[u] \in {unit[u], "down", installed}
           /\ \A u \in Unit : u # aim[c].unit => unit'[u] = unit[u]
           /\ "launch" \notin todo[c] => \A u \in Unit : unit'[u] \in {unit[u], "down"}
           /\ failed' \subseteq failed
           /\ "ask" \notin todo[c] => intent' = intent
           /\ \/ marker' = marker
              \/ "unmark" \in todo[c] /\ marker' = marker \ {aim[c].unit}
              \/ "mark" \in todo[c] /\ marker' = marker \cup {aim[c].unit}
              \/ aim[c].unit = "controller" /\ aim[c].op \in {"start", "stop"} /\ marker' = marker \cup {"controller"}
<1>1. CommandTypes /\ OnRoute /\ PromiseInv /\ unit \in [Unit -> {"down", "old", "new"}]
  BY DEF LifeInv, ServiceTypes
<1>2. CASE Lock(c) \/ Quiesce(c) \/ Gone(c) \/ Await(c) \/ Killed(c)
  <2>1. UNCHANGED unit /\ UNCHANGED failed /\ UNCHANGED intent /\ UNCHANGED marker
    BY <1>2 DEF Lock, Quiesce, Gone, Await, Killed, serviceVars, intentVars
  <2> QED BY <2>1
<1>3. CASE Ask(c)
  <2>1. UNCHANGED unit /\ UNCHANGED failed /\ UNCHANGED marker /\ "ask" \in todo[c]
    BY <1>3 DEF Ask, At
  <2> QED BY <2>1
<1>4. CASE Unmark(c)
  <2>1. UNCHANGED unit /\ UNCHANGED failed /\ UNCHANGED intent /\ marker' = marker \ {aim[c].unit} /\ "unmark" \in todo[c]
    BY <1>4 DEF Unmark, At, serviceVars
  <2> QED BY <2>1
<1>5. CASE Mark(c)
  <2>1. UNCHANGED unit /\ UNCHANGED failed /\ UNCHANGED intent /\ marker' = marker \cup {aim[c].unit} /\ "mark" \in todo[c]
    BY <1>5 DEF Mark, At, serviceVars
  <2> QED BY <2>1
<1>6. CASE Vacant(c)
  <2>1. /\ UNCHANGED unit /\ UNCHANGED failed /\ UNCHANGED intent /\ "vacant" \in todo[c]
        /\ UNCHANGED marker \/ (aim[c].op = "start" /\ marker' = marker \cup {"controller"})
    BY <1>6 DEF Vacant, At, serviceVars
  <2>2. aim[c].unit = "controller"
    <3>1. aim[c] \in Operation /\ "vacant" \in Way(aim[c])
      BY <1>1, <2>1 DEF OnRoute
    <3> QED BY <3>1, WayFacts
  <2> QED BY <2>1, <2>2
<1>7. CASE Halt(c)
  <2>1. unit' = [unit EXCEPT ![aim[c].unit] = "down"] /\ failed' \subseteq failed /\ UNCHANGED intent /\ UNCHANGED marker
    BY <1>7 DEF Halt, Ends, intentVars
  <2> QED BY <1>1, <2>1
<1>8. CASE Launch(c)
  <2>1. /\ unit' = [unit EXCEPT ![aim[c].unit] = IF @ = "down" THEN installed ELSE @] /\ failed' \subseteq failed
        /\ UNCHANGED intent /\ UNCHANGED marker /\ "launch" \in todo[c]
    BY <1>8 DEF Launch, At, intentVars
  <2> QED BY <1>1, <2>1
<1>9. CASE TimeOut(c) \/ ManagerFails(c)
  <2>1. /\ UNCHANGED intent /\ failed' \subseteq failed
        /\ UNCHANGED unit \/ unit' = [unit EXCEPT ![aim[c].unit] = "down"]
        /\ UNCHANGED marker \/ Rollback(c)
    BY <1>9 DEF TimeOut, ManagerFails
  <2>2. Rollback(c) => \/ marker' = marker
                       \/ aim[c].unit = "controller" /\ aim[c].op = "stop" /\ marker' = marker \cup {"controller"}
    BY <1>1 DEF Rollback, PromiseInv
  <2> QED BY <1>1, <2>1, <2>2
<1> QED BY <1>2, <1>3, <1>4, <1>5, <1>6, <1>7, <1>8, <1>9 DEF CommandStep

LEMMA CommandAlone ==
    ASSUME LifeInv, BaseInv, AloneInv, CommandStep(Updater), UNCHANGED ownVars, UNCHANGED overlapped
    PROVE  AloneInv'
<1>1. RecordInv /\ CallInv /\ UpdateTypes /\ PlanInv /\ ServiceTypes /\ CommandTypes /\ OnRoute /\ Updater \in Client
  BY DEF BaseInv, LifeInv, Client
<1>2. /\ UNCHANGED phase /\ UNCHANGED plan /\ UNCHANGED record /\ UNCHANGED wanted
  BY DEF ownVars
<1>3. /\ todo[Updater] # {} /\ \A c \in Owner : todo'[c] = todo[c]
      /\ GoesOn(Updater) \/ Over(Updater)
      /\ todo'[Updater] # {} => aim'[Updater] = aim[Updater] /\ outcome'[Updater] = outcome[Updater]
  BY <1>1, CommandControl, LifecycleAssumption DEF Client
<1>4. /\ Walking /\ plan # {} /\ DueStep.op \in Calls /\ aim[Updater] = DueStep /\ outcome[Updater] = "none"
  BY <1>1, <1>3 DEF CallInv
<1>5. /\ DueStep \in Operation /\ todo[Updater] \subseteq Way(DueStep) /\ DueStep.unit \in Unit
  BY <1>1, <1>3, <1>4, DueFacts DEF OnRoute, IsStep
<1>6. /\ DueStep.unit \in wanted \cap Unit /\ Due \in plan
      /\ DueStep.op = "start" => DueStep = Step("controller", "start")
      /\ DueStep.op = "start" <=> Due = StartAt
      /\ DueStep.op = "stop" => DueStep.unit = "controller" /\ Due = 3
      /\ \A k \in plan : k \in 1..12 /\ Due <= k /\ Due \in 1..12
  <2>1. DueStep.unit # "files"
    BY <1>5 DEF Unit
  <2> QED BY <1>1, <1>4, <1>5, <2>1, DueFacts DEF IsStep
<1>7. DueStep' = DueStep /\ StartAt' = StartAt /\ (Walking' <=> Walking)
  <2>1. Due' = Due
    BY <1>2 DEF Due
  <2> QED BY <1>2, <2>1 DEF DueStep, StartAt, Walking
<1>8. record # "rolled_back" /\ phase \in {"activate", "backout"}
  BY <1>1, <1>4 DEF RecordInv, Walking
<1>9. MarkerInv => MarkerInv'
  <2> SUFFICES ASSUME MarkerInv PROVE MarkerInv'
    OBVIOUS
  <2>1. intent' = intent
    <3>1. "ask" \notin todo[Updater]
      BY <1>5, WayFacts DEF Unit
    <3> QED BY <1>1, <3>1, CommandEffect
  <2>2. \/ marker' = marker
        \/ DueStep.op = "stop" /\ marker' = marker \ {"controller"}
        \/ DueStep.op \in {"start", "stop"} /\ DueStep.unit = "controller" /\ marker' = marker \cup {"controller"}
    <3>1. "unmark" \in todo[Updater] => DueStep.op = "stop"
      BY <1>4, <1>5, WayFacts DEF Calls
    <3>2. "mark" \in todo[Updater] => DueStep.op = "start" /\ DueStep.unit = "controller"
      BY <1>4, <1>5, <1>6, WayFacts DEF Calls, Step
    <3> QED BY <1>1, <1>4, <1>6, <3>1, <3>2, CommandEffect
  <2>3. marker' \subseteq wanted /\ wanted \cap {"chat", "monitor"} \subseteq marker'
    <3>1. marker \subseteq wanted /\ wanted \cap {"chat", "monitor"} \subseteq marker
      BY <1>8 DEF MarkerInv
    <3> QED BY <1>6, <2>2, <3>1
  <2>4. "controller" \in wanted /\ StartAt \notin plan => "controller" \in marker'
    <3> SUFFICES ASSUME "controller" \in wanted, StartAt \notin plan PROVE "controller" \in marker'
      OBVIOUS
    <3>1. "controller" \in marker
      BY <1>4, <1>8 DEF MarkerInv
    <3>2. DueStep.op # "stop"
      <4>1. SUFFICES ASSUME Due = 3 PROVE FALSE
        BY <1>6
      <4>2. StartAt \in For(Steps) /\ 3 <= StartAt
        <5>1. CASE phase = "activate"
          <6>1. Activation[6].unit = "controller" /\ 6 \in DOMAIN Activation
            BY ActivationTable DEF Step
          <6>2. StartAt = 6 /\ Steps = Activation
            BY <5>1 DEF StartAt, Steps
          <6> QED BY <6>1, <6>2 DEF For
        <5>2. CASE phase = "backout"
          <6>1. Backout[5].unit = "controller" /\ 5 \in DOMAIN Backout
            BY BackoutTable DEF Step
          <6>2. StartAt = 5 /\ Steps = Backout
            BY <5>2 DEF StartAt, Steps
          <6> QED BY <6>1, <6>2 DEF For
        <5> QED BY <1>8, <5>1, <5>2
      <4> QED BY <1>1, <1>4, <1>6, <4>1, <4>2 DEF PlanInv
    <3> QED BY <2>2, <3>1, <3>2
  <2>5. Starting' => "controller" \in marker'
    <3> SUFFICES ASSUME Starting' PROVE "controller" \in marker'
      OBVIOUS
    <3>1. /\ DueStep = Step("controller", "start")
          /\ \/ todo'[Updater] # {} /\ "mark" \notin todo'[Updater]
             \/ outcome'[Updater] = "done"
      BY <1>7 DEF Starting
    <3>2. DueStep.op = "start" /\ DueStep.unit = "controller"
      BY <3>1 DEF Step
    <3>3. CASE "mark" \in todo[Updater]
      <4>1. "mark" \notin todo'[Updater]
        BY <1>3, <1>4, <3>1
      <4>2. Mark(Updater) \/ marker' = marker \cup {"controller"}
        BY <3>1, <3>3, <4>1, Passing
      <4> QED BY <1>4, <3>2, <4>2 DEF Mark
    <3>4. CASE "mark" \notin todo[Updater]
      <4>1. Starting
        BY <1>3, <3>1, <3>4 DEF Starting
      <4>2. "controller" \in marker
        BY <1>4, <1>8, <4>1 DEF MarkerInv
      <4> QED BY <2>2, <3>2, <4>2
    <3> QED BY <3>3, <3>4
  <2>6. intent' <=> "worker" \in wanted
    <3>1. intent <=> "worker" \in wanted
      BY <1>8 DEF MarkerInv
    <3> QED BY <2>1, <3>1, Zenon
  <2>7. phase' \notin {"guard", "release", "write"} /\ wanted' = wanted /\ plan' = plan
    BY <1>2, <1>8
  <2>8. "controller" \in wanted' /\ StartAt' \notin plan' => "controller" \in marker'
    BY <1>7, <2>4, <2>7
  <2> QED BY <2>3, <2>5, <2>6, <2>7, <2>8 DEF MarkerInv
<1>10. BackoutInv => BackoutInv'
  <2> SUFFICES ASSUME BackoutInv, phase = "backout" PROVE BackoutInv'
    BY <1>2 DEF BackoutInv
  <2>1. 4 \notin plan => \A u \in wanted \cap Unit : unit'[u] # "new"
    <3>1. 4 \notin plan => installed = "old" /\ \A u \in wanted \cap Unit : unit[u] # "new"
      BY <1>1 DEF BackoutInv, PlanInv
    <3>2. \A u \in Unit : unit'[u] \in {unit[u], "down", installed}
      BY <1>1, CommandEffect
    <3> QED BY <3>1, <3>2
  <2>2. ASSUME 4 \in plan
        PROVE  /\ DueStep.op \in {"quiesce", "stop"} /\ StopAt[DueStep.unit] = Due
               /\ \A u \in Unit : unit'[u] \in {unit[u], "down"}
               /\ failed' \subseteq failed
    <3>1. Due <= 4 /\ Due # 4
      <4>1. DueStep.op # "restore"
        BY <1>4 DEF Calls
      <4> QED BY <1>1, <1>4, <1>6, <2>2, <4>1, DueFacts
    <3>2. Due < 4
      <4>1. Due \in 1..12
        BY <1>6
      <4> QED BY <3>1, <4>1
    <3>3. DueStep.op \in {"quiesce", "stop"} /\ StopAt[DueStep.unit] = Due
      BY <1>1, <1>4, <3>2, DueFacts
    <3>4. "launch" \notin todo[Updater]
      BY <1>5, <3>3, WayFacts
    <3> QED BY <1>1, <3>3, <3>4, CommandEffect
  <2>3. ASSUME 4 \in plan, NEW u \in wanted \cap Unit, StopAt[u] \notin plan PROVE Down(u)'
    <3>1. Down(u)
      BY <2>3 DEF BackoutInv
    <3> QED BY <2>2, <2>3, <3>1 DEF Down
  <2>4. ASSUME 4 \in plan, Halting' PROVE unit'[DueStep.unit] = "down" /\ DueStep.unit \notin failed'
    <3>1. \/ todo'[Updater] # {} /\ "halt" \notin todo'[Updater]
          \/ outcome'[Updater] = "done"
      BY <2>4 DEF Halting
    <3>2. CASE "halt" \in todo[Updater]
      <4>1. "halt" \notin todo'[Updater]
        BY <1>1, <1>3, <1>4, <3>1 DEF GoesOn, Over, CommandTypes
      <4>2. Halt(Updater)
        BY <3>1, <3>2, <4>1, Passing
      <4>3. unit' = [unit EXCEPT ![DueStep.unit] = "down"] /\ failed' = failed \ {DueStep.unit}
        BY <1>4, <4>2 DEF Halt, Ends
      <4> QED BY <1>1, <1>5, <4>3 DEF ServiceTypes
    <3>3. CASE "halt" \notin todo[Updater]
      <4>1. Halting
        BY <1>3, <2>2, <2>4, <3>3 DEF Halting
      <4>2. Down(DueStep.unit)
        BY <2>4, <4>1 DEF BackoutInv
      <4> QED BY <1>5, <2>2, <2>4, <4>2 DEF Down
    <3> QED BY <3>2, <3>3
  <2> QED BY <1>2, <1>7, <2>1, <2>3, <2>4 DEF BackoutInv, Down, StopAt
<1> QED BY <1>2, <1>3, <1>8, <1>9, <1>10 DEF AloneInv, Activating

LEMMA AloneStep == ASSUME LifeInv, BaseInv, AloneInv, UpdateNext PROVE AloneInv'
<1>1. CASE Begin \/ Prepare \/ Secure \/ (Complete /\ UNCHANGED <<overlapped, applies>>)
  BY <1>1, EarlyAlone
<1>2. CASE Fence
  BY <1>2, FenceAlone
<1>3. CASE Conclude /\ UNCHANGED <<overlapped, applies>>
  BY <1>3, ConcludeAlone
<1>4. CASE Call /\ UNCHANGED <<overlapped, applies>>
  BY <1>4, CallAlone
<1>5. CASE WalkStep /\ UNCHANGED <<overlapped, applies>>
  BY <1>5, WalkAlone
<1>6. CASE CommandStep(Updater) /\ UNCHANGED <<ownVars, overlapped, applies>>
  BY <1>6, CommandAlone
<1>7. CASE UpdaterDies
  BY <1>7, DiesAlone
<1>8. CASE \E c \in Owner : OwnerStep(c)
  BY <1>8, OwnerAlone
<1>9. CASE \E u \in Unit : ServiceStep(u) /\ UNCHANGED <<ownVars, overlapped, applies>>
  <2>1. PICK u \in Unit : ServiceStep(u) /\ UNCHANGED <<ownVars, overlapped, applies>>
    BY <1>9
  <2> QED BY <2>1, ServiceAlone
<1> QED BY <1>1, <1>2, <1>3, <1>4, <1>5, <1>6, <1>7, <1>8, <1>9 DEF UpdateNext, UpdaterStep, WalkStep

-----------------------------------------------------------------------------
LEMMA Starts == UpdateInit => UpdateInv
<1> SUFFICES ASSUME UpdateInit PROVE UpdateInv
  OBVIOUS
<1>1. LifecycleInit /\ revision = "old" /\ record = "none" /\ backup = FALSE /\ phase = "off" /\ plan = {}
      /\ wanted = {} /\ overlapped = FALSE
  BY DEF UpdateInit
<1>2. LifeInv
  BY <1>1, LifeStarts
<1>3. installed = "old" /\ todo[Updater] = {} /\ outcome[Updater] = "none"
  BY <1>1 DEF LifecycleInit, Client
<1>4. UpdateTypes /\ RecordInv /\ PlanInv /\ CallInv
  BY <1>1, <1>3 DEF UpdateTypes, RecordInv, PlanInv, CallInv, Walking, Phase
<1>5. AloneInv
  BY <1>1 DEF AloneInv, Activating
<1> QED BY <1>2, <1>4, <1>5 DEF UpdateInv, BaseInv

LEMMA Keeps == UpdateInv /\ [UpdateNext]_updateVars => UpdateInv'
<1>1. ASSUME UpdateInv, UpdateNext PROVE UpdateInv'
  BY <1>1, LifeStep, BaseStep, AloneStep DEF UpdateInv
<1>2. ASSUME UpdateInv, UNCHANGED updateVars PROVE UpdateInv'
  <2>1. /\ UNCHANGED installed /\ UNCHANGED guardRecord /\ UNCHANGED marker /\ UNCHANGED intent
        /\ UNCHANGED serviceVars /\ UNCHANGED aim /\ UNCHANGED todo /\ UNCHANGED outcome /\ UNCHANGED promise
        /\ UNCHANGED disturbed /\ UNCHANGED ownVars /\ UNCHANGED overlapped
    BY <1>2 DEF updateVars, lifecycleVars, intentVars, commandVars
  <2>2. LifeInv'
    BY <1>2, <2>1, OtherLife DEF UpdateInv, LifeInv, ServiceTypes, CommandTypes
  <2>3. BaseInv'
    BY <1>2, <2>1, StandStill DEF UpdateInv, BaseInv, UpdateTypes, CallInv
  <2>4. /\ UNCHANGED phase /\ UNCHANGED plan /\ UNCHANGED wanted /\ UNCHANGED record /\ UNCHANGED unit /\ UNCHANGED failed
    BY <2>1 DEF ownVars, serviceVars
  <2>5. Due' = Due /\ DueStep' = DueStep /\ StartAt' = StartAt
    <3>1. Due' = Due
      BY <2>4 DEF Due
    <3> QED BY <2>4, <3>1 DEF DueStep, StartAt
  <2>6. BackoutInv => BackoutInv'
    <3>1. Halting' <=> Halting
      BY <2>1, <2>5 DEF Halting
    <3> QED BY <2>4, <2>5, <3>1 DEF BackoutInv, Down, StopAt
  <2>7. MarkerInv => MarkerInv'
    <3>1. (Starting' <=> Starting) /\ (Walking' <=> Walking)
      BY <2>1, <2>4, <2>5 DEF Starting, Walking
    <3> QED BY <2>1, <2>4, <2>5, <3>1 DEF MarkerInv
  <2>8. AloneInv'
    BY <1>2, <2>1, <2>4, <2>6, <2>7 DEF UpdateInv, AloneInv, Activating
  <2> QED BY <2>2, <2>3, <2>8 DEF UpdateInv
<1> QED BY <1>1, <1>2

LEMMA Accounts == UpdateInv => InstallationIsAccountedFor
<1> SUFFICES ASSUME UpdateInv PROVE InstallationIsAccountedFor
  OBVIOUS
<1>1. RecordInv /\ ServiceTypes /\ AloneInv
  BY DEF UpdateInv, BaseInv, LifeInv
<1>2. ASSUME record = "rolled_back", ~overlapped, NEW u \in ready \cap wanted PROVE unit[u] = revision
  <2>1. u \in Unit /\ unit[u] # "down" /\ unit[u] \in {"down", "old", "new"}
    BY <1>1, <1>2 DEF ServiceTypes
  <2>2. unit[u] # "new"
    BY <1>1, <1>2, <2>1 DEF AloneInv
  <2> QED BY <1>1, <1>2, <2>1, <2>2 DEF RecordInv
<1> QED BY <1>1, <1>2 DEF RecordInv, InstallationIsAccountedFor

\* Wherever the updater stops, by an error or killed, the program that is installed is the
\* recorded one, or the record blocks the next update and the old program is at hand; after
\* a way back that no command of the owner came between, no service that was enabled is left
\* with the program taken back.
THEOREM InstallationAccounted == UpdateSpec => []InstallationIsAccountedFor
<1> QED BY Starts, Keeps, Accounts, PTL DEF UpdateSpec

\* A command that stops the controller after it promised to stop ends no job: between the
\* promise and the halt the controller takes none, unless it crashed and was restarted.
THEOREM StopsSpareWork == UpdateSpec => StopSparesWork
<1>1. ASSUME UpdateInv, NEW c \in Client, At(c, "halt"), promise[c] # "none", "controller" \in busy
      PROVE  c \in disturbed
  BY <1>1 DEF UpdateInv, LifeInv, PromiseInv, At
<1>2. UpdateInv => \A c \in Client : At(c, "halt") /\ todo'[c] # todo[c] /\ promise[c] # "none"
                                /\ "controller" \in busy \ busy' => c \in disturbed
  BY <1>1
<1>3. UpdateSpec => []UpdateInv
  BY Starts, Keeps, PTL DEF UpdateSpec
<1>4. UpdateInv => [\A c \in Client : At(c, "halt") /\ todo'[c] # todo[c] /\ promise[c] # "none"
                                /\ "controller" \in busy \ busy' => c \in disturbed]_lifecycleVars
  BY <1>2
<1> QED BY <1>3, <1>4, PTL DEF StopSparesWork

\* What a step does that ends an update, when no command of the owner came between.
IntentsKept ==
    record' # record /\ record' \in {"completed", "rolled_back"} /\ phase # "build" /\ ~overlapped
       => wanted = marker' \cup (IF intent' THEN {"worker"} ELSE {})

LEMMA Survives == UpdateInv /\ UpdateNext => IntentsKept
<1> SUFFICES ASSUME UpdateInv, UpdateNext, record' # record, record' \in {"completed", "rolled_back"}, phase # "build",
                    ~overlapped
             PROVE  wanted = marker' \cup (IF intent' THEN {"worker"} ELSE {})
  BY DEF IntentsKept
<1>1. RecordInv /\ CallInv /\ UpdateTypes /\ PlanInv /\ ServiceTypes /\ AloneInv
  BY DEF UpdateInv, BaseInv, LifeInv
<1>2. CASE Conclude \/ Complete
  <2>1. /\ UNCHANGED marker /\ UNCHANGED intent
        /\ \/ phase = "backout" /\ plan = {}
           \/ phase = "write"
    <3>1. CASE Conclude
      BY <1>1, <3>1, ConcludeFacts
    <3>2. CASE Complete
      BY <3>2 DEF Complete, lifecycleVars, intentVars
    <3> QED BY <1>2, <3>1, <3>2
  <2>2. MarkerInv
    BY <1>1, <2>1 DEF AloneInv, Activating
  <2>3. /\ intent <=> "worker" \in wanted
        /\ marker \subseteq wanted /\ wanted \cap {"chat", "monitor"} \subseteq marker
        /\ "controller" \in wanted => "controller" \in marker
    BY <2>1, <2>2 DEF MarkerInv, Walking
  <2>4. marker \subseteq Unit /\ wanted \subseteq Unit \cup {"worker"} /\ intent \in BOOLEAN
    BY <1>1 DEF ServiceTypes, UpdateTypes
  <2>5. CASE intent
    <3>1. wanted = marker \cup {"worker"}
      BY <2>3, <2>4, <2>5 DEF Unit
    <3> QED BY <2>1, <2>5, <3>1
  <2>6. CASE ~intent
    <3>1. wanted = marker
      BY <2>3, <2>4, <2>6 DEF Unit
    <3> QED BY <2>1, <2>6, <3>1
  <2> QED BY <2>5, <2>6
<1>3. CASE ~(Conclude \/ Complete)
  <2>1. record' \in {record, "running", "recovery_required"}
    <3>1. CASE Begin \/ Secure
      BY <3>1 DEF Begin, Secure, Finish
    <3>2. CASE Prepare
      BY <3>2 DEF Prepare
    <3>3. CASE Fence \/ UpdaterDies
      BY <3>3 DEF Fence, UpdaterDies
    <3>4. CASE Call
      BY <3>4 DEF Call, ownVars
    <3>5. CASE WalkStep
      <4>1. Advance \/ Abandon
        BY <1>1, <3>5, WalkFacts DEF UpdateInv
      <4> QED BY <4>1 DEF Advance, Abandon
    <3>6. CASE CommandStep(Updater) /\ UNCHANGED <<ownVars, overlapped, applies>>
      BY <3>6 DEF ownVars
    <3>7. CASE \E c \in Owner : OwnerStep(c)
      BY <3>7 DEF OwnerStep, ownVars
    <3>8. CASE \E u \in Unit : ServiceStep(u) /\ UNCHANGED <<ownVars, overlapped, applies>>
      BY <3>8 DEF ownVars
    <3> QED BY <1>3, <3>1, <3>2, <3>3, <3>4, <3>5, <3>6, <3>7, <3>8 DEF UpdateNext, UpdaterStep, WalkStep
  <2> QED BY <2>1
<1> QED BY <1>2, <1>3

\* An update that ends with the new or the old program leaves every marker, and the intent
\* of the worker, as it found them.
THEOREM IntentsAreKept == UpdateSpec => IntentsSurvive
<1>1. UpdateInv /\ [UpdateNext]_updateVars => [IntentsKept]_updateVars
  BY Survives
<1>2. UpdateSpec => []UpdateInv
  BY Starts, Keeps, PTL DEF UpdateSpec
<1>3. UpdateSpec => [][IntentsKept]_updateVars
  BY <1>1, <1>2, PTL DEF UpdateSpec
<1>4. [][IntentsKept]_updateVars => IntentsSurvive
  BY DEF IntentsSurvive, IntentsKept
<1> QED BY <1>3, <1>4, PTL

\* An update leaves the owner's wishes alone: it spares the work in progress and restores
\* what was to run.
THEOREM UpdateSpares == UpdateSpec => UpdateSparesOwner
BY StopsSpareWork, IntentsAreKept, PTL DEF UpdateSparesOwner

LEMMA AppliesStay ==
    ASSUME applies \in 0..ApplyBound, [UpdateNext]_updateVars PROVE applies' \in 0..ApplyBound
<1>1. CASE Begin
  BY <1>1, SelfUpdateAssumption DEF Begin
<1>2. CASE ~Begin
  <2>1. applies' = applies
    BY <1>2 DEF UpdateNext, UpdaterStep, Prepare, Secure, Fence, UpdaterDies, OwnerStep, updateVars
  <2> QED BY <2>1
<1> QED BY <1>1, <1>2

\* The state of the services, of the commands and of the updater stays well typed, and a
\* service that answers is running and not waiting for its restart.
THEOREM UpdateTypeCorrect == UpdateSpec => []UpdateTypeOK
<1>1. UpdateInit => UpdateInv /\ applies \in 0..ApplyBound
  BY Starts, SelfUpdateAssumption DEF UpdateInit
<1>2. (UpdateInv /\ applies \in 0..ApplyBound) /\ [UpdateNext]_updateVars => (UpdateInv /\ applies \in 0..ApplyBound)'
  BY Keeps, AppliesStay
<1>3. ASSUME UpdateInv, applies \in 0..ApplyBound PROVE UpdateTypeOK
  <2>1. ServiceTypes /\ CommandTypes /\ UpdateTypes
    BY <1>3 DEF UpdateInv, LifeInv, BaseInv
  <2>2. ASSUME NEW c \in Client
        PROVE  /\ aim[c].unit \in Unit \cup {"worker"}
               /\ outcome[c] \in {"none", "done", "failed"}
               /\ promise[c] \in {"none", "marked", "unmarked"}
    <3>1. aim[c] \in Operation \cup {NoAim}
      BY <2>1 DEF CommandTypes
    <3> QED BY <2>1, <3>1, WayFacts DEF CommandTypes, NoAim, Unit
  <2>3. \A u \in ready : unit[u] # "down" /\ u \notin failed
    BY <2>1 DEF ServiceTypes
  <2>4. LifecycleTypeOK
    BY <2>1, <2>2, <2>3 DEF LifecycleTypeOK, ServiceTypes, CommandTypes
  <2> QED BY <1>3, <2>1, <2>4 DEF UpdateTypeOK, UpdateTypes
<1> QED BY <1>1, <1>2, <1>3, PTL DEF UpdateSpec
=============================================================================
