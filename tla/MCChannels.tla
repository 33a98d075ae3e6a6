----------------------------- MODULE MCChannels -----------------------------
(***************************************************************************)
(* The processes that talk to the owner - the receiver of the channel, its *)
(* supervisor and the monitor - in one run.  They share no variable, so    *)
(* their steps commute: a behaviour has one subject, the component that    *)
(* takes steps and that its fairness is about.                             *)
(***************************************************************************)
EXTENDS TelegramReceiver, ChatSupervisor, OpsMonitor

VARIABLE subject    \* the component this behaviour is about

channelsVars == <<subject, receiverVars, supervisorVars, monitorVars>>

\* Every way of dispatch, each next to one that may meet it.
MCKinds == {<<"turn", "turn", "reset">>, <<"command", "update", "foreign">>,
            <<"turn", "cancel", "cancel">>, <<"command", "command", "inline">>}

Fine == [chatIntent |-> "on", registration |-> "present", unitReadable |-> TRUE,
         supervisor |-> "alive", receiver |-> "alive", blocked |-> FALSE, poll |-> "fresh",
         request |-> "none", controllerIntent |-> "on", probe |-> "responsive",
         dispatch |-> "ready"]

\* Sound facts, and five ways in which several of them are wrong or unknown.
MCWorld ==
    {Fine,
     [Fine EXCEPT !.receiver = "dead", !.probe = "no_endpoint"],
     [Fine EXCEPT !.receiver = "unreadable", !.dispatch = "both"],
     [Fine EXCEPT !.chatIntent = "off", !.controllerIntent = "unreadable"],
     [Fine EXCEPT !.blocked = TRUE, !.poll = "unknown", !.request = "stalled", !.probe = "failed"],
     [Fine EXCEPT !.chatIntent = "unreadable", !.controllerIntent = "off"]}

ChannelsInit ==
    /\ subject \in {"receiver", "supervisor", "monitor"}
    /\ ReceiverInit /\ SupervisorInit /\ MonitorInit
    /\ subject # "receiver" => kind = <<"turn", "turn", "reset">>

ChannelsNext ==
    \/ /\ subject = "receiver" /\ ReceiverNext
       /\ UNCHANGED <<subject, supervisorVars, monitorVars>>
    \/ /\ subject = "supervisor" /\ SupervisorNext
       /\ UNCHANGED <<subject, receiverVars, monitorVars>>
    \/ /\ subject = "monitor" /\ MonitorNext
       /\ UNCHANGED <<subject, receiverVars, supervisorVars>>

Of(component, A) == subject = component /\ A

\* Goroutines are scheduled, the loop does not pass over the poller for ever,
\* and a receiver that ended is started again.  A supervisor and a receiver
\* process run; the service manager restarts a unit that failed.
ChannelsFairness ==
    /\ WF_receiverVars(Of("receiver", Start))
    /\ WF_receiverVars(Of("receiver", LoopStep))
    /\ SF_receiverVars(Of("receiver", HandOver))
    /\ WF_supervisorVars(Of("supervisor", RestartUnit))
    /\ \A s \in Supervisor : WF_supervisorVars(Of("supervisor", SupervisorStep(s)))
    /\ \A r \in Receiver : WF_supervisorVars(Of("supervisor", TakeTransport(r)))

ChannelsSpec == ChannelsInit /\ [][ChannelsNext]_channelsVars /\ ChannelsFairness

\* The state of every component stays well typed.
ChannelsTypeOK == ReceiverTypeOK /\ SupervisorTypeOK /\ MonitorTypeOK

\* One chat acts for the owner: one turn in a receiver, and one receiver that the
\* supervisors know of.
ChatRunsAlone == TurnRunsAlone /\ OneSupervisedReceiver
=============================================================================
