------------------------------ MODULE Mailbox ------------------------------
(***************************************************************************)
(* What a receiver promises the sender of messages, whatever crashes: it   *)
(* takes every message once, in the order of arrival, and acts on each     *)
(* message at most once.  A message taken may be lost without an action;   *)
(* it is never taken up again.                                             *)
(***************************************************************************)
EXTENDS Naturals

CONSTANT UpdateBound    \* messages are numbered 1..UpdateBound

VARIABLES
    arrived,    \* the number of messages sent so far
    taken,      \* the number of messages taken so far
    held,       \* messages taken that may still be acted on
    effects     \* how often a message was acted on

mailVars == <<arrived, taken, held, effects>>

MailInit ==
    /\ arrived = 0 /\ taken = 0
    /\ held = {}
    /\ effects = [u \in 1..UpdateBound |-> 0]

Send ==
    /\ arrived < UpdateBound
    /\ arrived' = arrived + 1
    /\ UNCHANGED <<taken, held, effects>>

\* The next message is taken, to be acted on or not.
Take ==
    /\ taken < arrived
    /\ taken' = taken + 1
    /\ held' \in {held, held \cup {taken + 1}}
    /\ UNCHANGED <<arrived, effects>>

\* Act on one message that is held, or give up any of them.
Act ==
    /\ \E u \in held :
          /\ held' = held \ {u}
          /\ effects' = [effects EXCEPT ![u] = @ + 1]
    /\ UNCHANGED <<arrived, taken>>

Lose ==
    /\ held' \subseteq held
    /\ UNCHANGED <<arrived, taken, effects>>

MailNext == Send \/ Take \/ Act \/ Lose

MailSpec == MailInit /\ [][MailNext]_mailVars /\ WF_taken(Take)
=============================================================================
