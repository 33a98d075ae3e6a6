------------------------------ MODULE Accounts ------------------------------
(***************************************************************************)
(* Accounts and their credentials: internal/gmail/auth.go, the setup host  *)
(* of internal/onboarding that signs in for a chat, and the pairing of the *)
(* bot in internal/cli/telegram.go.  A file names the entries of the       *)
(* credential store that a connection needs; files and entries are written *)
(* one by one, every write may fail - a file also after it is visible -    *)
(* and the process may end between any two.                                *)
(* Commands hold the writer's lock, so one runs at a time; pairing has a   *)
(* lock of its own but shares nothing with them.                           *)
(*                                                                         *)
(* A definition marked "Variant" is a plausible slip in the one after it.  *)
(***************************************************************************)
EXTENDS Naturals, FiniteSets

CONSTANTS
    GrantBound,         \* bound on authorizations
    SetupTask,          \* the tasks of the setup host
    CredentialFaults    \* bound on failing writes, and on ends of the process

ASSUME AccountAssumption ==
    {GrantBound, CredentialFaults} \subseteq Nat /\ "none" \notin SetupTask

Grant == 1..GrantBound

VARIABLES
    vault,      \* the entries of the credential store: which grant's, and which secret
    connection, \* state/connections, by the grant that made the connection
    bot,        \* the binding of the bot: whose token, and is an owner paired
    errand,     \* the command that runs
    setup,      \* the record of each task of the setup host
    hostTask,   \* what the host remembers of its latest task; "none" without a host
    grants,     \* authorizations so far
    known,      \* history: entries that a file has named
    unsure,     \* history: connections whose last grant is visible though its save failed
    accountFaults

credentialVars == <<vault, connection, bot>>
accountVars == <<credentialVars, errand, setup, hostTask, grants, known, unsure, accountFaults>>

Entry == Grant \X {"client", "refresh", "token"}
Pair(g) == {g} \X {"client", "refresh"}

NoConnection == [grant |-> 0, enabled |-> FALSE, retired |-> {}]
NoErrand == [op |-> "none", at |-> "none", id |-> 0, grant |-> 0, due |-> {}, failed |-> FALSE,
             task |-> "none", cancelled |-> FALSE]
NoSetup == [status |-> "none", grant |-> 0, id |-> 0]
NoHostTask == [task |-> "none", status |-> "none", id |-> 0]

AccountInit ==
    /\ vault = {} /\ connection = [c \in Grant |-> NoConnection]
    /\ bot = [grant |-> 0, paired |-> FALSE]
    /\ errand = NoErrand
    /\ setup = [t \in SetupTask |-> NoSetup] /\ hostTask = NoHostTask
    /\ grants = 0 /\ known = {} /\ unsure = {} /\ accountFaults = 0

Connected(c) == connection[c].grant # 0

\* The entries that a connection file names.
Names(file) == file.retired \cup IF file.grant = 0 THEN {} ELSE Pair(file.grant)

\* OpenClient: both credentials of an enabled connection are read.
Opens(c) == connection[c].enabled /\ Pair(connection[c].grant) \subseteq vault

----------------------------------------------------------------------------
(* Steps that may fail.                                                    *)

Fault == accountFaults < CredentialFaults /\ accountFaults' = accountFaults + 1
NoFault == UNCHANGED accountFaults

Stands(op, step) == errand.op = op /\ errand.at = step
GoTo(step, due) ==
    errand' = [errand EXCEPT !.at = step, !.due = due] /\ UNCHANGED <<setup, hostTask>>

\* The command ends.  Of a task the host says that it is connected whenever there is a
\* connection, whatever the error was; saving its record may fail.
Return(id) ==
    LET status == IF id # 0 THEN "connected"
                  ELSE IF errand.cancelled THEN "cancelled" ELSE "failed" IN
    /\ errand' = NoErrand
    /\ IF errand.task = "none" THEN UNCHANGED <<setup, hostTask>>
       ELSE /\ hostTask' = [task |-> errand.task, status |-> status, id |-> id]
            /\ \/ setup' = [setup EXCEPT ![errand.task].status = status, ![errand.task].id = id]
               \/ UNCHANGED setup

\* Set writes an entry and reads it back: a failure may have written it.  A task that was
\* cancelled may fail at any time.
Writes(entry) == vault' = vault \cup {entry} /\ NoFault
FailsToWrite(entry) ==
    /\ vault' \in {vault, vault \cup {entry}}
    /\ IF errand.cancelled THEN NoFault ELSE Fault

\* files.Write makes a file visible at once and then syncs its directory: a failure may be
\* of a file that is visible.
SavesFile(c, file) ==
    /\ connection' = [connection EXCEPT ![c] = file] /\ known' = known \cup Names(file)
    /\ NoFault
FailsToSaveFile(c, file) ==
    /\ \/ UNCHANGED <<connection, known>>
       \/ connection' = [connection EXCEPT ![c] = file] /\ known' = known \cup Names(file)
    /\ Fault

----------------------------------------------------------------------------
(* gmail connect, gmail reauth, and the setup host.                        *)

Unoccupied == errand = NoErrand

\* A new connection has the name of its grant; reauthorization keeps the name.
BeginConnect ==
    /\ Unoccupied /\ errand' = [NoErrand EXCEPT !.op = "connect", !.at = "authorize"]
    /\ UNCHANGED <<credentialVars, setup, hostTask, grants, known, unsure, accountFaults>>

BeginReauthorization ==
    /\ Unoccupied
    /\ \E c \in Grant : /\ Connected(c)
                        /\ errand' = [NoErrand EXCEPT !.op = "connect", !.at = "authorize",
                                                     !.id = c]
    /\ UNCHANGED <<credentialVars, setup, hostTask, grants, known, unsure, accountFaults>>

\* The host takes one task at a time, under a name not used before, and saves its record
\* before it starts.
BeginTask(t, work) ==
    /\ Unoccupied /\ setup[t] = NoSetup
    /\ setup' = [setup EXCEPT ![t].status = "running"]
    /\ hostTask' = [task |-> t, status |-> "running", id |-> 0]
    /\ errand' = [work EXCEPT !.task = t]
    /\ UNCHANGED <<credentialVars, grants, known, unsure, accountFaults>>

BeginSetup ==
    \E t \in SetupTask : BeginTask(t, [NoErrand EXCEPT !.op = "connect", !.at = "authorize"])

BeginCheck ==
    \E t \in SetupTask, c \in Grant :
        /\ connection[c].enabled
        /\ BeginTask(t, [NoErrand EXCEPT !.op = "check", !.at = "check", !.id = c])

\* setup.cancel, and the end of the controller that waits for its host.
Cancel ==
    /\ errand.task # "none" /\ ~errand.cancelled
    /\ errand' = [errand EXCEPT !.cancelled = TRUE]
    /\ UNCHANGED <<credentialVars, setup, hostTask, grants, known, unsure, accountFaults>>

\* The link is shown - of a task after its record says so - and the owner signs in.
Authorize ==
    /\ Stands("connect", "authorize") /\ grants < GrantBound
    /\ grants' = grants + 1
    /\ errand' = [errand EXCEPT !.at = "client", !.grant = grants',
                               !.id = IF @ = 0 THEN grants' ELSE @]
    /\ IF errand.task = "none" THEN UNCHANGED <<setup, hostTask>>
       ELSE /\ setup' = [setup EXCEPT ![errand.task].status = "awaiting_auth",
                                      ![errand.task].grant = grants']
            /\ hostTask' = [hostTask EXCEPT !.status = "awaiting_auth"]
    /\ UNCHANGED <<credentialVars, known, unsure, accountFaults>>

\* Declined, timed out, another account, too wide a grant, or a record that was not saved.
AuthorizationFails ==
    /\ Stands("connect", "authorize") /\ Return(0)
    /\ UNCHANGED <<credentialVars, grants, known, unsure, accountFaults>>

SetClient ==
    /\ Stands("connect", "client")
    /\ LET entry == <<errand.grant, "client">> IN
       \/ Writes(entry) /\ GoTo("refresh", {})
       \/ FailsToWrite(entry) /\ Return(0)
    /\ UNCHANGED <<connection, bot, grants, known, unsure>>

SetRefresh ==
    /\ Stands("connect", "refresh")
    /\ LET entry == <<errand.grant, "refresh">> IN
       \/ Writes(entry) /\ GoTo("save", {})
       \/ FailsToWrite(entry) /\ GoTo("undo", Pair(errand.grant))
    /\ UNCHANGED <<connection, bot, grants, known, unsure>>

\* What the connection named until now is retired, with what was retired before.
RetiredVariant(c) == IF Connected(c) THEN Pair(connection[c].grant) ELSE {}

Retired(c) == Names(connection[c])

SaveGrant ==
    /\ Stands("connect", "save")
    /\ LET c == errand.id
           file == [grant |-> errand.grant, enabled |-> TRUE, retired |-> Retired(c)] IN
       \/ /\ SavesFile(c, file) /\ unsure' = unsure \ {c}
          /\ IF Connected(c) THEN GoTo("retire", file.retired) ELSE Return(c)
       \/ /\ FailsToSaveFile(c, file) /\ GoTo("undo", Pair(errand.grant))
          /\ unsure' = IF connection' = connection THEN unsure ELSE unsure \cup {c}
    /\ UNCHANGED <<vault, bot, grants>>

\* deleteReferences: each entry is tried, and the failures are joined.
DeleteEntry ==
    /\ \E entry \in errand.due :
          \/ /\ vault' = vault \ {entry} /\ NoFault
             /\ errand' = [errand EXCEPT !.due = @ \ {entry}]
          \/ /\ vault' = vault /\ Fault
             /\ errand' = [errand EXCEPT !.due = @ \ {entry}, !.failed = TRUE]
    /\ UNCHANGED <<connection, bot, setup, hostTask, grants, known, unsure>>

\* After a failed connection, a disconnection, or a reauthorization whose retired entries
\* could not all be deleted.
Deleted ==
    /\ errand.due = {}
    /\ \/ errand.at \in {"undo", "delete"} /\ Return(0)
       \/ errand.at = "retire" /\ errand.failed /\ Return(errand.id)
    /\ UNCHANGED <<credentialVars, grants, known, unsure, accountFaults>>

\* Only when all are gone are they no longer named.
ForgetRetired ==
    /\ Stands("connect", "retire") /\ errand.due = {} /\ ~errand.failed
    /\ LET file == [connection[errand.id] EXCEPT !.retired = {}] IN
       SavesFile(errand.id, file) \/ FailsToSaveFile(errand.id, file)
    /\ Return(errand.id)
    /\ UNCHANGED <<vault, bot, grants, unsure>>

\* The account is read with the credentials of the connection.
CheckCredentials ==
    /\ Stands("check", "check")
    /\ \/ Opens(errand.id) /\ Return(errand.id)
       \/ Return(0)
    /\ UNCHANGED <<credentialVars, grants, known, unsure, accountFaults>>

----------------------------------------------------------------------------
(* gmail disconnect.                                                       *)

BeginDisconnect ==
    /\ Unoccupied
    /\ \E c \in Grant : /\ Connected(c)
                        /\ errand' = [NoErrand EXCEPT !.op = "disconnect", !.at = "disable",
                                                     !.id = c]
    /\ UNCHANGED <<credentialVars, setup, hostTask, grants, known, unsure, accountFaults>>

\* Disabled first, and revoked at Google if the owner asks for it.
Disable ==
    /\ Stands("disconnect", "disable")
    /\ LET file == [connection[errand.id] EXCEPT !.enabled = FALSE] IN
       \/ SavesFile(errand.id, file) /\ (GoTo("delete", Names(file)) \/ GoTo("revoke", {}))
       \/ FailsToSaveFile(errand.id, file) /\ Return(0)
    /\ UNCHANGED <<vault, bot, grants, unsure>>

\* A revocation that cannot be confirmed, or a token that is missing, leaves the entries.
RevokeGrant ==
    /\ Stands("disconnect", "revoke")
    /\ LET file == connection[errand.id] IN
       \/ <<file.grant, "refresh">> \in vault /\ GoTo("delete", Names(file))
       \/ Return(0)
    /\ UNCHANGED <<credentialVars, grants, known, unsure, accountFaults>>

----------------------------------------------------------------------------
(* chat pair: the token of the bot, its binding, and the owner.            *)

BeginPairing ==
    /\ Unoccupied /\ bot.grant = 0 /\ grants < GrantBound
    /\ grants' = grants + 1
    /\ errand' = [NoErrand EXCEPT !.op = "pair", !.at = "token", !.grant = grants']
    /\ UNCHANGED <<credentialVars, setup, hostTask, known, unsure, accountFaults>>

\* A bot that is bound needs only its owner, and its token.
ResumePairing ==
    /\ Unoccupied /\ bot.grant # 0 /\ ~bot.paired /\ <<bot.grant, "token">> \in vault
    /\ errand' = [NoErrand EXCEPT !.op = "pair", !.at = "owner"]
    /\ UNCHANGED <<credentialVars, setup, hostTask, grants, known, unsure, accountFaults>>

SetToken ==
    /\ Stands("pair", "token")
    /\ LET entry == <<errand.grant, "token">> IN
       \/ Writes(entry) /\ GoTo("bind", {})
       \/ FailsToWrite(entry) /\ Return(0)
    /\ UNCHANGED <<connection, bot, grants, known, unsure>>

\* A binding that may be visible keeps its token: it is looked at again after a failure.
Bind ==
    /\ Stands("pair", "bind")
    /\ \/ /\ bot' = [bot EXCEPT !.grant = errand.grant] /\ NoFault /\ GoTo("owner", {})
       \/ /\ bot' \in {bot, [bot EXCEPT !.grant = errand.grant]} /\ Fault
          /\ \/ Return(0)
             \/ bot'.grant = 0 /\ GoTo("undo", {<<errand.grant, "token">>})
    /\ UNCHANGED <<vault, connection, grants, known, unsure>>

\* The owner's message names the chat; or none comes, or the save fails.
PairOwner ==
    /\ Stands("pair", "owner")
    /\ \/ bot' = [bot EXCEPT !.paired = TRUE] /\ NoFault
       \/ bot' \in {bot, [bot EXCEPT !.paired = TRUE]} /\ Fault
    /\ Return(0)
    /\ UNCHANGED <<vault, connection, grants, known, unsure>>

----------------------------------------------------------------------------

\* The process ends; what the host remembers goes with it.
Die ==
    /\ ~Unoccupied \/ hostTask # NoHostTask
    /\ Fault /\ errand' = NoErrand /\ hostTask' = NoHostTask
    /\ UNCHANGED <<credentialVars, setup, grants, known, unsure>>

ConnectNext ==
    \/ BeginConnect \/ BeginReauthorization \/ BeginSetup \/ BeginCheck \/ Cancel
    \/ Authorize \/ AuthorizationFails \/ SetClient \/ SetRefresh \/ SaveGrant
    \/ DeleteEntry \/ Deleted \/ ForgetRetired \/ CheckCredentials

DisconnectNext == BeginDisconnect \/ Disable \/ RevokeGrant

PairNext == BeginPairing \/ ResumePairing \/ SetToken \/ Bind \/ PairOwner

AccountNext == ConnectNext \/ DisconnectNext \/ PairNext \/ Die

AccountSpec == AccountInit /\ [][AccountNext]_accountVars

----------------------------------------------------------------------------
(* Properties.                                                             *)

\* Types of the state.
AccountTypeOK ==
    /\ vault \subseteq Entry /\ known \subseteq Entry
    /\ connection \in [Grant -> [grant : 0..GrantBound, enabled : BOOLEAN,
                                retired : SUBSET Entry]]
    /\ bot \in [grant : 0..GrantBound, paired : BOOLEAN]
    /\ errand.due \subseteq Entry /\ errand.id \in 0..GrantBound /\ errand.grant \in 0..GrantBound
    /\ unsure \subseteq Grant /\ accountFaults \in 0..CredentialFaults

\* An enabled connection and a bound bot have their credentials, whatever failed or ended
\* in between; except a connection whose save was reported to fail and yet is visible,
\* for Connect then deletes what it names.
NothingIsUsedWithout ==
    /\ \A c \in Grant \ unsure : connection[c].enabled => Opens(c)
    /\ bot.grant # 0 => <<bot.grant, "token">> \in vault

\* A credential that a connection named once is named until it is deleted, so that a later
\* reauthorization or disconnection still deletes it.
NothingIsForgotten == known \cap vault \subseteq UNION {Names(connection[c]) : c \in Grant}

\* What setup.status answers of a task.
Answer(t) ==
    IF hostTask.task = t THEN [status |-> hostTask.status, id |-> hostTask.id]
    ELSE [status |-> IF setup[t].status \in {"running", "awaiting_auth"} THEN "interrupted"
                     ELSE setup[t].status,
          id |-> setup[t].id]

\* What a person is told of a sign-in holds: what is connected was saved, and what failed or
\* was cancelled left no connection.
SetupTellsTheTruth ==
    \A t \in SetupTask :
        /\ Answer(t).status = "connected" => Connected(Answer(t).id)
        /\ LET g == setup[t].grant IN
           Answer(t).status \in {"failed", "cancelled"} /\ g # 0 =>
               (connection[g].enabled /\ connection[g].grant = g => g \in unsure)
=============================================================================
