------------------------------- MODULE Backup -------------------------------
(***************************************************************************)
(* Backup and restore, internal/backup.  A backup is an image of the       *)
(* database, taken at one moment, and copies of the files it refers to,    *)
(* taken one after the other; its manifest comes last.  A restore copies   *)
(* a verified backup into a new directory and then, in steps, takes back   *)
(* what could act there by itself.  The process may end after every step.  *)
(* Commands and the controller write under the writer's lock; a restore    *)
(* writes where nobody else is yet.                                        *)
(*                                                                         *)
(* A definition marked "Variant" is a plausible slip in the one after it.  *)
(***************************************************************************)
EXTENDS Naturals, FiniteSets

CONSTANTS
    Artifact        \* the files that rows of the database refer to

VARIABLES
    holders,    \* who has the writer's lock: "work" - the controller, or a command of the
                \* owner - or "backup"
    job,        \* the status of the job at hand
    row,        \* content_state of each artifact, "none" before there is a row
    stored,     \* artifacts whose file is there
    switches,   \* what may act by itself
    archive,     \* the latest backup directory
    restored,   \* the latest directory that a restore made
    asked       \* what the owner did in it since the restore ended

homeVars == <<holders, job, row, stored, switches>>
archiveVars == <<homeVars, archive, restored, asked>>

Status == {"queued", "running", "retry_wait", "waiting_input", "completed"}
Switch == {"schedules", "connections", "disclosures", "dispatch"}

\* The files that are no artifacts: the configuration, and the image of the database.
Managed == {"config", "db"}

NoImage == [job |-> "completed", row |-> [a \in Artifact |-> "none"], switches |-> {}]
NoBackup == [at |-> "none", image |-> NoImage, files |-> {}]
NoRestore == [at |-> "none", image |-> NoImage, files |-> {}, left |-> {}]

BackupInit ==
    /\ holders = {} /\ job = "queued"
    /\ row = [a \in Artifact |-> "none"] /\ stored = {}
    /\ switches \in {{}, Switch}
    /\ archive = NoBackup /\ restored = NoRestore /\ asked = {}

----------------------------------------------------------------------------
(* The home that is backed up.                                             *)

\* options.open: a command that writes and the controller need the writer's lock.
MayWriteVariant == TRUE

MayWrite == holders = {}

Work ==
    /\ MayWrite /\ holders' = holders \cup {"work"}
    /\ UNCHANGED <<job, row, stored, switches, archive, restored, asked>>

JobMoves ==
    /\ "work" \in holders
    /\ \/ job \in {"queued", "retry_wait"} /\ job' = "running"
       \/ job = "running" /\ job' \in {"retry_wait", "waiting_input", "completed"}
       \/ job = "waiting_input" /\ job' = "queued"
    /\ UNCHANGED <<holders, row, stored, switches, archive, restored, asked>>

\* SaveArtifact: the file, then the row.
StoreFile(a) ==
    /\ "work" \in holders /\ job = "running" /\ row[a] = "none" /\ a \notin stored
    /\ stored' = stored \cup {a}
    /\ UNCHANGED <<holders, job, row, switches, archive, restored, asked>>

StoreRow(a) ==
    /\ "work" \in holders /\ job = "running" /\ row[a] = "none" /\ a \in stored
    /\ row' = [row EXCEPT ![a] = "available"]
    /\ UNCHANGED <<holders, job, stored, switches, archive, restored, asked>>

\* Retention: the rows say so before a file goes.
Retire(a) ==
    /\ "work" \in holders /\ job = "completed" /\ row[a] = "available"
    /\ row' = [row EXCEPT ![a] = "retiring"]
    /\ UNCHANGED <<holders, job, stored, switches, archive, restored, asked>>

RemoveContent(a) ==
    /\ "work" \in holders /\ row[a] = "retiring" /\ a \in stored
    /\ stored' = stored \ {a}
    /\ UNCHANGED <<holders, job, row, switches, archive, restored, asked>>

\* The holder is done, or dies.
WorkEnds ==
    /\ "work" \in holders /\ holders' = holders \ {"work"}
    /\ UNCHANGED <<job, row, stored, switches, archive, restored, asked>>

----------------------------------------------------------------------------
(* chunsu backup.                                                          *)

\* Recovery first: an attempt that nobody runs is given up.
BeginBackup ==
    /\ MayWrite /\ holders' = holders \cup {"backup"}
    /\ job' \in IF job = "running" THEN {"retry_wait", "waiting_input"} ELSE {job}
    /\ archive' = [NoBackup EXCEPT !.at = "begun"]
    /\ UNCHANGED <<row, stored, switches, restored, asked>>

\* Create: no job may be running; a new directory.
CheckIdle ==
    /\ "backup" \in holders /\ archive.at = "begun" /\ job # "running"
    /\ archive' = [archive EXCEPT !.at = "idle"]
    /\ UNCHANGED <<homeVars, restored, asked>>

\* VACUUM INTO, and the digest of the image.
TakeImage ==
    /\ "backup" \in holders /\ archive.at = "idle"
    /\ archive' = [at |-> "imaged", files |-> Managed,
                  image |-> [job |-> job, row |-> row, switches |-> switches]]
    /\ UNCHANGED <<homeVars, restored, asked>>

\* The walk over the roots: every file that is there, copied and hashed.
CopyFile(a) ==
    /\ "backup" \in holders /\ archive.at = "imaged" /\ a \in stored \ archive.files
    /\ archive' = [archive EXCEPT !.files = @ \cup {a}]
    /\ UNCHANGED <<homeVars, restored, asked>>

WriteManifest ==
    /\ "backup" \in holders /\ archive.at = "imaged" /\ stored \subseteq archive.files
    /\ archive' = [archive EXCEPT !.at = "whole"]
    /\ holders' = holders \ {"backup"}
    /\ UNCHANGED <<job, row, stored, switches, restored, asked>>

\* A limit, an error or the end of the process: a directory without a manifest.
BackupFails ==
    /\ "backup" \in holders /\ holders' = holders \ {"backup"}
    /\ archive' = [archive EXCEPT !.at = "failed"]
    /\ UNCHANGED <<job, row, stored, switches, restored, asked>>

----------------------------------------------------------------------------
(* chunsu restore.                                                         *)

\* Verify: a manifest, with the image and the configuration, and every file in it.
Verifies == archive.at = "whole" /\ Managed \subseteq archive.files

Restoring == restored.at \notin {"none", "done", "failed"}

BeginRestore ==
    /\ ~Restoring /\ Verifies
    /\ restored' = [at |-> "copying", image |-> archive.image, files |-> {}, left |-> archive.files]
    /\ asked' = {}
    /\ UNCHANGED <<homeVars, archive>>

RestoreFile ==
    /\ restored.at = "copying"
    /\ \E f \in restored.left :
          restored' = [restored EXCEPT !.files = @ \cup {f}, !.left = @ \ {f}]
    /\ UNCHANGED <<homeVars, archive, asked>>

Then(at, next, image) ==
    /\ restored.at = at /\ restored.left = {}
    /\ restored' = [restored EXCEPT !.at = next, !.image = image]
    /\ UNCHANGED <<homeVars, archive, asked>>

Less(switch) == [restored.image EXCEPT !.switches = @ \ {switch}]

\* RevokeDisclosures, and the configuration is saved.
Revoke == Then("copying", "revoked", Less("disclosures"))

\* VerifyReferences: a row whose content is available has its file.
Resolves(image, files) == \A a \in Artifact : image.row[a] = "available" => a \in files

VerifyReferences ==
    /\ Resolves(restored.image, restored.files)
    /\ Then("revoked", "resolved", restored.image)

\* Profiles are off, and refer to no secret of the home they come from.
Disconnect == Then("resolved", "disconnected", Less("connections"))

\* What would be taken up waits for an answer.
Unfinished == {"queued", "retry_wait", "running"}

Park == Then("disconnected", "parked",
             [restored.image EXCEPT !.job = IF @ \in Unfinished THEN "waiting_input" ELSE @])

DisableSchedules == Then("parked", "disabled", Less("schedules"))

Pause == Then("disabled", "paused", Less("dispatch"))

WriteNote == Then("paused", "done", restored.image)

RestoreFails ==
    /\ Restoring /\ restored' = [restored EXCEPT !.at = "failed"]
    /\ UNCHANGED <<homeVars, archive, asked>>

\* The owner reviews what was restored, and turns it on piece by piece.
Review ==
    /\ restored.at = "done"
    /\ \/ \E s \in Switch \ restored.image.switches :
             /\ restored' = [restored EXCEPT !.image.switches = @ \cup {s}]
             /\ asked' = asked \cup {s}
       \/ /\ restored.image.job = "waiting_input"
          /\ restored' = [restored EXCEPT !.image.job = "queued"]
          /\ asked' = asked \cup {"job"}
    /\ UNCHANGED <<homeVars, archive>>

\* A controller there takes the job.
TakeJob ==
    /\ restored.at = "done" /\ "dispatch" \in restored.image.switches
    /\ restored.image.job \in {"queued", "retry_wait"}
    /\ restored' = [restored EXCEPT !.image.job = "completed"]
    /\ UNCHANGED <<homeVars, archive, asked>>

CreateNext ==
    \/ BeginBackup \/ CheckIdle \/ TakeImage \/ WriteManifest \/ BackupFails
    \/ \E a \in Artifact : CopyFile(a)

RestoreNext ==
    \/ BeginRestore \/ RestoreFile \/ Revoke \/ VerifyReferences \/ Disconnect
    \/ Park \/ DisableSchedules \/ Pause \/ WriteNote \/ RestoreFails
    \/ Review \/ TakeJob

HomeNext ==
    \/ Work \/ JobMoves \/ WorkEnds
    \/ \E a \in Artifact : StoreFile(a) \/ StoreRow(a) \/ Retire(a) \/ RemoveContent(a)

\* A restore shares nothing with the home but a directory that changes no more: the
\* home stands still once the first one begins.
BackupNext == (restored.at = "none" /\ (HomeNext \/ CreateNext)) \/ RestoreNext

----------------------------------------------------------------------------
BackupTypeOK ==
    /\ holders \subseteq {"work", "backup"} /\ job \in Status
    /\ row \in [Artifact -> {"none", "available", "retiring"}] /\ stored \subseteq Artifact
    /\ switches \subseteq Switch
    /\ archive.files \subseteq Managed \cup Artifact
    /\ restored.files \cup restored.left \subseteq Managed \cup Artifact
    /\ asked \subseteq Switch \cup {"job"}

\* Whatever was written or retired around it, and wherever commands died: a backup that
\* has its manifest can be restored, for its image refers to files it has and no attempt
\* was under way in it.
BackupIsWhole ==
    archive.at = "whole" =>
        Resolves(archive.image, archive.files) /\ archive.image.job # "running"

\* A restore that has finished left nothing that acts before the owner has asked for it:
\* no work, no schedule, no account, no disclosure and no dispatch.
RestoredDataWaits ==
    restored.at = "done" =>
        /\ Resolves(restored.image, restored.files)
        /\ restored.image.switches \subseteq asked
        /\ restored.image.job \in Unfinished => "job" \in asked

\* Both of them: what a backup is for.
RestoresAreSafe == BackupIsWhole /\ RestoredDataWaits
=============================================================================
