--------------------------- MODULE OperationsProofs ---------------------------
(***************************************************************************)
(* What retention removes was reviewed, what a restore makes of a backup   *)
(* waits for its owner, and collecting mail and issues goes on where it    *)
(* stopped: for any number of jobs, files, plans, artifacts, pages and     *)
(* failures.  What is proved of updates and schedules holds beside them.   *)
(***************************************************************************)
EXTENDS MCOperations, UpdateProofs, ScheduleProofs, SequenceTheorems, TLAPS

-----------------------------------------------------------------------------
(***************************************************************************)
(* Retention                                                               *)
(***************************************************************************)

JobStatus == ClosedStatus \cup {"queued", "retiring", "purged"}
PlanStatus == {"none", "planned", "applying", "completed"}
BegunPlan == {"applying", "completed"}

\* The plan that is being applied to a job, or was.
Applied(p, j) == plans[p].job = j /\ plans[p].status \in BegunPlan

RetentionTypes ==
    /\ closing \in [Kept -> JobStatus \X Nat]
    /\ content \in [Kept -> [RunFile -> Nat]] /\ approved \in [Kept -> [RunFile -> Nat]]
    /\ artifactState \in [Kept -> {"present", "retiring", "purged"}]
    /\ request \in [Kept -> {"whole", "minimal"}]
    /\ plans \in [Plan -> [status : PlanStatus, job : Kept \cup {NoPlan.job}, as : JobStatus \X Nat,
                           files : [RunFile -> Nat]]]
    /\ removing \in {0} \cup Plan

\* A plan that was made is of a job that was closed, and one that is applied approved what
\* it removes, of which nothing was gone.
ApprovalInv ==
    /\ \A p \in Plan : plans[p].status # "none" => plans[p].job \in Kept /\ plans[p].as[1] \in ClosedStatus
    /\ \A p \in Plan, j \in Kept : Applied(p, j) =>
          /\ plans[p].files = approved[j] /\ \A f \in RunFile : approved[j][f] # 0
          /\ closing[j][1] = IF plans[p].status = "applying" THEN "retiring" ELSE "purged"
    /\ \A p, q \in Plan, j \in Kept : Applied(p, j) /\ Applied(q, j) => p = q
    /\ removing # 0 => plans[removing].status = "applying"

\* Only of a job that is retiring or purged is anything gone, and it has a plan.
ContentInv ==
    \A j \in Kept :
        /\ closing[j][1] \notin {"retiring", "purged"} =>
              artifactState[j] = "present" /\ approved[j] = NoContent /\ \A f \in RunFile : content[j][f] # 0
        /\ closing[j][1] \in {"retiring", "purged"} =>
              /\ artifactState[j] = closing[j][1]
              /\ \A f \in RunFile : content[j][f] \in {0, approved[j][f]}
              /\ \E p \in Plan : Applied(p, j)
        /\ closing[j][1] = "purged" => content[j] = NoContent /\ request[j] = "minimal"

RetentionInv == RetentionTypes /\ ApprovalInv /\ ContentInv

-----------------------------------------------------------------------------
(***************************************************************************)
(* Backup and restore                                                      *)
(***************************************************************************)

Image == [job : Status, row : [Artifact -> {"none", "available", "retiring"}], switches : SUBSET Switch]
Copied == Managed \cup Artifact

BackupTypes ==
    /\ holders \subseteq {"work", "backup"} /\ job \in Status
    /\ row \in [Artifact -> {"none", "available", "retiring"}] /\ stored \subseteq Artifact
    /\ switches \subseteq Switch
    /\ archive \in [at : {"none", "begun", "idle", "imaged", "whole", "failed"}, image : Image, files : SUBSET Copied]
    /\ restored \in [at : {"none", "copying", "revoked", "resolved", "disconnected", "parked", "disabled", "paused",
                           "done", "failed"},
                     image : Image, files : SUBSET Copied, left : SUBSET Copied]
    /\ asked \subseteq Switch \cup {"job"}

\* One holds the lock; a row whose content is available has its file; and while a backup is
\* made the home stands still, with no attempt under way once that was checked.
HomeInv ==
    /\ ~({"work", "backup"} \subseteq holders)
    /\ \A a \in Artifact : row[a] = "available" => a \in stored
    /\ archive.at \in {"begun", "idle", "imaged"} => "backup" \in holders
    /\ archive.at \in {"idle", "imaged"} => job # "running"
    /\ archive.at = "imaged" => archive.image.job = job /\ archive.image.row = row

\* What each step of a restore has taken back is still taken back.
After(at) ==
    CASE at = "revoked" -> {"disclosures"}
      [] at = "resolved" -> {"disclosures"}
      [] at = "disconnected" -> {"disclosures", "connections"}
      [] at = "parked" -> {"disclosures", "connections"}
      [] at = "disabled" -> {"disclosures", "connections", "schedules"}
      [] at = "paused" -> Switch
      [] OTHER -> {}

RestoreInv ==
    /\ restored.image.switches \cap After(restored.at) = {}
    /\ restored.at \in {"resolved", "disconnected", "parked", "disabled", "paused"} =>
          Resolves(restored.image, restored.files)
    /\ restored.at \in {"parked", "disabled", "paused"} => restored.image.job \notin Unfinished

BackupInv == BackupTypes /\ HomeInv /\ RestoreInv /\ BackupIsWhole /\ RestoredDataWaits

\* Where a restore is, and what it may hold there.
RestorePlace == {"none", "copying", "revoked", "resolved", "disconnected", "parked", "disabled", "paused", "done", "failed"}

LEMMA BackupStarts == BackupInit => BackupInv
<1> SUFFICES ASSUME BackupInit PROVE BackupInv
  OBVIOUS
<1>1. /\ holders = {} /\ job = "queued" /\ row = [a \in Artifact |-> "none"] /\ stored = {}
      /\ switches \subseteq Switch /\ archive = NoBackup /\ restored = NoRestore /\ asked = {}
  BY DEF BackupInit
<1>2. NoImage \in Image /\ NoImage.switches = {} /\ NoImage.job = "completed"
  BY DEF NoImage, Image, Status
<1>3. /\ NoBackup \in [at : {"none", "begun", "idle", "imaged", "whole", "failed"}, image : Image, files : SUBSET Copied]
      /\ NoBackup.at = "none"
  BY <1>2 DEF NoBackup
<1>4. /\ NoRestore \in [at : RestorePlace, image : Image, files : SUBSET Copied, left : SUBSET Copied]
      /\ NoRestore.at = "none" /\ NoRestore.image = NoImage
  BY <1>2 DEF NoRestore, RestorePlace
<1>5. BackupTypes
  BY <1>1, <1>3, <1>4 DEF BackupTypes, Status, RestorePlace
<1>6. HomeInv
  BY <1>1, <1>3 DEF HomeInv
<1>7. RestoreInv
  BY <1>1, <1>2, <1>4 DEF RestoreInv, After
<1>8. BackupIsWhole /\ RestoredDataWaits
  BY <1>1, <1>3, <1>4 DEF BackupIsWhole, RestoredDataWaits
<1> QED BY <1>5, <1>6, <1>7, <1>8 DEF BackupInv

\* A step of the home: the archive changes no more than the lock allows.
LEMMA HomeStep ==
    ASSUME BackupInv, HomeNext
    PROVE  BackupInv'
<1>1. BackupTypes /\ HomeInv /\ RestoreInv /\ BackupIsWhole /\ RestoredDataWaits
  BY DEF BackupInv
<1>2. archive' = archive /\ restored' = restored /\ asked' = asked /\ switches' = switches
  BY DEF HomeNext, Work, JobMoves, WorkEnds, StoreFile, StoreRow, Retire, RemoveContent
<1>3. RestoreInv' /\ BackupIsWhole' /\ RestoredDataWaits'
  BY <1>1, <1>2 DEF RestoreInv, BackupIsWhole, RestoredDataWaits, Resolves
<1>4. CASE Work
  <2>1. holders' = {"work"} /\ holders = {} /\ job' = job /\ row' = row /\ stored' = stored
    BY <1>4 DEF Work, MayWrite
  <2>2. BackupTypes'
    BY <1>1, <1>2, <2>1 DEF BackupTypes
  <2>3. HomeInv'
    BY <1>1, <1>2, <2>1 DEF HomeInv
  <2> QED BY <1>3, <2>2, <2>3 DEF BackupInv
<1>5. CASE WorkEnds
  <2>1. holders' = holders \ {"work"} /\ job' = job /\ row' = row /\ stored' = stored
    BY <1>5 DEF WorkEnds
  <2>2. BackupTypes'
    BY <1>1, <1>2, <2>1 DEF BackupTypes
  <2>3. HomeInv'
    BY <1>1, <1>2, <2>1 DEF HomeInv
  <2> QED BY <1>3, <2>2, <2>3 DEF BackupInv
\* The other steps need the lock: no backup is being made.
<1>6. ASSUME "work" \in holders, holders' = holders, job' \in Status,
             row' \in [Artifact -> {"none", "available", "retiring"}], stored' \subseteq Artifact,
             \A a \in Artifact : row'[a] = "available" => a \in stored'
      PROVE  BackupInv'
  <2>1. archive.at \notin {"begun", "idle", "imaged"}
    BY <1>1, <1>6 DEF HomeInv
  <2>2. BackupTypes'
    BY <1>1, <1>2, <1>6 DEF BackupTypes
  <2>3. HomeInv'
    BY <1>1, <1>2, <1>6, <2>1 DEF HomeInv
  <2> QED BY <1>3, <2>2, <2>3 DEF BackupInv
<1>7. CASE JobMoves
  <2>1. "work" \in holders /\ holders' = holders /\ row' = row /\ stored' = stored /\ job' \in Status
    BY <1>7 DEF JobMoves, Status
  <2> QED BY <1>1, <1>6, <2>1 DEF BackupTypes, HomeInv
<1>8. ASSUME NEW a \in Artifact, StoreFile(a) \/ StoreRow(a) \/ Retire(a) \/ RemoveContent(a)
      PROVE  BackupInv'
  <2>1. "work" \in holders /\ holders' = holders /\ job' = job
    BY <1>8 DEF StoreFile, StoreRow, Retire, RemoveContent
  <2>2. \/ row' = row /\ stored' = stored \cup {a}
        \/ row' = [row EXCEPT ![a] = "available"] /\ a \in stored /\ stored' = stored
        \/ row' = [row EXCEPT ![a] = "retiring"] /\ stored' = stored
        \/ row' = row /\ row[a] = "retiring" /\ stored' = stored \ {a}
    BY <1>8 DEF StoreFile, StoreRow, Retire, RemoveContent
  <2>3. /\ row' \in [Artifact -> {"none", "available", "retiring"}] /\ stored' \subseteq Artifact
        /\ \A b \in Artifact : row'[b] = "available" => b \in stored'
    BY <1>1, <2>2 DEF BackupTypes, HomeInv
  <2>4. job' \in Status
    BY <1>1, <2>1 DEF BackupTypes
  <2> QED BY <1>6, <2>1, <2>3, <2>4
<1> QED BY <1>4, <1>5, <1>7, <1>8 DEF HomeNext

\* A backup is made: its image is of the home as it stands, and it has every file that is there.
LEMMA CreateStep ==
    ASSUME BackupInv, CreateNext
    PROVE  BackupInv'
<1>1. BackupTypes /\ HomeInv /\ RestoreInv /\ BackupIsWhole /\ RestoredDataWaits
  BY DEF BackupInv
<1>2. restored' = restored /\ asked' = asked /\ row' = row /\ stored' = stored /\ switches' = switches
  BY DEF CreateNext, BeginBackup, CheckIdle, TakeImage, CopyFile, WriteManifest, BackupFails, homeVars
<1>3. RestoreInv' /\ RestoredDataWaits'
  BY <1>1, <1>2 DEF RestoreInv, RestoredDataWaits, Resolves
<1>4. job' \in Status /\ holders' \subseteq {"work", "backup"} /\ ~({"work", "backup"} \subseteq holders')
      /\ (job' = job \/ (holders = {} /\ job' # "running"))
  BY <1>1 DEF CreateNext, BeginBackup, CheckIdle, TakeImage, CopyFile, WriteManifest, BackupFails, homeVars, MayWrite,
              BackupTypes, HomeInv, Status
<1>5. ASSUME archive' \in [at : {"none", "begun", "idle", "imaged", "whole", "failed"}, image : Image, files : SUBSET Copied],
             archive'.at \in {"begun", "idle", "imaged"} => "backup" \in holders',
             archive'.at \in {"idle", "imaged"} => job' # "running",
             archive'.at = "imaged" => archive'.image.job = job' /\ archive'.image.row = row,
             archive'.at = "whole" => Resolves(archive'.image, archive'.files) /\ archive'.image.job # "running"
      PROVE  BackupInv'
  <2>1. BackupTypes'
    BY <1>1, <1>2, <1>4, <1>5 DEF BackupTypes
  <2>2. HomeInv'
    BY <1>1, <1>2, <1>4, <1>5 DEF HomeInv
  <2>3. BackupIsWhole'
    BY <1>5 DEF BackupIsWhole, Resolves
  <2> QED BY <1>3, <2>1, <2>2, <2>3 DEF BackupInv
<1>6. archive \in [at : {"none", "begun", "idle", "imaged", "whole", "failed"}, image : Image, files : SUBSET Copied]
  BY <1>1 DEF BackupTypes
<1>7. CASE BeginBackup
  <2>1. archive' = [NoBackup EXCEPT !.at = "begun"] /\ holders' = holders \cup {"backup"}
    BY <1>7 DEF BeginBackup
  <2>2. NoImage \in Image
    BY DEF NoImage, Image, Status
  <2>3. /\ archive' \in [at : {"none", "begun", "idle", "imaged", "whole", "failed"}, image : Image, files : SUBSET Copied]
        /\ archive'.at = "begun"
    BY <2>1, <2>2 DEF NoBackup
  <2> QED BY <1>5, <2>1, <2>3
<1>8. CASE CheckIdle
  <2>1. archive' = [archive EXCEPT !.at = "idle"] /\ "backup" \in holders' /\ job' # "running"
    BY <1>8 DEF CheckIdle, homeVars
  <2> QED BY <1>5, <1>6, <2>1
<1>9. CASE TakeImage
  <2>1. /\ "backup" \in holders' /\ job' = job /\ job # "running"
        /\ archive' = [at |-> "imaged", files |-> Managed, image |-> [job |-> job, row |-> row, switches |-> switches]]
    BY <1>1, <1>9 DEF TakeImage, homeVars, HomeInv
  <2>2. [job |-> job, row |-> row, switches |-> switches] \in Image /\ Managed \subseteq Copied
    BY <1>1 DEF BackupTypes, Image, Copied
  <2> QED BY <1>5, <2>1, <2>2
<1>10. ASSUME NEW a \in Artifact, CopyFile(a) PROVE BackupInv'
  <2>1. /\ archive' = [archive EXCEPT !.files = @ \cup {a}] /\ holders' = holders /\ job' = job /\ archive.at = "imaged"
        /\ "backup" \in holders
    BY <1>10 DEF CopyFile, homeVars
  <2>2. /\ archive' \in [at : {"none", "begun", "idle", "imaged", "whole", "failed"}, image : Image, files : SUBSET Copied]
        /\ archive'.at = "imaged" /\ archive'.image = archive.image
    BY <1>6, <2>1 DEF Copied
  <2> QED BY <1>1, <1>5, <2>1, <2>2 DEF HomeInv
<1>11. CASE WriteManifest
  <2>1. /\ archive' = [archive EXCEPT !.at = "whole"] /\ archive.at = "imaged" /\ stored \subseteq archive.files /\ job' = job
    BY <1>11 DEF WriteManifest
  <2>2. archive.image.job # "running" /\ Resolves(archive.image, archive.files)
    BY <1>1, <2>1 DEF HomeInv, Resolves
  <2>3. /\ archive' \in [at : {"none", "begun", "idle", "imaged", "whole", "failed"}, image : Image, files : SUBSET Copied]
        /\ archive'.at = "whole" /\ archive'.image = archive.image /\ archive'.files = archive.files
    BY <1>6, <2>1
  <2> QED BY <1>5, <2>2, <2>3
<1>12. CASE BackupFails
  <2>1. archive' = [archive EXCEPT !.at = "failed"]
    BY <1>12 DEF BackupFails
  <2> QED BY <1>5, <1>6, <2>1
<1> QED BY <1>7, <1>8, <1>9, <1>10, <1>11, <1>12 DEF CreateNext

\* A restore is a matter of its own directory.
LEMMA RestoreFrame ==
    ASSUME BackupInv, RestoreNext,
           restored' \in [at : RestorePlace, image : Image, files : SUBSET Copied, left : SUBSET Copied],
           asked' \subseteq Switch \cup {"job"}, RestoreInv', RestoredDataWaits'
    PROVE  BackupInv'
<1>1. BackupTypes /\ HomeInv /\ BackupIsWhole
  BY DEF BackupInv
<1>2. UNCHANGED <<holders, job, row, stored, switches, archive>>
  BY DEF RestoreNext, BeginRestore, RestoreFile, Revoke, VerifyReferences, Disconnect, Park, DisableSchedules, Pause,
         WriteNote, RestoreFails, Review, TakeJob, Then, homeVars
<1>3. BackupTypes'
  BY <1>1, <1>2 DEF BackupTypes, RestorePlace
<1>4. HomeInv' /\ BackupIsWhole'
  BY <1>1, <1>2 DEF HomeInv, BackupIsWhole, Resolves
<1> QED BY <1>3, <1>4 DEF BackupInv

\* A restore goes on to its next place, with less of what was in the image.
LEMMA ThenFacts ==
    ASSUME BackupInv, NEW at \in RestorePlace, NEW next \in RestorePlace, NEW image \in Image, Then(at, next, image)
    PROVE  /\ restored.at = at
           /\ restored' \in [at : RestorePlace, image : Image, files : SUBSET Copied, left : SUBSET Copied]
           /\ restored'.at = next /\ restored'.image = image /\ restored'.files = restored.files
           /\ asked' = asked /\ asked' \subseteq Switch \cup {"job"}
BY DEF Then, BackupInv, BackupTypes, RestorePlace

LEMMA LessFacts ==
    ASSUME BackupInv, NEW switch
    PROVE  /\ Less(switch) \in Image /\ Less(switch).job = restored.image.job /\ Less(switch).row = restored.image.row
           /\ Less(switch).switches = restored.image.switches \ {switch}
BY DEF Less, BackupInv, BackupTypes, Image

LEMMA Places ==
    /\ After("none") = {} /\ After("copying") = {} /\ After("done") = {} /\ After("failed") = {}
    /\ After("revoked") = {"disclosures"} /\ After("resolved") = {"disclosures"}
    /\ After("disconnected") = {"disclosures", "connections"} /\ After("parked") = {"disclosures", "connections"}
    /\ After("disabled") = {"disclosures", "connections", "schedules"} /\ After("paused") = Switch
BY DEF After

LEMMA RestoreStep ==
    ASSUME BackupInv, RestoreNext
    PROVE  BackupInv'
<1>1. BackupTypes /\ RestoreInv /\ BackupIsWhole /\ RestoredDataWaits
  BY DEF BackupInv
<1>2. restored \in [at : RestorePlace, image : Image, files : SUBSET Copied, left : SUBSET Copied]
      /\ asked \subseteq Switch \cup {"job"}
  BY <1>1 DEF BackupTypes, RestorePlace
<1>3. restored.image \in Image /\ restored.image.switches \subseteq Switch
  BY <1>2 DEF Image
<1>4. CASE BeginRestore
  <2>1. /\ restored' = [at |-> "copying", image |-> archive.image, files |-> {}, left |-> archive.files] /\ asked' = {}
        /\ archive.image \in Image /\ archive.files \subseteq Copied
    BY <1>1, <1>4 DEF BeginRestore, BackupTypes
  <2>2. /\ restored' \in [at : RestorePlace, image : Image, files : SUBSET Copied, left : SUBSET Copied]
        /\ restored'.at = "copying"
    BY <2>1 DEF RestorePlace
  <2>3. RestoreInv' /\ RestoredDataWaits'
    BY <2>2, Places DEF RestoreInv, RestoredDataWaits
  <2> QED BY <2>1, <2>2, <2>3, RestoreFrame
<1>5. CASE RestoreFile
  <2>1. PICK f \in restored.left : restored' = [restored EXCEPT !.files = @ \cup {f}, !.left = @ \ {f}]
    BY <1>5 DEF RestoreFile
  <2>2. restored.at = "copying" /\ asked' = asked
    BY <1>5 DEF RestoreFile
  <2>3. PICK files \in SUBSET Copied, left \in SUBSET Copied : files = restored.files \cup {f} /\ left = restored.left \ {f}
    BY <1>2
  <2>4. /\ restored' \in [at : RestorePlace, image : Image, files : SUBSET Copied, left : SUBSET Copied]
        /\ restored'.at = "copying"
    BY <1>2, <2>1, <2>2, <2>3
  <2>5. RestoreInv' /\ RestoredDataWaits'
    BY <2>4, Places DEF RestoreInv, RestoredDataWaits
  <2> QED BY <1>2, <2>2, <2>4, <2>5, RestoreFrame
<1>6. CASE Revoke
  <2>1. Then("copying", "revoked", Less("disclosures")) /\ "copying" \in RestorePlace /\ "revoked" \in RestorePlace
    BY <1>6 DEF Revoke, RestorePlace
  <2>2. /\ restored' \in [at : RestorePlace, image : Image, files : SUBSET Copied, left : SUBSET Copied]
        /\ restored'.at = "revoked" /\ restored'.image = Less("disclosures")
        /\ asked' \subseteq Switch \cup {"job"}
    BY <2>1, LessFacts, ThenFacts
  <2>3. RestoreInv' /\ RestoredDataWaits'
    BY <2>2, Places, LessFacts DEF RestoreInv, RestoredDataWaits
  <2> QED BY <2>2, <2>3, RestoreFrame
<1>7. CASE VerifyReferences
  <2>1. /\ Then("revoked", "resolved", restored.image) /\ "revoked" \in RestorePlace /\ "resolved" \in RestorePlace
        /\ Resolves(restored.image, restored.files)
    BY <1>7 DEF VerifyReferences, RestorePlace
  <2>2. /\ restored' \in [at : RestorePlace, image : Image, files : SUBSET Copied, left : SUBSET Copied]
        /\ restored'.at = "resolved" /\ restored'.image = restored.image /\ restored'.files = restored.files
        /\ restored.at = "revoked" /\ asked' \subseteq Switch \cup {"job"}
    BY <1>3, <2>1, ThenFacts
  <2>3. RestoreInv' /\ RestoredDataWaits'
    BY <1>1, <2>1, <2>2, Places DEF RestoreInv, RestoredDataWaits, Resolves
  <2> QED BY <2>2, <2>3, RestoreFrame
<1>8. CASE Disconnect
  <2>1. Then("resolved", "disconnected", Less("connections")) /\ "resolved" \in RestorePlace /\ "disconnected" \in RestorePlace
    BY <1>8 DEF Disconnect, RestorePlace
  <2>2. /\ restored' \in [at : RestorePlace, image : Image, files : SUBSET Copied, left : SUBSET Copied]
        /\ restored'.at = "disconnected" /\ restored'.image = Less("connections") /\ restored'.files = restored.files
        /\ restored.at = "resolved" /\ asked' \subseteq Switch \cup {"job"}
    BY <2>1, LessFacts, ThenFacts
  <2>3. RestoreInv' /\ RestoredDataWaits'
    BY <1>1, <2>2, Places, LessFacts DEF RestoreInv, RestoredDataWaits, Resolves
  <2> QED BY <2>2, <2>3, RestoreFrame
<1>9. CASE Park
  <2>1. PICK image : image = [restored.image EXCEPT !.job = IF @ \in Unfinished THEN "waiting_input" ELSE @]
    OBVIOUS
  <2>2. /\ image \in Image /\ image.job \notin Unfinished /\ image.row = restored.image.row
        /\ image.switches = restored.image.switches
    BY <1>3, <2>1 DEF Image, Unfinished, Status
  <2>3. Then("disconnected", "parked", image) /\ "disconnected" \in RestorePlace /\ "parked" \in RestorePlace
    BY <1>9, <2>1 DEF Park, RestorePlace
  <2>4. /\ restored' \in [at : RestorePlace, image : Image, files : SUBSET Copied, left : SUBSET Copied]
        /\ restored'.at = "parked" /\ restored'.image = image /\ restored'.files = restored.files
        /\ restored.at = "disconnected" /\ asked' \subseteq Switch \cup {"job"}
    BY <2>2, <2>3, ThenFacts
  <2>5. RestoreInv' /\ RestoredDataWaits'
    BY <1>1, <2>2, <2>4, Places DEF RestoreInv, RestoredDataWaits, Resolves
  <2> QED BY <2>4, <2>5, RestoreFrame
<1>10. CASE DisableSchedules
  <2>1. Then("parked", "disabled", Less("schedules")) /\ "parked" \in RestorePlace /\ "disabled" \in RestorePlace
    BY <1>10 DEF DisableSchedules, RestorePlace
  <2>2. /\ restored' \in [at : RestorePlace, image : Image, files : SUBSET Copied, left : SUBSET Copied]
        /\ restored'.at = "disabled" /\ restored'.image = Less("schedules") /\ restored'.files = restored.files
        /\ restored.at = "parked" /\ asked' \subseteq Switch \cup {"job"}
    BY <2>1, LessFacts, ThenFacts
  <2>3. RestoreInv' /\ RestoredDataWaits'
    BY <1>1, <2>2, Places, LessFacts DEF RestoreInv, RestoredDataWaits, Resolves
  <2> QED BY <2>2, <2>3, RestoreFrame
<1>11. CASE Pause
  <2>1. Then("disabled", "paused", Less("dispatch")) /\ "disabled" \in RestorePlace /\ "paused" \in RestorePlace
    BY <1>11 DEF Pause, RestorePlace
  <2>2. /\ restored' \in [at : RestorePlace, image : Image, files : SUBSET Copied, left : SUBSET Copied]
        /\ restored'.at = "paused" /\ restored'.image = Less("dispatch") /\ restored'.files = restored.files
        /\ restored.at = "disabled" /\ asked' \subseteq Switch \cup {"job"}
    BY <2>1, LessFacts, ThenFacts
  <2>3. RestoreInv' /\ RestoredDataWaits'
    BY <1>1, <1>3, <2>2, Places, LessFacts DEF RestoreInv, RestoredDataWaits, Resolves, Switch
  <2> QED BY <2>2, <2>3, RestoreFrame
<1>12. CASE WriteNote
  <2>1. Then("paused", "done", restored.image) /\ "paused" \in RestorePlace /\ "done" \in RestorePlace
    BY <1>12 DEF WriteNote, RestorePlace
  <2>2. /\ restored' \in [at : RestorePlace, image : Image, files : SUBSET Copied, left : SUBSET Copied]
        /\ restored'.at = "done" /\ restored'.image = restored.image /\ restored'.files = restored.files
        /\ restored.at = "paused" /\ asked' \subseteq Switch \cup {"job"}
    BY <1>3, <2>1, ThenFacts
  <2>3. restored.image.switches = {} /\ Resolves(restored.image, restored.files) /\ restored.image.job \notin Unfinished
    BY <1>1, <1>3, <2>2, Places DEF RestoreInv
  <2>4. RestoreInv' /\ RestoredDataWaits'
    BY <2>2, <2>3, Places DEF RestoreInv, RestoredDataWaits, Resolves
  <2> QED BY <2>2, <2>4, RestoreFrame
<1>13. CASE RestoreFails
  <2>1. restored' = [restored EXCEPT !.at = "failed"] /\ asked' = asked
    BY <1>13 DEF RestoreFails
  <2>2. /\ restored' \in [at : RestorePlace, image : Image, files : SUBSET Copied, left : SUBSET Copied]
        /\ restored'.at = "failed"
    BY <1>2, <2>1 DEF RestorePlace
  <2>3. RestoreInv' /\ RestoredDataWaits'
    BY <2>2, Places DEF RestoreInv, RestoredDataWaits
  <2> QED BY <1>2, <2>1, <2>2, <2>3, RestoreFrame
\* The owner turns something on, or a controller there takes the job.
<1>14. ASSUME restored.at = "done", NEW image \in Image, restored' = [restored EXCEPT !.image = image],
              image.row = restored.image.row, asked' \subseteq Switch \cup {"job"},
              image.switches \subseteq asked', image.job \in Unfinished => "job" \in asked'
       PROVE  BackupInv'
  <2>1. /\ restored' \in [at : RestorePlace, image : Image, files : SUBSET Copied, left : SUBSET Copied]
        /\ restored'.at = "done" /\ restored'.image = image /\ restored'.files = restored.files
    BY <1>2, <1>14
  <2>2. RestoreInv' /\ RestoredDataWaits'
    BY <1>1, <1>14, <2>1, Places DEF RestoreInv, RestoredDataWaits, Resolves
  <2> QED BY <1>14, <2>1, <2>2, RestoreFrame
<1>15. restored.at = "done" =>
          restored.image.switches \subseteq asked /\ (restored.image.job \in Unfinished => "job" \in asked)
  BY <1>1 DEF RestoredDataWaits
<1>16. CASE Review
  <2>1. ASSUME NEW s \in Switch, restored' = [restored EXCEPT !.image.switches = @ \cup {s}], asked' = asked \cup {s}
        PROVE  BackupInv'
    <3>1. PICK image : image = [restored.image EXCEPT !.switches = @ \cup {s}]
      OBVIOUS
    <3>2. /\ image \in Image /\ image.row = restored.image.row /\ image.job = restored.image.job
          /\ image.switches = restored.image.switches \cup {s}
      BY <1>3, <3>1 DEF Image
    <3>3. restored' = [restored EXCEPT !.image = image]
      BY <2>1, <3>1
    <3>4. restored.at = "done"
      BY <1>16 DEF Review
    <3> QED BY <1>2, <1>14, <1>15, <2>1, <3>2, <3>3, <3>4
  <2>2. ASSUME restored' = [restored EXCEPT !.image.job = "queued"], asked' = asked \cup {"job"}
        PROVE  BackupInv'
    <3>1. PICK image : image = [restored.image EXCEPT !.job = "queued"]
      OBVIOUS
    <3>2. /\ image \in Image /\ image.row = restored.image.row /\ image.switches = restored.image.switches
      BY <1>3, <3>1 DEF Image, Status
    <3>3. restored' = [restored EXCEPT !.image = image]
      BY <2>2, <3>1
    <3>4. restored.at = "done"
      BY <1>16 DEF Review
    <3> QED BY <1>2, <1>14, <1>15, <2>2, <3>2, <3>3, <3>4
  <2> QED BY <1>16, <2>1, <2>2 DEF Review
<1>17. CASE TakeJob
  <2>1. restored' = [restored EXCEPT !.image.job = "completed"] /\ restored.at = "done" /\ asked' = asked
    BY <1>17 DEF TakeJob
  <2>2. PICK image : image = [restored.image EXCEPT !.job = "completed"]
    OBVIOUS
  <2>3. /\ image \in Image /\ image.row = restored.image.row /\ image.switches = restored.image.switches
        /\ image.job \notin Unfinished
    BY <1>3, <2>2 DEF Image, Status, Unfinished
  <2>4. restored' = [restored EXCEPT !.image = image]
    BY <2>1, <2>2
  <2> QED BY <1>2, <1>14, <1>15, <2>1, <2>3, <2>4
<1> QED BY <1>4, <1>5, <1>6, <1>7, <1>8, <1>9, <1>10, <1>11, <1>12, <1>13, <1>16, <1>17 DEF RestoreNext

LEMMA BackupStep ==
    ASSUME BackupInv, [BackupNext]_archiveVars
    PROVE  BackupInv'
<1>1. CASE BackupNext
  BY <1>1, HomeStep, CreateStep, RestoreStep DEF BackupNext
<1>2. CASE UNCHANGED archiveVars
  <2>1. UNCHANGED <<holders, job, row, stored, switches, archive, restored, asked>>
    BY <1>2 DEF archiveVars, homeVars
  <2>2. BackupTypes' /\ HomeInv'
    BY <2>1 DEF BackupInv, BackupTypes, HomeInv
  <2>3. RestoreInv' /\ BackupIsWhole' /\ RestoredDataWaits'
    BY <2>1 DEF BackupInv, RestoreInv, BackupIsWhole, RestoredDataWaits, Resolves
  <2> QED BY <2>2, <2>3 DEF BackupInv
<1> QED BY <1>1, <1>2

\* A backup that has its manifest is whole, and what a restore leaves waits for its owner,
\* whatever was written around the backup and wherever either died (backup/backup.go).
THEOREM RestoresSafe == OperationsSpec => []RestoresAreSafe
<1>1. OperationsInit => BackupInv
  BY BackupStarts DEF OperationsInit
<1>2. BackupInv /\ [OperationsNext]_operationsVars => BackupInv'
  <2> SUFFICES ASSUME BackupInv, [OperationsNext]_operationsVars PROVE BackupInv'
    OBVIOUS
  <2>1. [BackupNext]_archiveVars
    BY DEF OperationsNext, operationsVars
  <2> QED BY <2>1, BackupStep
<1>3. BackupInv => RestoresAreSafe
  BY DEF BackupInv, RestoresAreSafe
<1> QED BY <1>1, <1>2, <1>3, PTL DEF OperationsSpec

-----------------------------------------------------------------------------
(***************************************************************************)
(* What retention removes                                                  *)
(***************************************************************************)

LEMMA ClosingChange ==
    ASSUME RetentionTypes, NEW j \in Kept, NEW status \in JobStatus,
           closing' = [closing EXCEPT ![j] = <<status, @[2] + 1>>]
    PROVE  /\ closing' \in [Kept -> JobStatus \X Nat] /\ closing'[j][1] = status
           /\ \A k \in Kept \ {j} : closing'[k] = closing[k]
<1>1. closing \in [Kept -> JobStatus \X Nat]
  BY DEF RetentionTypes
<1>2. PICK n \in Nat : n = closing[j][2] + 1
  BY <1>1
<1>3. closing' = [closing EXCEPT ![j] = <<status, n>>]
  BY <1>2
<1> QED BY <1>1, <1>3

\* A job whose content changes was neither retiring nor purged, nor is it afterwards.
LEMMA ContentWritten ==
    ASSUME RetentionInv, NEW j \in Kept, closing[j][1] \notin {"retiring", "purged"},
           closing' \in [Kept -> JobStatus \X Nat], closing'[j][1] \notin {"retiring", "purged"},
           \A k \in Kept \ {j} : closing'[k] = closing[k] /\ content'[k] = content[k],
           content' \in [Kept -> [RunFile -> Nat]], \A f \in RunFile : content'[j][f] # 0,
           UNCHANGED <<artifactState, request, plans, removing, approved>>
    PROVE  RetentionInv'
<1>1. RetentionTypes /\ ApprovalInv /\ ContentInv
  BY DEF RetentionInv
<1>2. RetentionTypes'
  BY <1>1 DEF RetentionTypes
<1>3. ApprovalInv'
  <2>1. \A p \in Plan : ~Applied(p, j)
    BY <1>1 DEF ApprovalInv
  <2>2. ASSUME NEW p \in Plan, NEW k \in Kept, Applied(p, k)
        PROVE  closing'[k][1] = IF plans[p].status = "applying" THEN "retiring" ELSE "purged"
    BY <1>1, <2>1, <2>2 DEF ApprovalInv
  <2> QED BY <1>1, <2>2 DEF ApprovalInv, Applied
<1>4. ContentInv'
  <2>1. ASSUME NEW k \in Kept
        PROVE  /\ closing'[k][1] \notin {"retiring", "purged"} =>
                     artifactState[k] = "present" /\ approved[k] = NoContent /\ \A f \in RunFile : content'[k][f] # 0
               /\ closing'[k][1] \in {"retiring", "purged"} =>
                     /\ artifactState[k] = closing'[k][1]
                     /\ \A f \in RunFile : content'[k][f] \in {0, approved[k][f]}
                     /\ \E p \in Plan : Applied(p, k)
               /\ closing'[k][1] = "purged" => content'[k] = NoContent /\ request[k] = "minimal"
    <3>1. CASE k = j
      BY <1>1, <3>1 DEF ContentInv
    <3>2. CASE k # j
      BY <1>1, <3>2 DEF ContentInv
    <3> QED BY <3>1, <3>2
  <2> QED BY <2>1 DEF ContentInv, Applied
<1> QED BY <1>2, <1>3, <1>4 DEF RetentionInv

LEMMA JobStep ==
    ASSUME RetentionInv, JobChanges \/ ContentChanges
    PROVE  RetentionInv'
<1>1. RetentionTypes /\ ApprovalInv /\ ContentInv
  BY DEF RetentionInv
<1>2. content \in [Kept -> [RunFile -> Nat]] /\ closing \in [Kept -> JobStatus \X Nat]
  BY <1>1 DEF RetentionTypes
<1>3. CASE JobChanges
  <2>1. PICK j \in Kept, status \in ClosedStatus \cup {"queued"}, wrote \in SUBSET RunFile :
            /\ closing[j][1] \in {"failed", "queued"}
            /\ closing' = [closing EXCEPT ![j] = <<status, @[2] + 1>>]
            /\ content' = [content EXCEPT ![j] = [f \in RunFile |-> IF f \in wrote THEN content[j][f] + 1 ELSE content[j][f]]]
    BY <1>3 DEF JobChanges
  <2>2. status \in JobStatus /\ status \notin {"retiring", "purged"} /\ closing[j][1] \notin {"retiring", "purged"}
    BY <2>1 DEF JobStatus, ClosedStatus
  <2>3. /\ closing' \in [Kept -> JobStatus \X Nat] /\ closing'[j][1] = status
        /\ \A k \in Kept \ {j} : closing'[k] = closing[k]
    BY <1>1, <2>1, <2>2, ClosingChange
  <2>4. PICK new : new = [f \in RunFile |-> IF f \in wrote THEN content[j][f] + 1 ELSE content[j][f]]
    OBVIOUS
  <2>5. new \in [RunFile -> Nat] /\ \A f \in RunFile : new[f] # 0
    <3>1. \A f \in RunFile : content[j][f] \in Nat /\ content[j][f] # 0
      BY <1>1, <1>2, <2>2 DEF ContentInv
    <3> QED BY <2>4, <3>1
  <2>6. content' = [content EXCEPT ![j] = new]
    BY <2>1, <2>4
  <2>7. /\ content' \in [Kept -> [RunFile -> Nat]] /\ content'[j] = new
        /\ \A k \in Kept \ {j} : content'[k] = content[k]
    BY <1>2, <2>5, <2>6
  <2>8. UNCHANGED <<artifactState, request, plans, removing, approved>>
    BY <1>3 DEF JobChanges
  <2> QED BY <2>2, <2>3, <2>5, <2>7, <2>8, ContentWritten
<1>4. CASE ContentChanges
  <2>1. PICK j \in Kept, f \in RunFile : artifactState[j] = "present" /\ content' = [content EXCEPT ![j][f] = @ + 1]
    BY <1>4 DEF ContentChanges
  <2>2. closing[j][1] \notin {"retiring", "purged"}
    BY <1>1, <2>1 DEF ContentInv
  <2>3. \A g \in RunFile : content[j][g] \in Nat /\ content[j][g] # 0
    BY <1>1, <1>2, <2>2 DEF ContentInv
  <2>4. PICK n \in Nat : n = content[j][f] + 1 /\ n # 0
    BY <2>3
  <2>5. content' = [content EXCEPT ![j][f] = n]
    BY <2>1, <2>4
  <2>6. /\ content' \in [Kept -> [RunFile -> Nat]]
        /\ \A g \in RunFile : content'[j][g] = IF g = f THEN n ELSE content[j][g]
        /\ \A k \in Kept \ {j} : content'[k] = content[k]
    BY <1>2, <2>4, <2>5
  <2>7. UNCHANGED <<closing, artifactState, request, plans, removing, approved>>
    BY <1>4 DEF ContentChanges
  <2> QED BY <1>2, <2>2, <2>3, <2>4, <2>6, <2>7, ContentWritten
<1> QED BY <1>3, <1>4

\* A plan is made: it is of a closed job, and applied to none.
LEMMA PlanStep ==
    ASSUME RetentionInv, CreatePlan
    PROVE  RetentionInv'
<1>1. RetentionTypes /\ ApprovalInv /\ ContentInv
      /\ UNCHANGED <<closing, content, artifactState, request, removing, approved>> /\ removing = 0
  BY DEF RetentionInv, CreatePlan, Quiet
<1>2. PICK p \in Plan, j \in Kept :
          /\ plans[p] = NoPlan /\ closing[j][1] \in ClosedStatus
          /\ plans' = [plans EXCEPT ![p] = [status |-> "planned", job |-> j, as |-> closing[j], files |-> content[j]]]
  BY DEF CreatePlan
<1>3. PICK new : new = [status |-> "planned", job |-> j, as |-> closing[j], files |-> content[j]]
  OBVIOUS
<1>4. /\ new \in [status : PlanStatus, job : Kept \cup {NoPlan.job}, as : JobStatus \X Nat, files : [RunFile -> Nat]]
      /\ new.status = "planned" /\ new.job = j /\ new.as = closing[j]
  <2>1. closing[j] \in JobStatus \X Nat /\ content[j] \in [RunFile -> Nat]
    BY <1>1 DEF RetentionTypes
  <2> QED BY <1>3, <2>1 DEF PlanStatus
<1>5. plans' = [plans EXCEPT ![p] = new]
  BY <1>2, <1>3
<1>6. /\ plans' \in [Plan -> [status : PlanStatus, job : Kept \cup {NoPlan.job}, as : JobStatus \X Nat,
                              files : [RunFile -> Nat]]]
      /\ plans'[p] = new /\ \A q \in Plan \ {p} : plans'[q] = plans[q]
  BY <1>1, <1>4, <1>5 DEF RetentionTypes
<1>7. "none" \notin BegunPlan /\ "planned" \notin BegunPlan /\ NoPlan.status = "none"
  BY DEF BegunPlan, NoPlan
<1>8. \A q \in Plan, k \in Kept : (Applied(q, k)' <=> Applied(q, k)) /\ (Applied(q, k) => plans'[q] = plans[q])
  BY <1>2, <1>4, <1>6, <1>7 DEF Applied
<1>9. RetentionTypes'
  BY <1>1, <1>6 DEF RetentionTypes
<1>10. ApprovalInv'
  <2>1. \A q \in Plan : plans'[q].status # "none" => plans'[q].job \in Kept /\ plans'[q].as[1] \in ClosedStatus
    BY <1>1, <1>2, <1>4, <1>6 DEF ApprovalInv
  <2> QED BY <1>1, <1>8, <2>1 DEF ApprovalInv
<1>11. ContentInv'
  BY <1>1, <1>8 DEF ContentInv
<1> QED BY <1>9, <1>10, <1>11 DEF RetentionInv

\* The removal begins: what was reviewed is what is there, all of it.
LEMMA BeginStep ==
    ASSUME RetentionInv, BeginRemoval
    PROVE  RetentionInv'
<1>1. RetentionTypes /\ ApprovalInv /\ ContentInv /\ UNCHANGED <<content, request>>
  BY DEF RetentionInv, BeginRemoval
<1>2. PICK p \in Plan :
          /\ plans[p].status = "planned" /\ Reviewed(p)
          /\ closing' = [closing EXCEPT ![plans[p].job] = <<"retiring", @[2] + 1>>]
          /\ artifactState' = [artifactState EXCEPT ![plans[p].job] = "retiring"]
          /\ plans' = [plans EXCEPT ![p].status = "applying"]
          /\ approved' = [approved EXCEPT ![plans[p].job] = plans[p].files]
          /\ removing' = p
  BY DEF BeginRemoval
<1>3. PICK j \in Kept : j = plans[p].job
  BY <1>1, <1>2 DEF ApprovalInv
<1>4. plans[p].as[1] \in ClosedStatus /\ closing[j] = plans[p].as /\ content[j] = plans[p].files
  BY <1>1, <1>2, <1>3 DEF ApprovalInv, Reviewed
<1>5. closing[j][1] \notin {"retiring", "purged"}
  BY <1>4 DEF ClosedStatus
<1>6. /\ closing' \in [Kept -> JobStatus \X Nat] /\ closing'[j][1] = "retiring"
      /\ \A k \in Kept \ {j} : closing'[k] = closing[k]
  <2>1. "retiring" \in JobStatus /\ closing' = [closing EXCEPT ![j] = <<"retiring", @[2] + 1>>]
    BY <1>2, <1>3 DEF JobStatus
  <2> QED BY <1>1, <2>1, ClosingChange
<1>7. /\ artifactState' \in [Kept -> {"present", "retiring", "purged"}] /\ artifactState'[j] = "retiring"
      /\ \A k \in Kept \ {j} : artifactState'[k] = artifactState[k]
  BY <1>1, <1>2, <1>3 DEF RetentionTypes
<1>8. /\ approved' \in [Kept -> [RunFile -> Nat]] /\ approved'[j] = content[j]
      /\ \A k \in Kept \ {j} : approved'[k] = approved[k]
  <2>1. approved' = [approved EXCEPT ![j] = content[j]] /\ content[j] \in [RunFile -> Nat]
    BY <1>1, <1>2, <1>3, <1>4 DEF RetentionTypes
  <2> QED BY <1>1, <2>1 DEF RetentionTypes
<1>9. /\ plans' \in [Plan -> [status : PlanStatus, job : Kept \cup {NoPlan.job}, as : JobStatus \X Nat,
                              files : [RunFile -> Nat]]]
      /\ plans'[p].status = "applying" /\ plans'[p].job = j /\ plans'[p].as = plans[p].as /\ plans'[p].files = content[j]
      /\ \A q \in Plan \ {p} : plans'[q] = plans[q]
  <2>1. "applying" \in PlanStatus
    BY DEF PlanStatus
  <2> QED BY <1>1, <1>2, <1>3, <1>4, <2>1 DEF RetentionTypes
<1>10. \A q \in Plan : ~Applied(q, j)
  BY <1>1, <1>5 DEF ApprovalInv
<1>11. /\ Applied(p, j)' /\ \A q \in Plan, k \in Kept : Applied(q, k)' => (q = p /\ k = j) \/ (q # p /\ k # j /\ Applied(q, k))
       /\ \A q \in Plan, k \in Kept : Applied(q, k) => q # p /\ k # j /\ Applied(q, k)'
  <2>1. "applying" \in BegunPlan /\ "planned" \notin BegunPlan
    BY DEF BegunPlan
  <2> QED BY <1>2, <1>3, <1>9, <1>10, <2>1 DEF Applied
<1>12. \A f \in RunFile : content[j][f] # 0
  BY <1>1, <1>5 DEF ContentInv
<1>13. RetentionTypes'
  BY <1>1, <1>2, <1>6, <1>7, <1>8, <1>9 DEF RetentionTypes
<1>14. ApprovalInv'
  <2>1. \A q \in Plan : plans'[q].status # "none" => plans'[q].job \in Kept /\ plans'[q].as[1] \in ClosedStatus
    BY <1>1, <1>3, <1>4, <1>9 DEF ApprovalInv
  <2>2. ASSUME NEW q \in Plan, NEW k \in Kept, Applied(q, k)'
        PROVE  /\ plans'[q].files = approved'[k] /\ \A f \in RunFile : approved'[k][f] # 0
               /\ closing'[k][1] = IF plans'[q].status = "applying" THEN "retiring" ELSE "purged"
    <3>1. CASE q = p /\ k = j
      BY <1>6, <1>8, <1>9, <1>12, <3>1
    <3>2. CASE q # p /\ k # j /\ Applied(q, k)
      <4>1. /\ plans[q].files = approved[k] /\ \A f \in RunFile : approved[k][f] # 0
            /\ closing[k][1] = IF plans[q].status = "applying" THEN "retiring" ELSE "purged"
        BY <1>1, <3>2 DEF ApprovalInv
      <4>2. plans'[q] = plans[q] /\ approved'[k] = approved[k] /\ closing'[k] = closing[k]
        BY <1>6, <1>8, <1>9, <3>2
      <4> QED BY <4>1, <4>2
    <3> QED BY <1>11, <2>2, <3>1, <3>2
  <2>3. \A q, r \in Plan, k \in Kept : Applied(q, k)' /\ Applied(r, k)' => q = r
    BY <1>1, <1>11 DEF ApprovalInv
  <2>4. removing' # 0 => plans'[removing'].status = "applying"
    BY <1>2, <1>9
  <2> QED BY <2>1, <2>2, <2>3, <2>4 DEF ApprovalInv
<1>15. ContentInv'
  <2>1. ASSUME NEW k \in Kept
        PROVE  /\ closing'[k][1] \notin {"retiring", "purged"} =>
                     artifactState'[k] = "present" /\ approved'[k] = NoContent /\ \A f \in RunFile : content[k][f] # 0
               /\ closing'[k][1] \in {"retiring", "purged"} =>
                     /\ artifactState'[k] = closing'[k][1]
                     /\ \A f \in RunFile : content[k][f] \in {0, approved'[k][f]}
                     /\ \E q \in Plan : Applied(q, k)'
               /\ closing'[k][1] = "purged" => content[k] = NoContent /\ request[k] = "minimal"
    <3>1. CASE k = j
      BY <1>6, <1>7, <1>8, <1>11, <3>1
    <3>2. CASE k # j
      BY <1>1, <1>6, <1>7, <1>8, <1>11, <3>2 DEF ContentInv
    <3> QED BY <3>1, <3>2
  <2> QED BY <1>1, <2>1 DEF ContentInv
<1> QED BY <1>13, <1>14, <1>15 DEF RetentionInv

\* Applying goes on, removes a file, or stops.
LEMMA RemovalStep ==
    ASSUME RetentionInv, ResumeRemoval \/ RemoveFile \/ RemovalStops
    PROVE  RetentionInv'
<1>1. RetentionTypes /\ ApprovalInv /\ ContentInv /\ UNCHANGED <<closing, artifactState, request, plans, approved>>
  BY DEF RetentionInv, ResumeRemoval, RemoveFile, RemovalStops
<1>2. \A p \in Plan, j \in Kept : Applied(p, j)' <=> Applied(p, j)
  BY <1>1 DEF Applied
<1>3. removing' \in {0} \cup Plan /\ (removing' # 0 => plans[removing'].status = "applying")
  BY <1>1 DEF ResumeRemoval, RemoveFile, RemovalStops, Resumes, RetentionTypes, ApprovalInv
<1>4. ApprovalInv'
  BY <1>1, <1>2, <1>3 DEF ApprovalInv
<1>5. CASE ResumeRemoval \/ RemovalStops
  <2>1. content' = content
    BY <1>5 DEF ResumeRemoval, RemovalStops
  <2> QED BY <1>1, <1>2, <1>3, <1>4, <2>1 DEF RetentionInv, RetentionTypes, ContentInv
<1>6. CASE RemoveFile
  <2>1. PICK f \in RunFile : content' = [content EXCEPT ![Removed][f] = 0]
    BY <1>6 DEF RemoveFile
  <2>2. removing \in Plan /\ plans[removing].status = "applying"
    BY <1>1, <1>6 DEF RemoveFile, Quiet, RetentionTypes, ApprovalInv
  <2>3. PICK j \in Kept : j = Removed
    BY <1>1, <2>2 DEF ApprovalInv, Removed
  <2>4. Applied(removing, j) /\ closing[j][1] = "retiring"
    BY <1>1, <2>2, <2>3 DEF ApprovalInv, Applied, BegunPlan, Removed
  <2>5. /\ content' \in [Kept -> [RunFile -> Nat]]
        /\ \A k \in Kept \ {j} : content'[k] = content[k]
        /\ \A g \in RunFile : content'[j][g] \in {0, content[j][g]}
    BY <1>1, <2>1, <2>3 DEF RetentionTypes
  <2>6. RetentionTypes'
    BY <1>1, <1>3, <2>5 DEF RetentionTypes
  <2>7. ASSUME NEW k \in Kept
        PROVE  /\ closing[k][1] \notin {"retiring", "purged"} =>
                     artifactState[k] = "present" /\ approved[k] = NoContent /\ \A g \in RunFile : content'[k][g] # 0
               /\ closing[k][1] \in {"retiring", "purged"} =>
                     /\ artifactState[k] = closing[k][1]
                     /\ \A g \in RunFile : content'[k][g] \in {0, approved[k][g]}
                     /\ \E p \in Plan : Applied(p, k)
               /\ closing[k][1] = "purged" => content'[k] = NoContent /\ request[k] = "minimal"
    <3>1. CASE k = j
      <4>1. artifactState[j] = "retiring" /\ \A g \in RunFile : content[j][g] \in {0, approved[j][g]}
        BY <1>1, <2>4 DEF ContentInv
      <4> QED BY <2>2, <2>4, <2>5, <3>1, <4>1
    <3>2. CASE k # j
      BY <1>1, <2>5, <3>2 DEF ContentInv
    <3> QED BY <3>1, <3>2
  <2>8. ContentInv'
    BY <1>1, <1>2, <2>7 DEF ContentInv
  <2> QED BY <1>4, <2>6, <2>8 DEF RetentionInv
<1> QED BY <1>5, <1>6

\* The job is purged once nothing is left of its content.
LEMMA PurgeStep ==
    ASSUME RetentionInv, Purge
    PROVE  RetentionInv'
<1>1. RetentionTypes /\ ApprovalInv /\ ContentInv /\ UNCHANGED <<content, approved>> /\ removing' = 0
  BY DEF RetentionInv, Purge
<1>2. PICK p \in Plan : p = removing
  BY DEF RetentionInv, RetentionTypes, Purge, Quiet
<1>3. plans[p].status = "applying"
  BY <1>1, <1>2 DEF ApprovalInv, Purge, Quiet
<1>4. PICK j \in Kept : j = plans[p].job
  BY <1>1, <1>3 DEF ApprovalInv
<1>5. /\ content[j] = NoContent
      /\ closing' = [closing EXCEPT ![j] = <<"purged", @[2] + 1>>]
      /\ artifactState' = [artifactState EXCEPT ![j] = "purged"]
      /\ request' = [request EXCEPT ![j] = "minimal"]
      /\ plans' = [plans EXCEPT ![p].status = "completed"]
  BY <1>2, <1>4 DEF Purge, Removed
<1>6. Applied(p, j) /\ closing[j][1] = "retiring"
  BY <1>1, <1>3, <1>4 DEF ApprovalInv, Applied, BegunPlan
<1>7. /\ closing' \in [Kept -> JobStatus \X Nat] /\ closing'[j][1] = "purged"
      /\ \A k \in Kept \ {j} : closing'[k] = closing[k]
  <2>1. "purged" \in JobStatus
    BY DEF JobStatus
  <2> QED BY <1>1, <1>5, <2>1, ClosingChange
<1>8. /\ artifactState' \in [Kept -> {"present", "retiring", "purged"}] /\ artifactState'[j] = "purged"
      /\ \A k \in Kept \ {j} : artifactState'[k] = artifactState[k]
  BY <1>1, <1>5 DEF RetentionTypes
<1>9. /\ request' \in [Kept -> {"whole", "minimal"}] /\ request'[j] = "minimal"
      /\ \A k \in Kept \ {j} : request'[k] = request[k]
  BY <1>1, <1>5 DEF RetentionTypes
<1>10. /\ plans' \in [Plan -> [status : PlanStatus, job : Kept \cup {NoPlan.job}, as : JobStatus \X Nat,
                               files : [RunFile -> Nat]]]
       /\ plans'[p].status = "completed" /\ plans'[p].job = j /\ plans'[p].as = plans[p].as /\ plans'[p].files = plans[p].files
       /\ \A q \in Plan \ {p} : plans'[q] = plans[q]
  <2>1. "completed" \in PlanStatus
    BY DEF PlanStatus
  <2> QED BY <1>1, <1>4, <1>5, <2>1 DEF RetentionTypes
<1>11. \A q \in Plan, k \in Kept : /\ Applied(q, k)' <=> Applied(q, k)
                                   /\ Applied(q, k) => (q = p /\ k = j) \/ (q # p /\ k # j)
  <2>1. "completed" \in BegunPlan /\ "applying" \in BegunPlan
    BY DEF BegunPlan
  <2>2. \A q \in Plan, k \in Kept : Applied(q, k) => (q = p /\ k = j) \/ (q # p /\ k # j)
    BY <1>1, <1>4, <1>6 DEF ApprovalInv, Applied
  <2> QED BY <1>3, <1>4, <1>10, <2>1, <2>2 DEF Applied
<1>12. RetentionTypes'
  BY <1>1, <1>7, <1>8, <1>9, <1>10 DEF RetentionTypes
<1>13. ApprovalInv'
  <2>1. \A q \in Plan : plans'[q].status # "none" => plans'[q].job \in Kept /\ plans'[q].as[1] \in ClosedStatus
    BY <1>1, <1>3, <1>4, <1>10 DEF ApprovalInv
  <2>2. ASSUME NEW q \in Plan, NEW k \in Kept, Applied(q, k)
        PROVE  /\ plans'[q].files = approved[k] /\ \A f \in RunFile : approved[k][f] # 0
               /\ closing'[k][1] = IF plans'[q].status = "applying" THEN "retiring" ELSE "purged"
    <3>1. plans[q].files = approved[k] /\ \A f \in RunFile : approved[k][f] # 0
      BY <1>1, <2>2 DEF ApprovalInv
    <3>2. CASE q = p /\ k = j
      BY <1>7, <1>10, <3>1, <3>2
    <3>3. CASE q # p /\ k # j
      <4>1. closing[k][1] = IF plans[q].status = "applying" THEN "retiring" ELSE "purged"
        BY <1>1, <2>2 DEF ApprovalInv
      <4>2. plans'[q] = plans[q] /\ closing'[k] = closing[k]
        BY <1>7, <1>10, <3>3
      <4> QED BY <3>1, <4>1, <4>2
    <3> QED BY <1>11, <2>2, <3>2, <3>3
  <2>3. \A q, r \in Plan, k \in Kept : Applied(q, k) /\ Applied(r, k) => q = r
    BY <1>1 DEF ApprovalInv
  <2> QED BY <1>1, <1>11, <2>1, <2>2, <2>3 DEF ApprovalInv
<1>14. ContentInv'
  <2>1. ASSUME NEW k \in Kept
        PROVE  /\ closing'[k][1] \notin {"retiring", "purged"} =>
                     artifactState'[k] = "present" /\ approved[k] = NoContent /\ \A f \in RunFile : content[k][f] # 0
               /\ closing'[k][1] \in {"retiring", "purged"} =>
                     /\ artifactState'[k] = closing'[k][1]
                     /\ \A f \in RunFile : content[k][f] \in {0, approved[k][f]}
                     /\ \E q \in Plan : Applied(q, k)
               /\ closing'[k][1] = "purged" => content[k] = NoContent /\ request'[k] = "minimal"
    <3>1. CASE k = j
      <4>1. \A f \in RunFile : content[j][f] = 0
        BY <1>5 DEF NoContent
      <4> QED BY <1>5, <1>6, <1>7, <1>8, <1>9, <3>1, <4>1
    <3>2. CASE k # j
      BY <1>1, <1>7, <1>8, <1>9, <3>2 DEF ContentInv
    <3> QED BY <3>1, <3>2
  <2> QED BY <1>1, <1>11, <2>1 DEF ContentInv
<1> QED BY <1>12, <1>13, <1>14 DEF RetentionInv

LEMMA RetentionStarts == RetentionInit => RetentionInv
<1> SUFFICES ASSUME RetentionInit PROVE RetentionInv
  OBVIOUS
<1>1. /\ closing = [j \in Kept |-> <<"failed", 1>>] /\ content = [j \in Kept |-> [f \in RunFile |-> 1]]
      /\ artifactState = [j \in Kept |-> "present"] /\ request = [j \in Kept |-> "whole"]
      /\ plans = [p \in Plan |-> NoPlan] /\ removing = 0 /\ approved = [j \in Kept |-> NoContent]
  BY DEF RetentionInit
<1>2. /\ NoContent \in [RunFile -> Nat]
      /\ NoPlan.status = "none" /\ NoPlan.as = <<"completed", 0>> /\ NoPlan.files = NoContent
      /\ NoPlan = [status |-> "none", job |-> NoPlan.job, as |-> <<"completed", 0>>, files |-> NoContent]
  BY DEF NoContent, NoPlan
<1>3. NoPlan \in [status : PlanStatus, job : Kept \cup {NoPlan.job}, as : JobStatus \X Nat, files : [RunFile -> Nat]]
  <2>1. <<"completed", 0>> \in JobStatus \X Nat /\ "none" \in PlanStatus
    BY DEF JobStatus, ClosedStatus, PlanStatus
  <2>2. NoPlan.job \in Kept \cup {NoPlan.job}
    OBVIOUS
  <2> QED BY <1>2, <2>1, <2>2
<1>4. <<"failed", 1>> \in JobStatus \X Nat /\ [f \in RunFile |-> 1] \in [RunFile -> Nat]
  BY DEF JobStatus, ClosedStatus
<1>5. RetentionTypes
  BY <1>1, <1>2, <1>3, <1>4 DEF RetentionTypes
<1>6. ApprovalInv
  <2>1. \A p \in Plan : plans[p].status = "none"
    BY <1>1, <1>2
  <2> QED BY <1>1, <2>1 DEF ApprovalInv, Applied, BegunPlan
<1>7. ContentInv
  <2>1. \A j \in Kept : closing[j][1] = "failed" /\ artifactState[j] = "present" /\ approved[j] = NoContent
    BY <1>1
  <2>2. \A j \in Kept, f \in RunFile : content[j][f] # 0
    BY <1>1
  <2> QED BY <2>1, <2>2 DEF ContentInv
<1> QED BY <1>5, <1>6, <1>7 DEF RetentionInv

LEMMA RetentionStep ==
    ASSUME RetentionInv, [RetentionNext]_retentionVars
    PROVE  RetentionInv'
<1>1. CASE RetentionNext
  BY <1>1, JobStep, PlanStep, BeginStep, RemovalStep, PurgeStep DEF RetentionNext
<1>2. CASE UNCHANGED retentionVars
  <2>1. UNCHANGED <<closing, content, artifactState, request, plans, removing, approved>>
    BY <1>2 DEF retentionVars
  <2> QED BY <2>1 DEF RetentionInv, RetentionTypes, ApprovalInv, ContentInv, Applied
<1> QED BY <1>1, <1>2

LEMMA ReviewedOnly == RetentionInv => OnlyReviewedContentIsRemoved
<1> SUFFICES ASSUME RetentionInv, NEW j \in Kept PROVE RemovedAsReviewed(j)
  BY DEF OnlyReviewedContentIsRemoved
<1>1. RetentionTypes /\ ApprovalInv /\ ContentInv
  BY DEF RetentionInv
<1>2. \A p : /\ p \in Of(j, "applying") <=> p \in Plan /\ plans[p].job = j /\ plans[p].status = "applying"
             /\ p \in Of(j, "completed") <=> p \in Plan /\ plans[p].job = j /\ plans[p].status = "completed"
  BY DEF Of
<1>3. \A p : p \in Of(j, "applying") \cup Of(j, "completed") <=> p \in Plan /\ Applied(p, j)
  BY <1>2 DEF Applied, BegunPlan
<1>4. closing[j][1] \in {"retiring", "purged"} <=> \E p \in Plan : Applied(p, j)
  BY <1>1 DEF ApprovalInv, ContentInv
<1>5. (\E f \in RunFile : content[j][f] = 0) => approved[j] # NoContent
  <2> SUFFICES ASSUME NEW f \in RunFile, content[j][f] = 0 PROVE approved[j] # NoContent
    OBVIOUS
  <2>1. PICK p \in Plan : Applied(p, j)
    BY <1>1, <1>4 DEF ContentInv
  <2>2. approved[j][f] # 0
    BY <1>1, <2>1 DEF ApprovalInv
  <2> QED BY <2>2 DEF NoContent
<1>6. approved[j] # NoContent =>
         /\ \A f \in RunFile : content[j][f] \in {0, approved[j][f]}
         /\ \E p \in Of(j, "applying") \cup Of(j, "completed") : plans[p].files = approved[j]
  <2> SUFFICES ASSUME approved[j] # NoContent
               PROVE  /\ \A f \in RunFile : content[j][f] \in {0, approved[j][f]}
                      /\ \E p \in Of(j, "applying") \cup Of(j, "completed") : plans[p].files = approved[j]
    OBVIOUS
  <2>1. closing[j][1] \in {"retiring", "purged"}
    BY <1>1 DEF ContentInv
  <2>2. PICK p \in Plan : Applied(p, j)
    BY <1>4, <2>1
  <2>3. plans[p].files = approved[j]
    BY <1>1, <2>2 DEF ApprovalInv
  <2> QED BY <1>1, <1>3, <2>1, <2>2, <2>3 DEF ContentInv
<1>7. (closing[j][1] = "retiring") <=> (Of(j, "applying") # {})
  <2>1. \A p \in Plan : Applied(p, j) => ((closing[j][1] = "retiring") <=> p \in Of(j, "applying"))
    BY <1>1, <1>2 DEF ApprovalInv, Applied, BegunPlan
  <2> QED BY <1>2, <1>3, <1>4, <2>1
<1>8. (closing[j][1] = "purged") <=> (Of(j, "completed") # {})
  <2>1. \A p \in Plan : Applied(p, j) => ((closing[j][1] = "purged") <=> p \in Of(j, "completed"))
    BY <1>1, <1>2 DEF ApprovalInv, Applied, BegunPlan
  <2> QED BY <1>2, <1>3, <1>4, <2>1
<1>9. \A p, q \in Of(j, "applying") \cup Of(j, "completed") : p = q
  BY <1>1, <1>3 DEF ApprovalInv
<1>10. closing[j][1] = "purged" => content[j] = NoContent /\ artifactState[j] = "purged" /\ request[j] = "minimal"
  BY <1>1 DEF ContentInv
<1> QED BY <1>5, <1>6, <1>7, <1>8, <1>9, <1>10 DEF RemovedAsReviewed

\* What is missing of a job was in the plan a person approved, in exactly that version,
\* however applying was interrupted and repeated (retention/retention.go).
THEOREM OnlyReviewedIsRemoved == OperationsSpec => []OnlyReviewedContentIsRemoved
<1>1. OperationsInit => RetentionInv
  BY RetentionStarts DEF OperationsInit
<1>2. RetentionInv /\ [OperationsNext]_operationsVars => RetentionInv'
  <2> SUFFICES ASSUME RetentionInv, [OperationsNext]_operationsVars PROVE RetentionInv'
    OBVIOUS
  <2>1. [RetentionNext]_retentionVars
    BY DEF OperationsNext, operationsVars
  <2> QED BY <2>1, RetentionStep
<1>3. RetentionInv => OnlyReviewedContentIsRemoved
  BY ReviewedOnly
<1> QED BY <1>1, <1>2, <1>3, PTL DEF OperationsSpec

-----------------------------------------------------------------------------
(***************************************************************************)
(* Acquisitions of Gmail                                                   *)
(***************************************************************************)

MailStatus == {"none", "collecting", "stopped", "collected", "partial"}
Source == [of : Mail, version : Nat, scope : {"target", "reference", "unavailable"}]
MailRecord ==
    [status : MailStatus, parent : MailId \cup {0}, page : DOMAIN MailPages, more : BOOLEAN,
     listed : BOOLEAN, unread : Seq(Mail), sources : Seq(Source), errors : BOOLEAN, snapshot : BOOLEAN]

MailTypes ==
    /\ version \in [Mail -> Nat] /\ covered \in [Mail -> Nat]
    /\ mail \in [MailId -> MailRecord]
    /\ reading \in MailId \cup {0}
    /\ reported \in [MailId -> SUBSET [of : Mail, version : Nat \ {0}, scope : {"target"}]]

\* The identities of what was read.
Identities(sources) == [i \in DOMAIN sources |-> sources[i].of]

\* What one acquisition has of its page.
PageHeld(r) ==
    /\ ~r.listed => r.sources = <<>> /\ ~r.snapshot /\ ~r.more
    /\ r.listed => /\ MailPages[r.page] = Identities(r.sources) \o r.unread
                   /\ r.more = (r.page < Len(MailPages))
    /\ r.snapshot => r.unread = <<>>
    /\ r.snapshot <=> r.status \in {"collected", "partial"}
    /\ r.status = "collected" => r.snapshot /\ ~r.errors /\ ~r.more
    /\ \A i \in DOMAIN r.sources :
          /\ r.sources[i].scope = "unavailable" => r.errors
          /\ r.sources[i].scope = "target" => r.sources[i].version # 0

\* A message is covered as a report of some acquisition resolved it.
Resolved(m, v) == [of |-> m, version |-> v, scope |-> "target"]
CoverInv ==
    /\ \A m \in Mail : covered[m] # 0 => \E b \in MailId : Resolved(m, covered[m]) \in reported[b]
    /\ \A b \in MailId : reported[b] # {} => mail[b].snapshot

\* What is read as reference was resolved by the report of another acquisition.
ReferenceInv ==
    \A a \in MailId : \A i \in DOMAIN mail[a].sources :
        mail[a].sources[i].scope = "reference" =>
            \E b \in MailId \ {a} : Resolved(mail[a].sources[i].of, mail[a].sources[i].version) \in reported[b]

\* A continuation is of the page after its parent's, which was taken before it.
ContinuedInv ==
    \A a \in MailId : mail[a].parent # 0 =>
        mail[mail[a].parent].snapshot /\ mail[a].page = mail[mail[a].parent].page + 1

MailInv ==
    /\ MailTypes /\ CoverInv /\ ReferenceInv /\ ContinuedInv
    /\ \A a \in MailId : PageHeld(mail[a])
    /\ reading # 0 => ~mail[reading].snapshot /\ mail[reading] # NoMail

\* Reading the head of a list keeps what the two lists are together.
LEMMA Moved ==
    ASSUME NEW S, NEW q \in Seq(S), NEW u \in Seq(S), u # <<>>
    PROVE  Append(q, Head(u)) \o Tail(u) = q \o u
<1>1. /\ Head(u) \in S /\ Tail(u) \in Seq(S) /\ Len(Tail(u)) = Len(u) - 1 /\ Head(u) = u[1]
      /\ \A i \in 1..Len(Tail(u)) : Tail(u)[i] = u[i + 1]
  BY HeadTailProperties
<1>2. Len(q) \in Nat /\ Len(u) \in Nat \ {0}
  BY LenProperties, EmptySeq
<1>3. PICK r : r = Append(q, Head(u))
  OBVIOUS
<1>4. /\ r \in Seq(S) /\ Len(r) = Len(q) + 1 /\ \A i \in 1..Len(q) : r[i] = q[i]
      /\ r[Len(q) + 1] = u[1]
  BY <1>1, <1>3, AppendProperties
<1>5. PICK t : t = Tail(u)
  OBVIOUS
<1>6. t \in Seq(S) /\ Len(t) = Len(u) - 1 /\ \A i \in 1..Len(t) : t[i] = u[i + 1]
  BY <1>1, <1>5
<1>7. /\ r \o t \in Seq(S) /\ Len(r \o t) = Len(r) + Len(t)
      /\ \A i \in 1..(Len(r) + Len(t)) : (r \o t)[i] = IF i <= Len(r) THEN r[i] ELSE t[i - Len(r)]
  BY <1>4, <1>6, ConcatProperties
<1>8. /\ q \o u \in Seq(S) /\ Len(q \o u) = Len(q) + Len(u)
      /\ \A i \in 1..(Len(q) + Len(u)) : (q \o u)[i] = IF i <= Len(q) THEN q[i] ELSE u[i - Len(q)]
  BY ConcatProperties
<1>9. Len(r \o t) = Len(q \o u)
  BY <1>2, <1>4, <1>6, <1>7, <1>8
<1>10. ASSUME NEW i \in 1..Len(r \o t) PROVE (r \o t)[i] = (q \o u)[i]
  <2>1. i \in Nat /\ i \in 1..(Len(r) + Len(t)) /\ i \in 1..(Len(q) + Len(u))
    BY <1>2, <1>7, <1>8, <1>9
  <2>2. CASE i <= Len(q)
    BY <1>2, <1>4, <1>7, <1>8, <2>1, <2>2
  <2>3. CASE i = Len(q) + 1
    <3>1. i - Len(q) = 1 /\ ~(i <= Len(q)) /\ i <= Len(r)
      BY <1>2, <1>4, <2>3
    <3> QED BY <1>4, <1>7, <1>8, <2>1, <2>3, <3>1
  <2>4. CASE i > Len(q) + 1
    <3>1. /\ i - Len(r) \in 1..Len(t) /\ (i - Len(r)) + 1 = i - Len(q)
          /\ ~(i <= Len(r)) /\ ~(i <= Len(q))
      BY <1>2, <1>4, <1>6, <1>7, <2>1, <2>4
    <3>2. t[i - Len(r)] = u[i - Len(q)]
      BY <1>6, <3>1
    <3> QED BY <1>7, <1>8, <2>1, <3>1, <3>2
  <2> QED BY <1>2, <2>1, <2>2, <2>3, <2>4
<1>11. r \o t = q \o u
  BY <1>7, <1>8, <1>9, <1>10, SeqEqual
<1> QED BY <1>3, <1>5, <1>11

LEMMA IdentitiesFacts ==
    ASSUME NEW q \in Seq(Source), NEW x \in Source
    PROVE  /\ Identities(q) \in Seq(Mail) /\ Identities(Append(q, x)) = Append(Identities(q), x.of)
           /\ Append(q, x) \in Seq(Source)
           /\ DOMAIN Append(q, x) = DOMAIN q \cup {Len(q) + 1} /\ Append(q, x)[Len(q) + 1] = x
           /\ \A i \in DOMAIN q : Append(q, x)[i] = q[i] /\ q[i] \in Source
<1>1. Len(q) \in Nat /\ DOMAIN q = 1..Len(q) /\ \A i \in DOMAIN q : q[i] \in Source
  BY LenProperties, ElementOfSeq
<1>2. PICK r : r = Append(q, x)
  OBVIOUS
<1>3. /\ r \in Seq(Source) /\ Len(r) = Len(q) + 1 /\ \A i \in 1..Len(q) : r[i] = q[i]
      /\ r[Len(q) + 1] = x /\ DOMAIN r = 1..Len(r)
  BY <1>2, AppendProperties, LenProperties
<1>4. DOMAIN r = DOMAIN q \cup {Len(q) + 1}
  BY <1>1, <1>3
<1>5. Identities(q) \in [1..Len(q) -> Mail] /\ Identities(q) \in Seq(Mail) /\ Len(Identities(q)) = Len(q)
  <2>1. Identities(q) \in [1..Len(q) -> Mail]
    BY <1>1 DEF Identities, Source
  <2>2. Identities(q) \in Seq(Mail)
    BY <1>1, <2>1, SeqDef
  <2>3. Len(Identities(q)) = Len(q)
    <3>1. DOMAIN Identities(q) = 1..Len(q) /\ DOMAIN Identities(q) = 1..Len(Identities(q)) /\ Len(Identities(q)) \in Nat
      BY <2>1, <2>2, LenProperties
    <3> QED BY <1>1, <3>1
  <2> QED BY <2>1, <2>2, <2>3
<1>6. Identities(r) = Append(Identities(q), x.of)
  <2>1. x.of \in Mail
    BY DEF Source
  <2>2. PICK s : s = Append(Identities(q), x.of)
    OBVIOUS
  <2>3. PICK p : p = Identities(q)
    OBVIOUS
  <2>4. /\ s \in Seq(Mail) /\ Len(s) = Len(q) + 1 /\ \A i \in 1..Len(q) : s[i] = p[i]
        /\ s[Len(q) + 1] = x.of
    BY <1>5, <2>1, <2>2, <2>3, AppendProperties
  <2>5. s = [i \in 1..(Len(q) + 1) |-> s[i]]
    BY <2>4, LenProperties
  <2>6. Identities(r) = [i \in 1..(Len(q) + 1) |-> r[i].of]
    BY <1>1, <1>3 DEF Identities
  <2>7. \A i \in 1..(Len(q) + 1) : r[i].of = s[i]
    <3>1. \A i \in 1..Len(q) : p[i] = q[i].of
      BY <1>1, <2>3 DEF Identities
    <3>2. \A i \in 1..(Len(q) + 1) : i \in 1..Len(q) \/ i = Len(q) + 1
      BY <1>1
    <3> QED BY <1>3, <2>4, <3>1, <3>2
  <2> QED BY <2>2, <2>5, <2>6, <2>7
<1> QED BY <1>1, <1>2, <1>3, <1>4, <1>5, <1>6

LEMMA MailStarts == MailboxInit => MailInv
<1> SUFFICES ASSUME MailboxInit PROVE MailInv
  OBVIOUS
<1>1. /\ Len(MailPages) \in Nat \ {0} /\ DOMAIN MailPages = 1..Len(MailPages) /\ 1 \in DOMAIN MailPages
  BY MailAssumption, EmptySeq, LenProperties
<1>2. <<>> \in Seq(Mail) /\ <<>> \in Seq(Source) /\ DOMAIN <<>> = {}
  BY EmptySeq
<1>3. NoMail \in MailRecord
  BY <1>1, <1>2 DEF NoMail, MailRecord, MailStatus
<1>4. MailTypes
  BY <1>3 DEF MailTypes, MailboxInit
<1>5. PageHeld(NoMail)
  BY <1>2 DEF PageHeld, NoMail
<1>6. \A a \in MailId : PageHeld(mail[a]) /\ mail[a].parent = 0 /\ DOMAIN mail[a].sources = {}
  BY <1>2, <1>5 DEF MailboxInit, NoMail
<1>7. CoverInv /\ ReferenceInv /\ ContinuedInv
  BY <1>6 DEF CoverInv, ReferenceInv, ContinuedInv, MailboxInit
<1> QED BY <1>4, <1>6, <1>7 DEF MailInv, MailboxInit

\* The record of the acquisition a call works on is saved.
LEMMA KeptInv ==
    ASSUME MailInv, reading # 0, NEW x \in MailRecord, Keep(x), PageHeld(x),
           x.parent = mail[reading].parent, x.page = mail[reading].page,
           \A i \in DOMAIN x.sources : x.sources[i].scope = "reference" =>
              \E b \in MailId \ {reading} : Resolved(x.sources[i].of, x.sources[i].version) \in reported[b],
           \/ reading' = reading /\ ~x.snapshot /\ x # NoMail
           \/ reading' = 0,
           UNCHANGED <<version, covered, reported>>
    PROVE  MailInv'
<1>1. UNCHANGED version /\ UNCHANGED covered /\ UNCHANGED reported
  OBVIOUS
<1>2. /\ MailTypes /\ CoverInv /\ ReferenceInv /\ ContinuedInv /\ reading \in MailId /\ ~mail[reading].snapshot
      /\ \A a \in MailId : PageHeld(mail[a])
  BY DEF MailInv, MailTypes
<1>3. \A a \in MailId : mail'[a] = IF a = reading THEN x ELSE mail[a]
  BY <1>2 DEF Keep, MailTypes
<1>4. MailTypes'
  BY <1>1, <1>2 DEF MailTypes, Keep
<1>5. \A a \in MailId : PageHeld(mail'[a])
  BY <1>2, <1>3
<1>6. CoverInv'
  <2>1. \A b \in MailId : reported[b] # {} => mail'[b].snapshot
    BY <1>2, <1>3 DEF CoverInv
  <2>2. \A m \in Mail : covered[m] # 0 => \E b \in MailId : Resolved(m, covered[m]) \in reported[b]
    BY <1>2 DEF CoverInv
  <2> QED BY <1>1, <2>1, <2>2 DEF CoverInv
<1>7. ReferenceInv'
  <2> SUFFICES ASSUME NEW a \in MailId, NEW i \in DOMAIN mail'[a].sources, mail'[a].sources[i].scope = "reference"
               PROVE  \E b \in MailId \ {a} : Resolved(mail'[a].sources[i].of, mail'[a].sources[i].version) \in reported[b]
    BY <1>1 DEF ReferenceInv
  <2>1. CASE a = reading
    BY <1>3, <2>1
  <2>2. CASE a # reading
    BY <1>2, <1>3, <2>2 DEF ReferenceInv
  <2> QED BY <2>1, <2>2
<1>8. ContinuedInv'
  <2>1. \A a \in MailId : mail'[a].parent = mail[a].parent /\ mail'[a].page = mail[a].page
    BY <1>3
  <2>2. ASSUME NEW a \in MailId, mail'[a].parent # 0
        PROVE  mail'[mail'[a].parent].snapshot /\ mail'[a].page = mail'[mail'[a].parent].page + 1
    <3>1. mail[a].parent # 0 /\ mail'[a].parent = mail[a].parent /\ mail[a].parent \in MailId
      BY <1>2, <2>1, <2>2 DEF MailTypes, MailRecord
    <3>2. mail[mail[a].parent].snapshot /\ mail[a].page = mail[mail[a].parent].page + 1
      BY <1>2, <3>1 DEF ContinuedInv
    <3>3. mail[a].parent # reading
      BY <1>2, <3>2
    <3> QED BY <1>3, <2>1, <3>1, <3>2, <3>3
  <2> QED BY <2>2 DEF ContinuedInv
<1>9. reading' # 0 => ~mail'[reading'].snapshot /\ mail'[reading'] # NoMail
  BY <1>2, <1>3
<1> QED BY <1>4, <1>5, <1>6, <1>7, <1>8, <1>9 DEF MailInv

\* What is known of the record a call works on.
LEMMA ReadingRecord ==
    ASSUME MailInv, reading # 0
    PROVE  /\ reading \in MailId /\ mail[reading] \in MailRecord /\ PageHeld(mail[reading])
           /\ ~mail[reading].snapshot /\ mail[reading] # NoMail
           /\ \A i \in DOMAIN mail[reading].sources : mail[reading].sources[i].scope = "reference" =>
                 \E b \in MailId \ {reading} :
                    Resolved(mail[reading].sources[i].of, mail[reading].sources[i].version) \in reported[b]
BY DEF MailInv, MailTypes, ReferenceInv

LEMMA ListInv == ASSUME MailInv, List PROVE MailInv'
<1>1. reading # 0 /\ ~mail[reading].listed /\ reading' = reading /\ UNCHANGED <<version, covered, reported>>
  BY DEF List
<1>2. PICK r \in MailRecord : /\ r = mail[reading] /\ PageHeld(r) /\ ~r.snapshot /\ ~r.listed
  BY <1>1, ReadingRecord
<1>3. PICK further \in BOOLEAN : further = (r.page < Len(MailPages))
  <2>1. (r.page < Len(MailPages)) \in BOOLEAN
    OBVIOUS
  <2> QED BY <2>1, Zenon
<1>4. PICK x : x = [r EXCEPT !.status = "collecting", !.listed = TRUE, !.unread = MailPages[r.page],
                             !.more = further]
  OBVIOUS
<1>5. r.sources = <<>> /\ DOMAIN r.sources = {} /\ r.page \in DOMAIN MailPages /\ MailPages[r.page] \in Seq(Mail)
  <2>1. r.sources = <<>> /\ r.page \in DOMAIN MailPages
    BY <1>2 DEF PageHeld, MailRecord
  <2>2. MailPages[r.page] \in Seq(Mail)
    BY <2>1, MailAssumption, ElementOfSeq, LenProperties
  <2> QED BY <2>1, <2>2, EmptySeq
<1>6. /\ x \in MailRecord /\ x.listed /\ x.unread = MailPages[x.page] /\ x.sources = <<>>
      /\ x.more = (x.page < Len(MailPages)) /\ ~x.snapshot /\ x.status = "collecting"
      /\ x.parent = r.parent /\ x.page = r.page
  BY <1>2, <1>4, <1>5, <1>3 DEF MailRecord, MailStatus
<1>7. PageHeld(x)
  <2>1. Identities(x.sources) = <<>> /\ <<>> \o x.unread = x.unread
    <3>1. Identities(<<>>) = <<>>
      BY DEF Identities
    <3> QED BY <1>5, <1>6, <3>1, ConcatEmptySeq
  <2> QED BY <1>5, <1>6, <2>1 DEF PageHeld
<1>8. Keep(x) /\ x # NoMail
  BY <1>2, <1>4, <1>6, <1>3 DEF List, NoMail
<1> QED BY <1>1, <1>2, <1>5, <1>6, <1>7, <1>8, KeptInv

LEMMA ReadMessageInv == ASSUME MailInv, ReadMessage PROVE MailInv'
<1>1. /\ reading # 0 /\ mail[reading].listed /\ mail[reading].unread # <<>> /\ reading' = reading
      /\ UNCHANGED <<version, covered, reported>>
  BY DEF ReadMessage
<1>2. PICK r \in MailRecord : /\ r = mail[reading] /\ PageHeld(r) /\ ~r.snapshot /\ r.listed /\ r.unread # <<>>
  BY <1>1, ReadingRecord
<1>3. PICK m : m = Head(r.unread)
  OBVIOUS
<1>4. m \in Mail /\ Tail(r.unread) \in Seq(Mail) /\ r.unread \in Seq(Mail) /\ r.sources \in Seq(Source)
  BY <1>2, <1>3, HeadTailProperties DEF MailRecord
<1>5. /\ version[m] \in Nat /\ covered[m] \in Nat /\ MailTypes /\ CoverInv /\ reading \in MailId
      /\ ~mail[reading].snapshot
  BY <1>1, <1>4 DEF MailInv, MailTypes
<1>6. PICK taken : /\ taken \in {[of |-> m, version |-> version[m], scope |-> "unavailable"]} \cup
                                IF version[m] = 0 THEN {} ELSE {[of |-> m, version |-> version[m], scope |-> Scope(m)]}
                   /\ Keep([r EXCEPT !.unread = Tail(@), !.sources = Append(@, taken),
                                     !.errors = @ \/ taken.scope = "unavailable"])
  <2>1. m = Head(mail[reading].unread)
    BY <1>2, <1>3
  <2>2. \E taken \in {[of |-> m, version |-> version[m], scope |-> "unavailable"]} \cup
                     IF version[m] = 0 THEN {} ELSE {[of |-> m, version |-> version[m], scope |-> Scope(m)]} :
           Keep([mail[reading] EXCEPT !.unread = Tail(@), !.sources = Append(@, taken),
                                      !.errors = @ \/ taken.scope = "unavailable"])
    <3>1. \E taken \in {[of |-> Head(mail[reading].unread), version |-> version[Head(mail[reading].unread)],
                         scope |-> "unavailable"]} \cup
                       IF version[Head(mail[reading].unread)] = 0 THEN {}
                       ELSE {[of |-> Head(mail[reading].unread), version |-> version[Head(mail[reading].unread)],
                              scope |-> Scope(Head(mail[reading].unread))]} :
             Keep([mail[reading] EXCEPT !.unread = Tail(@), !.sources = Append(@, taken),
                                        !.errors = @ \/ taken.scope = "unavailable"])
      BY DEF ReadMessage
    <3> QED BY <2>1, <3>1, Zenon
  <2>3. r = mail[reading]
    BY <1>2
  <2>4. PICK taken : /\ taken \in {[of |-> m, version |-> version[m], scope |-> "unavailable"]} \cup
                                   IF version[m] = 0 THEN {}
                                   ELSE {[of |-> m, version |-> version[m], scope |-> Scope(m)]}
                     /\ Keep([mail[reading] EXCEPT !.unread = Tail(@), !.sources = Append(@, taken),
                                                   !.errors = @ \/ taken.scope = "unavailable"])
    BY <2>2, Zenon
  <2>5. Keep([r EXCEPT !.unread = Tail(@), !.sources = Append(@, taken),
                       !.errors = @ \/ taken.scope = "unavailable"])
    BY <2>3, <2>4, Zenon
  <2> QED BY <2>4, <2>5, Zenon
<1>7. /\ taken \in Source /\ taken.of = m /\ taken.version = version[m]
      /\ taken.scope = "target" => version[m] # 0
      /\ taken.scope = "reference" => version[m] # 0 /\ covered[m] = version[m]
  BY <1>4, <1>5, <1>6 DEF Scope, Source
<1>8. PICK wrong \in BOOLEAN : wrong = (r.errors \/ taken.scope = "unavailable")
  OBVIOUS
<1>9. PICK x : x = [r EXCEPT !.unread = Tail(@), !.sources = Append(@, taken),
                             !.errors = @ \/ taken.scope = "unavailable"]
  OBVIOUS
<1>10. x = [r EXCEPT !.unread = Tail(r.unread), !.sources = Append(r.sources, taken), !.errors = wrong]
  BY <1>2, <1>9, <1>8 DEF MailRecord
<1>11. /\ Append(r.sources, taken) \in Seq(Source)
       /\ Identities(r.sources) \in Seq(Mail)
       /\ Identities(Append(r.sources, taken)) = Append(Identities(r.sources), m)
       /\ DOMAIN Append(r.sources, taken) = DOMAIN r.sources \cup {Len(r.sources) + 1}
       /\ Append(r.sources, taken)[Len(r.sources) + 1] = taken
       /\ \A i \in DOMAIN r.sources : Append(r.sources, taken)[i] = r.sources[i]
  BY <1>4, <1>7, IdentitiesFacts
<1>12. /\ x \in MailRecord /\ x.listed /\ x.unread = Tail(r.unread) /\ x.sources = Append(r.sources, taken)
       /\ x.errors = (r.errors \/ taken.scope = "unavailable")
       /\ x.more = r.more /\ ~x.snapshot /\ x.status = r.status /\ x.parent = r.parent /\ x.page = r.page
  BY <1>2, <1>4, <1>11, <1>8, <1>10 DEF MailRecord
<1>13. PageHeld(x)
  <2>1. Append(Identities(r.sources), m) \o Tail(r.unread) = Identities(r.sources) \o r.unread
    BY <1>2, <1>3, <1>4, <1>11, Moved
  <2>2. MailPages[x.page] = Identities(x.sources) \o x.unread
    BY <1>2, <1>11, <1>12, <2>1 DEF PageHeld
  <2>3. ASSUME NEW i \in DOMAIN x.sources
        PROVE  /\ x.sources[i].scope = "unavailable" => x.errors
               /\ x.sources[i].scope = "target" => x.sources[i].version # 0
    <3>1. CASE i \in DOMAIN r.sources
      <4>1. x.sources[i] = r.sources[i]
        BY <1>11, <1>12, <3>1
      <4> QED BY <1>2, <1>12, <3>1, <4>1 DEF PageHeld
    <3>2. CASE i = Len(r.sources) + 1
      <4>1. x.sources[i] = taken
        BY <1>11, <1>12, <3>2
      <4> QED BY <1>7, <1>12, <4>1
    <3> QED BY <1>11, <1>12, <3>1, <3>2
  <2> QED BY <1>2, <1>12, <2>2, <2>3 DEF PageHeld
<1>14. ASSUME NEW i \in DOMAIN x.sources, x.sources[i].scope = "reference"
       PROVE  \E b \in MailId \ {reading} : Resolved(x.sources[i].of, x.sources[i].version) \in reported[b]
  <2>1. CASE i \in DOMAIN r.sources
    <3>1. \A k \in DOMAIN r.sources : r.sources[k].scope = "reference" =>
             \E b \in MailId \ {reading} : Resolved(r.sources[k].of, r.sources[k].version) \in reported[b]
      BY <1>1, <1>2, ReadingRecord
    <3>2. x.sources[i] = r.sources[i]
      BY <1>11, <1>12, <2>1
    <3> QED BY <1>14, <2>1, <3>1, <3>2
  <2>2. CASE i = Len(r.sources) + 1
    <3>1. x.sources[i] = taken /\ covered[m] # 0 /\ covered[m] = version[m]
      BY <1>7, <1>11, <1>12, <1>14, <2>2
    <3>2. PICK b \in MailId : Resolved(m, covered[m]) \in reported[b]
      BY <1>4, <1>5, <3>1 DEF CoverInv
    <3>3. b # reading
      BY <1>5, <3>2 DEF CoverInv
    <3> QED BY <1>7, <3>1, <3>2, <3>3
  <2> QED BY <1>11, <1>12, <2>1, <2>2
<1>15. Keep(x) /\ x # NoMail
  BY <1>6, <1>9, <1>12 DEF NoMail
<1> QED BY <1>1, <1>2, <1>12, <1>13, <1>14, <1>15, KeptInv

LEMMA MakeSnapshotInv == ASSUME MailInv, MakeSnapshot PROVE MailInv'
<1>1. /\ reading # 0 /\ mail[reading].listed /\ mail[reading].unread = <<>> /\ reading' = 0
      /\ UNCHANGED <<version, covered, reported>>
  BY DEF MakeSnapshot
<1>2. PICK r \in MailRecord : r = mail[reading] /\ PageHeld(r) /\ ~r.snapshot /\ r.listed /\ r.unread = <<>>
  BY <1>1, ReadingRecord
<1>3. PICK errors \in {mail[reading].errors, TRUE} :
          Keep([mail[reading] EXCEPT
                   !.errors = errors, !.snapshot = TRUE,
                   !.status = IF errors \/ mail[reading].more THEN "partial" ELSE "collected"])
  BY DEF MakeSnapshot
<1>4. errors \in BOOLEAN /\ (r.errors => errors)
  BY <1>2, <1>3 DEF MailRecord
<1>5. PICK st : st = IF errors \/ r.more THEN "partial" ELSE "collected"
  OBVIOUS
<1>6. PICK x : x = [r EXCEPT !.errors = errors, !.snapshot = TRUE, !.status = st]
  OBVIOUS
<1>7. Keep(x)
  BY <1>2, <1>3, <1>5, <1>6
<1>8. /\ x \in MailRecord /\ x.listed /\ x.unread = r.unread /\ x.sources = r.sources /\ x.errors = errors
      /\ x.more = r.more /\ x.snapshot /\ x.status = st /\ x.parent = r.parent /\ x.page = r.page
      /\ (st = "collected" => ~errors /\ ~r.more) /\ st \in {"collected", "partial"}
  BY <1>2, <1>4, <1>5, <1>6 DEF MailRecord, MailStatus
<1>9. PageHeld(x)
  BY <1>2, <1>4, <1>8 DEF PageHeld
<1>10. \A i \in DOMAIN x.sources : x.sources[i].scope = "reference" =>
          \E b \in MailId \ {reading} : Resolved(x.sources[i].of, x.sources[i].version) \in reported[b]
  BY <1>1, <1>2, <1>8, ReadingRecord
<1> QED BY <1>1, <1>2, <1>7, <1>8, <1>9, <1>10, KeptInv

LEMMA MailFailsInv == ASSUME MailInv, MailFails PROVE MailInv'
<1>1. reading # 0 /\ reading' = 0 /\ UNCHANGED <<version, covered, reported>>
  BY DEF MailFails
<1>2. PICK r \in MailRecord : r = mail[reading] /\ PageHeld(r) /\ ~r.snapshot
  BY <1>1, ReadingRecord
<1>3. CASE Keep([mail[reading] EXCEPT !.status = "stopped"])
  <2>1. PICK x : x = [r EXCEPT !.status = "stopped"]
    OBVIOUS
  <2>2. Keep(x)
    BY <1>2, <1>3, <2>1
  <2>3. /\ x \in MailRecord /\ x.listed = r.listed /\ x.unread = r.unread /\ x.sources = r.sources
        /\ x.errors = r.errors /\ x.more = r.more /\ ~x.snapshot /\ x.status = "stopped"
        /\ x.parent = r.parent /\ x.page = r.page
    BY <1>2, <2>1 DEF MailRecord, MailStatus
  <2>4. PageHeld(x)
    BY <1>2, <2>3 DEF PageHeld
  <2>5. \A i \in DOMAIN x.sources : x.sources[i].scope = "reference" =>
          \E b \in MailId \ {reading} : Resolved(x.sources[i].of, x.sources[i].version) \in reported[b]
    BY <1>1, <1>2, <2>3, ReadingRecord
  <2> QED BY <1>1, <1>2, <2>2, <2>3, <2>4, <2>5, KeptInv
<1>4. CASE UNCHANGED mail
  BY <1>1, <1>4 DEF MailInv, MailTypes, CoverInv, ReferenceInv, ContinuedInv
<1> QED BY <1>3, <1>4 DEF MailFails

\* An acquisition is opened, and the call works on it.
LEMMA OpenedInv ==
    ASSUME MailInv, NEW page \in DOMAIN MailPages, NEW parent \in MailId \cup {0},
           OpenAcquisition(page, parent),
           parent # 0 => mail[parent].snapshot /\ page = mail[parent].page + 1,
           UNCHANGED <<version, covered, reported>>
    PROVE  MailInv'
<1>1. UNCHANGED version /\ UNCHANGED covered /\ UNCHANGED reported
  OBVIOUS
<1>2. PICK a \in MailId : /\ mail[a] = NoMail /\ reading' = a
                          /\ mail' = [mail EXCEPT ![a] = [NoMail EXCEPT !.status = "collecting", !.parent = parent,
                                                                       !.page = page]]
  BY DEF OpenAcquisition
<1>3. PICK x : x = [NoMail EXCEPT !.status = "collecting", !.parent = parent, !.page = page]
  OBVIOUS
<1>4. /\ x.status = "collecting" /\ x.parent = parent /\ x.page = page /\ ~x.listed /\ ~x.snapshot /\ ~x.more
      /\ x.sources = <<>> /\ x \in MailRecord /\ x # NoMail
  <2>1. <<>> \in Seq(Mail) /\ <<>> \in Seq(Source)
    BY EmptySeq
  <2> QED BY <1>3, <2>1 DEF NoMail, MailRecord, MailStatus
<1>5. /\ MailTypes /\ CoverInv /\ ReferenceInv /\ ContinuedInv
      /\ \A b \in MailId : PageHeld(mail[b])
  BY DEF MailInv
<1>6. \A b \in MailId : mail'[b] = IF b = a THEN x ELSE mail[b]
  BY <1>2, <1>3, <1>5 DEF MailTypes
<1>7. MailTypes'
  BY <1>1, <1>2, <1>3, <1>4, <1>5 DEF MailTypes
<1>8. ~mail[a].snapshot /\ DOMAIN x.sources = {}
  BY <1>2, <1>4, EmptySeq DEF NoMail
<1>9. PageHeld(x)
  BY <1>4, <1>8 DEF PageHeld
<1>10. \A b \in MailId : PageHeld(mail'[b])
  BY <1>5, <1>6, <1>9
<1>11. CoverInv'
  <2>1. \A b \in MailId : reported[b] # {} => mail'[b].snapshot
    BY <1>5, <1>6, <1>8 DEF CoverInv
  <2> QED BY <1>1, <1>5, <2>1 DEF CoverInv
<1>12. ReferenceInv'
  <2> SUFFICES ASSUME NEW b \in MailId, NEW i \in DOMAIN mail'[b].sources, mail'[b].sources[i].scope = "reference"
               PROVE  \E c \in MailId \ {b} : Resolved(mail'[b].sources[i].of, mail'[b].sources[i].version) \in reported[c]
    BY <1>1 DEF ReferenceInv
  <2>1. b # a
    BY <1>6, <1>8
  <2> QED BY <1>5, <1>6, <2>1 DEF ReferenceInv
<1>13. ASSUME NEW b \in MailId, mail'[b].parent # 0
       PROVE  mail'[mail'[b].parent].snapshot /\ mail'[b].page = mail'[mail'[b].parent].page + 1
  <2>1. CASE b = a
    <3>1. mail'[b].parent = parent /\ mail'[b].page = page /\ parent # 0 /\ parent \in MailId /\ parent # a
      BY <1>4, <1>6, <1>8, <1>13, <2>1
    <3> QED BY <1>6, <3>1
  <2>2. CASE b # a
    <3>1. /\ mail'[b].parent = mail[b].parent /\ mail'[b].page = mail[b].page /\ mail[b].parent # 0
          /\ mail[b].parent \in MailId
      BY <1>5, <1>6, <1>13, <2>2 DEF MailTypes, MailRecord
    <3>2. mail[mail[b].parent].snapshot /\ mail[b].page = mail[mail[b].parent].page + 1
      BY <1>5, <3>1 DEF ContinuedInv
    <3>3. mail[b].parent # a
      BY <1>8, <3>2
    <3> QED BY <1>6, <3>1, <3>2, <3>3
  <2> QED BY <2>1, <2>2
<1>14. reading' # 0 => ~mail'[reading'].snapshot /\ mail'[reading'] # NoMail
  BY <1>2, <1>4, <1>6
<1> QED BY <1>7, <1>10, <1>11, <1>12, <1>13, <1>14 DEF MailInv, ContinuedInv

LEMMA CollectInv == ASSUME MailInv, CollectNew \/ CollectMore PROVE MailInv'
<1>1. Len(MailPages) \in Nat \ {0} /\ DOMAIN MailPages = 1..Len(MailPages)
  BY MailAssumption, EmptySeq, LenProperties
<1>2. CASE CollectNew
  BY <1>1, <1>2, OpenedInv DEF CollectNew
<1>3. CASE CollectMore
  <2>1. PICK p \in MailId : mail[p].snapshot /\ mail[p].more /\ OpenAcquisition(mail[p].page + 1, p)
    BY <1>3 DEF CollectMore
  <2>2. mail[p] \in MailRecord /\ PageHeld(mail[p])
    BY DEF MailInv, MailTypes
  <2>3. mail[p].page \in DOMAIN MailPages /\ mail[p].page < Len(MailPages)
    BY <2>1, <2>2 DEF PageHeld, MailRecord
  <2>4. mail[p].page + 1 \in DOMAIN MailPages /\ p \in MailId \cup {0}
    BY <1>1, <2>3
  <2> QED BY <1>3, <2>1, <2>4, OpenedInv DEF CollectMore
<1> QED BY <1>2, <1>3

LEMMA ResumeMailInv == ASSUME MailInv, ResumeMail PROVE MailInv'
<1>1. PICK a \in MailId : mail[a] # NoMail /\ ~mail[a].snapshot /\ reading' = a
  BY DEF ResumeMail
<1>2. UNCHANGED version /\ UNCHANGED mail /\ UNCHANGED covered /\ UNCHANGED reported
  BY DEF ResumeMail
<1> QED BY <1>1, <1>2 DEF MailInv, MailTypes, CoverInv, ReferenceInv, ContinuedInv

LEMMA EditInv == ASSUME MailInv, Edit PROVE MailInv'
<1>1. UNCHANGED mail /\ UNCHANGED reading /\ UNCHANGED covered /\ UNCHANGED reported
  BY DEF Edit
<1>2. version' \in [Mail -> Nat]
  BY DEF Edit, MailInv, MailTypes
<1> QED BY <1>1, <1>2 DEF MailInv, MailTypes, CoverInv, ReferenceInv, ContinuedInv

\* The targets of an acquisition, as a report may resolve them.
LEMMA TargetsTyped ==
    ASSUME MailInv, NEW a \in MailId
    PROVE  Targets(a) \subseteq [of : Mail, version : Nat \ {0}, scope : {"target"}]
<1> SUFFICES ASSUME NEW s \in Targets(a) PROVE s \in [of : Mail, version : Nat \ {0}, scope : {"target"}]
  OBVIOUS
<1>1. PICK i \in DOMAIN mail[a].sources : s = mail[a].sources[i] /\ s.scope = "target"
  BY DEF Targets
<1>2. mail[a] \in MailRecord /\ PageHeld(mail[a])
  BY DEF MailInv, MailTypes
<1>3. mail[a].sources \in Seq(Source)
  BY <1>2 DEF MailRecord
<1>4. s \in Source
  BY <1>1, <1>3, ElementOfSeq, LenProperties
<1>5. s.version # 0
  BY <1>1, <1>2 DEF PageHeld
<1> QED BY <1>1, <1>4, <1>5 DEF Source

LEMMA ReportInv == ASSUME MailInv, Report PROVE MailInv'
<1>1. UNCHANGED version /\ UNCHANGED mail /\ UNCHANGED reading /\ UNCHANGED covered
  BY DEF Report
<1>2. PICK a \in MailId : /\ mail[a].snapshot /\ reported[a] = {}
                          /\ \E resolved \in SUBSET Targets(a) : reported' = [reported EXCEPT ![a] = resolved]
  BY DEF Report
<1>3. PICK resolved \in SUBSET Targets(a) : reported' = [reported EXCEPT ![a] = resolved]
  BY <1>2
<1>4. MailTypes /\ CoverInv /\ ReferenceInv /\ ContinuedInv
  BY DEF MailInv
<1>5. reported' \in [MailId -> SUBSET [of : Mail, version : Nat \ {0}, scope : {"target"}]]
  BY <1>3, <1>4, TargetsTyped DEF MailTypes
<1>6. \A b \in MailId : reported[b] \subseteq reported'[b] /\ (b # a => reported'[b] = reported[b])
  BY <1>2, <1>3, <1>4 DEF MailTypes
<1>7. CoverInv'
  <2>1. \A m \in Mail : covered[m] # 0 => \E b \in MailId : Resolved(m, covered[m]) \in reported'[b]
    BY <1>4, <1>6 DEF CoverInv
  <2>2. \A b \in MailId : reported'[b] # {} => mail[b].snapshot
    BY <1>2, <1>4, <1>6 DEF CoverInv
  <2> QED BY <1>1, <2>1, <2>2 DEF CoverInv
<1>8. ReferenceInv'
  BY <1>1, <1>4, <1>6 DEF ReferenceInv
<1>9. MailTypes'
  BY <1>1, <1>4, <1>5 DEF MailTypes
<1> QED BY <1>1, <1>4, <1>7, <1>8, <1>9 DEF MailInv, ContinuedInv

LEMMA CoverStepInv == ASSUME MailInv, Cover PROVE MailInv'
<1>1. UNCHANGED version /\ UNCHANGED mail /\ UNCHANGED reading /\ UNCHANGED reported
  BY DEF Cover
<1>2. PICK a \in MailId :
        covered' = [m \in Mail |-> IF \E s \in reported[a] : s.of = m
                                   THEN (CHOOSE s \in reported[a] : s.of = m).version ELSE covered[m]]
  BY DEF Cover
<1>3. MailTypes /\ CoverInv /\ ReferenceInv /\ ContinuedInv
  BY DEF MailInv
<1>4. ASSUME NEW m \in Mail
      PROVE  /\ covered'[m] \in Nat
             /\ covered'[m] # 0 => \E b \in MailId : Resolved(m, covered'[m]) \in reported[b]
  <2>1. CASE \E s \in reported[a] : s.of = m
    <3>1. PICK t : t = CHOOSE s \in reported[a] : s.of = m
      OBVIOUS
    <3>2. t \in reported[a] /\ t.of = m
      BY <2>1, <3>1
    <3>3. covered'[m] = t.version
      BY <1>2, <2>1, <3>1
    <3>4. t \in [of : Mail, version : Nat \ {0}, scope : {"target"}]
      BY <1>3, <3>2 DEF MailTypes
    <3>5. t = Resolved(m, t.version) /\ t.version \in Nat
      BY <3>2, <3>4 DEF Resolved
    <3> QED BY <3>2, <3>3, <3>5
  <2>2. CASE ~\E s \in reported[a] : s.of = m
    <3>1. covered'[m] = covered[m]
      BY <1>2, <2>2
    <3> QED BY <1>3, <3>1 DEF CoverInv, MailTypes
  <2> QED BY <2>1, <2>2
<1>5. covered' \in [Mail -> Nat]
  <2>1. covered' = [m \in Mail |-> covered'[m]]
    BY <1>2
  <2> QED BY <1>4, <2>1
<1>6. CoverInv'
  BY <1>1, <1>3, <1>4 DEF CoverInv
<1> QED BY <1>1, <1>3, <1>5, <1>6 DEF MailInv, MailTypes, ReferenceInv, ContinuedInv

LEMMA MailSteps == ASSUME MailInv, [MailboxNext]_mailboxVars PROVE MailInv'
<1>1. CASE UNCHANGED mailboxVars
  BY <1>1 DEF mailboxVars, MailInv, MailTypes, CoverInv, ReferenceInv, ContinuedInv
<1>2. CASE MailboxNext
  BY <1>2, EditInv, CollectInv, ResumeMailInv, ListInv, ReadMessageInv, MakeSnapshotInv, MailFailsInv,
     ReportInv, CoverStepInv DEF MailboxNext
<1> QED BY <1>1, <1>2

LEMMA MailFollows == MailInv => NoMessageIsPassedOver
<1> SUFFICES ASSUME MailInv, NEW a \in MailId
             PROVE  LET page == MailPages[mail[a].page]
                    IN  /\ mail[a].listed =>
                             page = [i \in DOMAIN mail[a].sources |-> mail[a].sources[i].of] \o mail[a].unread
                        /\ \A i \in DOMAIN mail[a].sources :
                              mail[a].sources[i].scope = "reference" =>
                                 \E b \in MailId \ {a} : [mail[a].sources[i] EXCEPT !.scope = "target"] \in reported[b]
                        /\ mail[a].snapshot => mail[a].listed /\ mail[a].unread = <<>>
                        /\ mail[a].status = "collected" => /\ mail[a].page = Len(MailPages)
                                                           /\ \A i \in DOMAIN mail[a].sources :
                                                                mail[a].sources[i].scope # "unavailable"
                        /\ mail[a].parent # 0 => /\ mail[mail[a].parent].snapshot
                                                 /\ mail[a].page = mail[mail[a].parent].page + 1
  BY DEF NoMessageIsPassedOver
<1>1. PICK r \in MailRecord : r = mail[a] /\ PageHeld(r)
  BY DEF MailInv, MailTypes
<1>2. r.listed => MailPages[r.page] = [i \in DOMAIN r.sources |-> r.sources[i].of] \o r.unread
  BY <1>1 DEF PageHeld, Identities
<1>3. r.snapshot => r.listed /\ r.unread = <<>>
  BY <1>1 DEF PageHeld
<1>4. r.status = "collected" => r.page = Len(MailPages) /\ \A i \in DOMAIN r.sources : r.sources[i].scope # "unavailable"
  <2>1. r.page \in 1..Len(MailPages) /\ Len(MailPages) \in Nat
    BY MailAssumption, LenProperties DEF MailRecord
  <2>2. r.status = "collected" => r.snapshot /\ ~r.errors /\ ~r.more /\ r.listed
    BY <1>1, <1>3 DEF PageHeld
  <2>3. r.status = "collected" => ~(r.page < Len(MailPages))
    BY <1>1, <2>2 DEF PageHeld
  <2>4. r.status = "collected" => \A i \in DOMAIN r.sources : r.sources[i].scope # "unavailable"
    BY <1>1, <2>2 DEF PageHeld
  <2> QED BY <2>1, <2>3, <2>4
<1>5. ASSUME NEW i \in DOMAIN r.sources, r.sources[i].scope = "reference"
      PROVE  \E b \in MailId \ {a} : [r.sources[i] EXCEPT !.scope = "target"] \in reported[b]
  <2>1. r.sources[i] \in Source
    <3>1. r.sources \in Seq(Source)
      BY DEF MailRecord
    <3> QED BY <3>1, ElementOfSeq, LenProperties
  <2>2. [r.sources[i] EXCEPT !.scope = "target"] = Resolved(r.sources[i].of, r.sources[i].version)
    BY <2>1 DEF Source, Resolved
  <2> QED BY <1>1, <1>5, <2>2 DEF MailInv, ReferenceInv
<1>6. r.parent # 0 => mail[r.parent].snapshot /\ r.page = mail[r.parent].page + 1
  BY <1>1 DEF MailInv, ContinuedInv
<1> QED BY <1>1, <1>2, <1>3, <1>4, <1>5, <1>6

\* Every message of a page that an acquisition took is read or still to be read, and one
\* passed over as already covered was resolved by the report of another acquisition,
\* whatever changes in the mailbox and wherever a call ends (gmail/acquisition.go).
THEOREM NothingIsPassedOver == OperationsSpec => []NoMessageIsPassedOver
<1>1. OperationsInit => MailInv
  BY MailStarts DEF OperationsInit
<1>2. MailInv /\ [OperationsNext]_operationsVars => MailInv'
  <2> SUFFICES ASSUME MailInv, [OperationsNext]_operationsVars PROVE MailInv'
    OBVIOUS
  <2>1. [MailboxNext]_mailboxVars
    BY DEF OperationsNext, operationsVars
  <2> QED BY <2>1, MailSteps
<1> QED BY <1>1, <1>2, MailFollows, PTL DEF OperationsSpec

-----------------------------------------------------------------------------
(***************************************************************************)
(* The acquisition of Jira issues                                          *)
(***************************************************************************)

JiraStatus == {"none", "collecting", "collected", "partial", "failed", "retry_wait"}
JiraStop == Bounds \cup {"none", "end_of_source", "page_budget_exhausted", "repeated_cursor", "retry_wait",
                         "normalization_failed", "reader_failed"}
PageRecord == [cursor : DOMAIN source, next : DOMAIN source, complete : BOOLEAN, processed : BOOLEAN,
               rows : 0..MaxIssues]
IssueRow == (DOMAIN source) \X (Nat \ {0})

JiraTypes ==
    /\ source \in IssueSource
    /\ issues \in [status : JiraStatus, stop : JiraStop, pages : Seq(PageRecord), cursor : DOMAIN source,
                   rows : 0..MaxIssues, complete : BOOLEAN, exhausted : BOOLEAN, normalized : Seq(IssueRow)]
    /\ calling \in BOOLEAN /\ granted \in 0..MaxPages

\* The pages are a chain of different cursors from the start, as the provider has them; of
\* one that was not cut, every row was taken.
ChainInv ==
    \A i \in DOMAIN Pages :
        /\ Pages[i].next = source[Pages[i].cursor].next /\ Pages[i].complete = source[Pages[i].cursor].complete
        /\ Pages[i].cursor = IF i = 1 THEN 0 ELSE Pages[i - 1].next
        /\ \A k \in 1..(i - 1) : /\ Pages[k].cursor # Pages[i].cursor
                                 /\ Pages[k].processed /\ ~Pages[k].complete
        /\ Pages[i].processed /\ ~issues.exhausted => Pages[i].rows = source[Pages[i].cursor].rows

\* How many pages are processed, and what was taken of them.
Done == IF Pending THEN Len(Pages) - 1 ELSE Len(Pages)
Takes(t) ==
    /\ t[0] = 0 /\ \A i \in 1..Done : t[i] = t[i - 1] + Pages[i].rows
    /\ t[Done] = issues.rows /\ \A i \in 0..Done : t[i] <= issues.rows
    /\ \A k \in 1..Done : \A n \in 1..Pages[k].rows : issues.normalized[t[k - 1] + n] = <<Pages[k].cursor, n>>
RowsInv == Len(issues.normalized) = issues.rows /\ \E t \in [0..Done -> 0..MaxIssues] : Takes(t)

\* Where the acquisition is, and what its call may still do.
OnwardInv ==
    /\ issues.cursor = IF Done = 0 THEN 0 ELSE Pages[Done].next
    /\ issues.exhausted => issues.rows = MaxIssues
    /\ issues.complete => Done = Len(Pages) /\ Done # 0 /\ Pages[Done].complete /\ ~issues.exhausted
    /\ (issues.status = "collected") <=> issues.complete
    /\ issues.status = "none" => issues = Unsaved
    /\ Len(Pages) <= MaxPages /\ (calling <=> granted > 0)
    /\ calling => /\ ~issues.complete /\ issues.status # "none" /\ issues.rows < MaxIssues
                  /\ granted = MaxPages - Done
                  /\ Done # 0 => ~Pages[Done].complete

JiraInv == JiraTypes /\ ChainInv /\ RowsInv /\ OnwardInv

LEMMA JiraStarts == JiraInit => JiraInv
<1> SUFFICES ASSUME JiraInit PROVE JiraInv
  OBVIOUS
<1>1. /\ issues = Unsaved /\ source \in IssueSource /\ calling = FALSE /\ granted = 0
      /\ 0 \in DOMAIN source /\ MaxPages \in Nat \ {0} /\ MaxIssues \in Nat \ {0}
  BY JiraAssumption DEF JiraInit
<1>2. /\ issues.pages = <<>> /\ issues.status = "none" /\ issues.stop = "none" /\ issues.cursor = 0 /\ issues.rows = 0
      /\ issues.complete = FALSE /\ issues.exhausted = FALSE /\ issues.normalized = <<>>
  BY <1>1 DEF Unsaved
<1>3. JiraTypes
  <2>1. /\ <<>> \in Seq(PageRecord) /\ <<>> \in Seq(IssueRow) /\ 0 \in 0..MaxIssues /\ 0 \in 0..MaxPages
        /\ "none" \in JiraStatus /\ "none" \in JiraStop
    BY <1>1 DEF JiraStatus, JiraStop
  <2> QED BY <1>1, <2>1 DEF JiraTypes, Unsaved
<1>4. Done = 0 /\ DOMAIN Pages = {} /\ Len(Pages) = 0
  <2>1. Pages = <<>> /\ Len(Pages) = 0 /\ DOMAIN Pages = {}
    BY <1>2 DEF Pages
  <2>2. ~Pending
    BY <2>1 DEF Pending
  <2> QED BY <2>1, <2>2 DEF Done
<1>5. ChainInv
  BY <1>4 DEF ChainInv
<1>6. RowsInv
  <2>1. PICK t \in [0..Done -> 0..MaxIssues] : t = [i \in 0..0 |-> 0]
    BY <1>1, <1>4
  <2>2. t[0] = 0 /\ 1..Done = {} /\ t[Done] = issues.rows /\ \A i \in 0..Done : t[i] <= issues.rows
    BY <1>2, <1>4, <2>1
  <2>3. Takes(t)
    BY <2>2 DEF Takes
  <2>4. Len(issues.normalized) = issues.rows
    BY <1>2
  <2> QED BY <2>3, <2>4 DEF RowsInv
<1>7. OnwardInv
  <2>1. issues.cursor = 0 /\ ~issues.exhausted /\ ~issues.complete /\ issues.status # "collected" /\ ~calling /\ ~(granted > 0)
    BY <1>1, <1>2
  <2>2. Len(Pages) <= MaxPages
    BY <1>1, <1>4
  <2> QED BY <1>1, <1>4, <2>1, <2>2 DEF OnwardInv
<1> QED BY <1>3, <1>5, <1>6, <1>7 DEF JiraInv

\* The processed pages are the first ones, all of them or all but the last.
LEMMA DoneFacts ==
    ASSUME JiraTypes, ChainInv
    PROVE  /\ Pages \in Seq(PageRecord) /\ Len(Pages) \in Nat /\ DOMAIN Pages = 1..Len(Pages)
           /\ \A i \in 1..Len(Pages) : Pages[i] \in PageRecord
           /\ Done \in 0..Len(Pages) /\ \A i \in 1..Done : Pages[i].processed
           /\ Pending => Done = Len(Pages) - 1 /\ Len(Pages) \in Nat \ {0} /\ ~Pages[Len(Pages)].processed
           /\ ~Pending => Done = Len(Pages)
<1>1. Pages \in Seq(PageRecord)
  BY DEF JiraTypes, Pages
<1>2. Len(Pages) \in Nat /\ DOMAIN Pages = 1..Len(Pages) /\ \A i \in 1..Len(Pages) : Pages[i] \in PageRecord
  BY <1>1, LenProperties, ElementOfSeq
<1>3. Pages # <<>> => Len(Pages) \in Nat \ {0}
  BY <1>1, <1>2, EmptySeq
<1>4. Len(Pages) # 0 => Pages # <<>>
  BY <1>1, EmptySeq
<1>5. ASSUME NEW i \in 1..Len(Pages), i < Len(Pages) PROVE Pages[i].processed
  <2>1. Len(Pages) \in DOMAIN Pages /\ i \in 1..(Len(Pages) - 1)
    BY <1>2, <1>5
  <2> QED BY <2>1 DEF ChainInv
<1>6. CASE Pending
  <2>1. Done = Len(Pages) - 1 /\ Len(Pages) \in Nat \ {0} /\ ~Pages[Len(Pages)].processed
    BY <1>3, <1>6 DEF Done, Pending
  <2>2. ASSUME NEW i \in 1..Done PROVE Pages[i].processed
    BY <1>2, <1>5, <2>1
  <2> QED BY <1>1, <1>2, <1>6, <2>1, <2>2
<1>7. CASE ~Pending
  <2>1. Done = Len(Pages)
    BY <1>7 DEF Done
  <2>2. ASSUME NEW i \in 1..Done PROVE Pages[i].processed
    <3>1. CASE i < Len(Pages)
      BY <1>5, <2>1, <3>1
    <3>2. CASE i = Len(Pages)
      <4>1. Pages # <<>>
        BY <1>2, <1>4, <2>1
      <4> QED BY <1>7, <3>2, <4>1 DEF Pending
    <3>3. i < Len(Pages) \/ i = Len(Pages)
      <4>1. PICK n \in Nat : n = Len(Pages)
        BY <1>2
      <4>2. i \in 1..n
        BY <2>1, <4>1
      <4> QED BY <4>1, <4>2
    <3> QED BY <3>1, <3>2, <3>3, Zenon
  <2>3. Done \in 0..Len(Pages)
    BY <1>2, <2>1
  <2> QED BY <1>1, <1>2, <1>7, <2>1, <2>2, <2>3
<1> QED BY <1>6, <1>7

\* What a step that leaves the pages alone keeps.
LEMMA PagesKept ==
    ASSUME JiraInv, source' = source, issues'.pages = issues.pages, issues'.cursor = issues.cursor,
           issues'.rows = issues.rows, issues'.exhausted = issues.exhausted, issues'.normalized = issues.normalized
    PROVE  ChainInv' /\ RowsInv' /\ Done' = Done /\ Pages' = Pages /\ Pending' = Pending
<1>1. Pages' = Pages
  BY DEF Pages
<1>2. Pending' = Pending
  BY <1>1 DEF Pending
<1>3. Done' = Done
  BY <1>1, <1>2 DEF Done
<1>4. ChainInv'
  BY <1>1 DEF JiraInv, ChainInv
<1>5. RowsInv'
  <2>1. PICK t \in [0..Done -> 0..MaxIssues] : Takes(t)
    BY DEF JiraInv, RowsInv
  <2>2. Takes(t)'
    BY <1>1, <1>3, <2>1 DEF Takes
  <2>3. Len(issues'.normalized) = issues'.rows
    BY DEF JiraInv, RowsInv
  <2> QED BY <1>3, <2>1, <2>2, <2>3 DEF RowsInv
<1> QED BY <1>1, <1>2, <1>3, <1>4, <1>5

LEMMA StatusStep ==
    ASSUME JiraInv, source' = source, ~issues.complete,
           NEW s \in JiraStatus \ {"none", "collected"}, NEW w \in JiraStop,
           issues' = [issues EXCEPT !.status = s, !.stop = w],
           calling' \in BOOLEAN, granted' \in 0..MaxPages, calling' <=> granted' > 0,
           calling' => /\ issues.rows < MaxIssues /\ granted' = MaxPages - Done
                       /\ Done # 0 => ~Pages[Done].complete
    PROVE  JiraInv'
<1>1. PICK r : r = issues
  OBVIOUS
<1>2. r \in [status : JiraStatus, stop : JiraStop, pages : Seq(PageRecord), cursor : DOMAIN source,
             rows : 0..MaxIssues, complete : BOOLEAN, exhausted : BOOLEAN, normalized : Seq(IssueRow)]
  BY <1>1 DEF JiraInv, JiraTypes
<1>3. issues' = [r EXCEPT !.status = s, !.stop = w]
  BY <1>1
<1>4. /\ issues'.pages = r.pages /\ issues'.cursor = r.cursor /\ issues'.rows = r.rows
      /\ issues'.exhausted = r.exhausted /\ issues'.normalized = r.normalized /\ issues'.complete = r.complete
      /\ issues'.status = s /\ issues'.stop = w
      /\ issues' \in [status : JiraStatus, stop : JiraStop, pages : Seq(PageRecord), cursor : DOMAIN source,
             rows : 0..MaxIssues, complete : BOOLEAN, exhausted : BOOLEAN, normalized : Seq(IssueRow)]
  BY <1>2, <1>3
<1>5. JiraTypes'
  BY <1>4 DEF JiraInv, JiraTypes, PageRecord, IssueRow
<1>6. ChainInv' /\ RowsInv' /\ Done' = Done /\ Pages' = Pages
  BY <1>1, <1>4, PagesKept
<1>7. OnwardInv'
  BY <1>1, <1>4, <1>6 DEF JiraInv, OnwardInv
<1> QED BY <1>5, <1>6, <1>7 DEF JiraInv

LEMMA ProcessedFacts ==
    ASSUME JiraTypes, ChainInv
    PROVE  /\ Processed(Pages) \in Seq(PageRecord) /\ Len(Processed(Pages)) = Done
           /\ DOMAIN Processed(Pages) = 1..Done
           /\ \A i \in 1..Done : Processed(Pages)[i] = Pages[i]
           /\ (Processed(Pages) = <<>>) <=> (Done = 0)
<1>1. /\ Pages \in Seq(PageRecord) /\ Len(Pages) \in Nat /\ Done \in 0..Len(Pages)
      /\ Pending => Done = Len(Pages) - 1 /\ Len(Pages) \in Nat \ {0}
      /\ ~Pending => Done = Len(Pages)
  BY DoneFacts
<1>2. CASE Pending
  <2>1. Processed(Pages) = SubSeq(Pages, 1, Done)
    BY <1>1, <1>2 DEF Processed, Pending
  <2>2. Done \in Nat /\ 1 <= Len(Pages) + 1 /\ Done <= Len(Pages)
    BY <1>1
  <2>3. ASSUME NEW i \in 1..Done PROVE Pages[i] \in PageRecord
    BY <1>1, <2>2, ElementOfSeq
  <2>4. /\ SubSeq(Pages, 1, Done) \in Seq(PageRecord) /\ Len(SubSeq(Pages, 1, Done)) = Done
        /\ \A i \in 1..Done : SubSeq(Pages, 1, Done)[i] = Pages[i]
    BY <1>1, <2>2, <2>3
  <2> QED BY <2>1, <2>2, <2>4, LenProperties, EmptySeq
<1>3. CASE ~Pending
  <2>1. Processed(Pages) = Pages
    BY <1>3 DEF Processed, Pending
  <2> QED BY <1>1, <1>3, <2>1, LenProperties, EmptySeq
<1> QED BY <1>2, <1>3

LEMMA CollectLiveInv == ASSUME JiraInv, CollectLive PROVE JiraInv'
<1>1. /\ issues.status = "none" /\ issues' = [issues EXCEPT !.status = "collecting"]
      /\ calling' = TRUE /\ granted' = MaxPages /\ source' = source
  BY DEF CollectLive
<1>2. issues = Unsaved /\ MaxPages \in Nat \ {0} /\ MaxIssues \in Nat \ {0}
  BY <1>1, JiraAssumption DEF JiraInv, OnwardInv
<1>3. issues.pages = <<>> /\ issues.rows = 0 /\ issues.complete = FALSE /\ issues.stop = "none"
  BY <1>2 DEF Unsaved
<1>4. Done = 0
  <2>1. Pages = <<>> /\ Len(Pages) = 0
    BY <1>3 DEF Pages
  <2>2. ~Pending
    BY <2>1 DEF Pending
  <2> QED BY <2>1, <2>2 DEF Done
<1>5. issues' = [issues EXCEPT !.status = "collecting", !.stop = "none"]
  BY <1>1, <1>2, <1>3 DEF Unsaved
<1>6. "collecting" \in JiraStatus \ {"none", "collected"} /\ "none" \in JiraStop
  BY DEF JiraStatus, JiraStop
<1>7. /\ granted' \in 0..MaxPages /\ granted' > 0 /\ granted' = MaxPages - Done
      /\ ~issues.complete /\ issues.rows < MaxIssues
  BY <1>1, <1>2, <1>3, <1>4
<1> QED BY <1>1, <1>4, <1>5, <1>6, <1>7, StatusStep

LEMMA ResumeLiveInv == ASSUME JiraInv, ResumeLive PROVE JiraInv'
<1>1. /\ ~calling /\ issues.status # "none" /\ ~issues.complete /\ issues.rows < MaxIssues /\ source' = source
      /\ \A i \in DOMAIN Pages : ~(Pages[i].processed /\ Pages[i].complete)
  BY DEF ResumeLive
<1>2. /\ Len(Processed(Pages)) = Done /\ Done \in 0..Len(Pages) /\ Len(Pages) \in Nat
      /\ \A i \in 1..Done : Pages[i].processed /\ i \in DOMAIN Pages
  BY DoneFacts, ProcessedFacts DEF JiraInv
<1>3. issues.status \in JiraStatus \ {"none", "collected"} /\ issues.stop \in JiraStop
  BY <1>1 DEF JiraInv, JiraTypes, OnwardInv
<1>4. Done # 0 => ~Pages[Done].complete
  BY <1>1, <1>2
<1>5. MaxPages \in Nat \ {0}
  BY JiraAssumption
<1>6. CASE MaxPages > Done
  <2>1. calling' = TRUE /\ granted' = MaxPages - Done /\ issues' = issues
    BY <1>2, <1>6 DEF ResumeLive
  <2>2. granted' \in 0..MaxPages /\ granted' > 0
    <3>1. PICK n \in Nat, m \in Nat : n = Done /\ m = MaxPages
      BY <1>2, <1>5
    <3> QED BY <1>6, <2>1, <3>1
  <2>3. issues' = [issues EXCEPT !.status = issues.status, !.stop = issues.stop]
    BY <2>1 DEF JiraInv, JiraTypes
  <2> QED BY <1>1, <1>3, <1>4, <2>1, <2>2, <2>3, StatusStep
<1>7. CASE ~(MaxPages > Done)
  <2>1. issues' = [issues EXCEPT !.status = "failed", !.stop = "page_budget_exhausted"] /\ calling' = calling /\ granted' = granted
    BY <1>2, <1>7 DEF ResumeLive
  <2>2. granted' \in 0..MaxPages /\ ~(granted' > 0) /\ ~calling' /\ calling' \in BOOLEAN
    BY <1>1, <2>1 DEF JiraInv, JiraTypes, OnwardInv
  <2>3. "failed" \in JiraStatus \ {"none", "collected"} /\ "page_budget_exhausted" \in JiraStop
    BY DEF JiraStatus, JiraStop
  <2> QED BY <1>1, <2>1, <2>2, <2>3, StatusStep
<1> QED BY <1>6, <1>7

LEMMA StopsInv ==
    ASSUME JiraInv, calling, source' = source, NEW s \in JiraStatus \ {"none", "collected"}, NEW w \in JiraStop,
           Stops(s, w)
    PROVE  JiraInv'
<1>1. issues' = [issues EXCEPT !.status = s, !.stop = w] /\ calling' = FALSE /\ granted' = 0
  BY DEF Stops
<1>2. ~issues.complete
  BY DEF JiraInv, OnwardInv
<1>3. granted' \in 0..MaxPages /\ ~(granted' > 0)
  BY <1>1, JiraAssumption
<1> QED BY <1>1, <1>2, <1>3, StatusStep

LEMMA RepeatedCursorInv == ASSUME JiraInv, RepeatedCursor PROVE JiraInv'
<1>1. calling /\ Stops("failed", "repeated_cursor") /\ source' = source
  BY DEF RepeatedCursor
<1>2. "failed" \in JiraStatus \ {"none", "collected"} /\ "repeated_cursor" \in JiraStop
  BY DEF JiraStatus, JiraStop
<1> QED BY <1>1, <1>2, StopsInv

LEMMA JiraFailsInv == ASSUME JiraInv, JiraFails PROVE JiraInv'
<1>1. calling /\ source' = source
  BY DEF JiraFails
<1>2. /\ {"failed", "retry_wait"} \subseteq JiraStatus \ {"none", "collected"}
      /\ {"normalization_failed", "reader_failed", "retry_wait"} \subseteq JiraStop
  BY DEF JiraStatus, JiraStop
<1>3. CASE Stops("retry_wait", "retry_wait")
  BY <1>1, <1>2, <1>3, StopsInv
<1>4. CASE Stops("failed", IF Pending THEN "normalization_failed" ELSE "reader_failed")
  BY <1>1, <1>2, <1>4, StopsInv
<1>5. CASE calling' = FALSE /\ granted' = 0 /\ issues' = issues
  <2>1. issues.status \in JiraStatus \ {"none", "collected"} /\ issues.stop \in JiraStop /\ ~issues.complete
    BY <1>1 DEF JiraInv, JiraTypes, OnwardInv
  <2>2. issues' = [issues EXCEPT !.status = issues.status, !.stop = issues.stop]
    BY <1>5 DEF JiraInv, JiraTypes
  <2>3. granted' \in 0..MaxPages /\ ~(granted' > 0)
    BY <1>5, JiraAssumption
  <2> QED BY <1>1, <1>5, <2>1, <2>2, <2>3, StatusStep
<1> QED BY <1>3, <1>4, <1>5 DEF JiraFails

LEMMA PreserveInv == ASSUME JiraInv, Preserve PROVE JiraInv'
<1> DEFINE p == [cursor |-> issues.cursor, next |-> source[issues.cursor].next,
                 complete |-> source[issues.cursor].complete, processed |-> FALSE, rows |-> 0]
<1>1. JiraTypes /\ ChainInv /\ RowsInv /\ OnwardInv
  BY DEF JiraInv
<1>2. /\ calling /\ ~Pending /\ \A i \in DOMAIN Pages : Pages[i].cursor # issues.cursor
      /\ issues' = [issues EXCEPT !.status = "collecting", !.stop = "none", !.pages = Append(@, p)]
      /\ source' = source /\ calling' = calling /\ granted' = granted
  BY DEF Preserve
<1>3. source[issues.cursor] \in Answers(DOMAIN source) /\ source \in IssueSource /\ issues.cursor \in DOMAIN source
  BY <1>1, JiraAssumption DEF JiraTypes
<1>4. p \in PageRecord
  <2>1. 0 \in 0..MaxIssues
    BY JiraAssumption
  <2> QED BY <1>3, <2>1 DEF PageRecord, Answers
<1>5. PICK n \in Nat : n = Len(Pages)
  BY <1>1, DoneFacts
<1>6. Pages \in Seq(PageRecord) /\ DOMAIN Pages = 1..n /\ Done = n /\ \A i \in 1..n : Pages[i].processed
  BY <1>1, <1>2, <1>5, DoneFacts
<1>7. PICK q : q = Append(Pages, p)
  OBVIOUS
<1>8. /\ q \in Seq(PageRecord) /\ Len(q) = n + 1 /\ DOMAIN q = 1..(n + 1)
      /\ \A i \in 1..n : q[i] = Pages[i]
      /\ q[n + 1] = p /\ q # <<>>
  <2>1. q \in Seq(PageRecord) /\ Len(q) = n + 1 /\ \A i \in 1..n : q[i] = Pages[i]
    BY <1>4, <1>5, <1>6, <1>7, AppendProperties
  <2>2. q[n + 1] = p
    BY <1>4, <1>5, <1>6, <1>7, AppendProperties
  <2> QED BY <2>1, <2>2, LenProperties, EmptySeq
<1>9. /\ issues'.pages = q /\ issues'.cursor = issues.cursor /\ issues'.rows = issues.rows
      /\ issues'.exhausted = issues.exhausted /\ issues'.normalized = issues.normalized
      /\ issues'.complete = issues.complete /\ issues'.status = "collecting"
      /\ issues' \in [status : JiraStatus, stop : JiraStop, pages : Seq(PageRecord), cursor : DOMAIN source,
             rows : 0..MaxIssues, complete : BOOLEAN, exhausted : BOOLEAN, normalized : Seq(IssueRow)]
  <2>1. PICK r : r = issues
    OBVIOUS
  <2>2. r \in [status : JiraStatus, stop : JiraStop, pages : Seq(PageRecord), cursor : DOMAIN source,
             rows : 0..MaxIssues, complete : BOOLEAN, exhausted : BOOLEAN, normalized : Seq(IssueRow)]
    BY <1>1, <2>1 DEF JiraTypes
  <2>3. issues' = [r EXCEPT !.status = "collecting", !.stop = "none", !.pages = q]
    BY <1>2, <1>7, <2>1 DEF Pages
  <2>4. "collecting" \in JiraStatus /\ "none" \in JiraStop
    BY DEF JiraStatus, JiraStop
  <2> QED BY <1>8, <2>1, <2>2, <2>3, <2>4
<1>10. JiraTypes'
  BY <1>1, <1>2, <1>9 DEF JiraTypes, PageRecord, IssueRow
<1>11. Pages' = q
  BY <1>9 DEF Pages
<1>12. Done' = n
  <2>1. p.processed = FALSE
    OBVIOUS
  <2>2. Pending'
    BY <1>8, <1>11, <2>1 DEF Pending
  <2> QED BY <1>8, <1>11, <2>2 DEF Done
<1>13. \A i \in 1..n : ~Pages[i].complete
  <2>1. ASSUME NEW i \in 1..n, i # n PROVE ~Pages[i].complete
    <3>1. n \in DOMAIN Pages /\ i \in 1..(n - 1)
      BY <1>6, <2>1
    <3> QED BY <1>1, <3>1 DEF ChainInv
  <2>2. n # 0 => ~Pages[n].complete
    BY <1>1, <1>2, <1>6 DEF OnwardInv
  <2> QED BY <2>1, <2>2
<1>14. ChainInv'
  <2> SUFFICES ASSUME NEW i \in 1..(n + 1)
               PROVE  /\ q[i].next = source[q[i].cursor].next /\ q[i].complete = source[q[i].cursor].complete
                      /\ q[i].cursor = IF i = 1 THEN 0 ELSE q[i - 1].next
                      /\ \A k \in 1..(i - 1) : q[k].cursor # q[i].cursor /\ q[k].processed /\ ~q[k].complete
                      /\ q[i].processed /\ ~issues.exhausted => q[i].rows = source[q[i].cursor].rows
    BY <1>2, <1>8, <1>9, <1>11 DEF ChainInv
  <2>1. CASE i # n + 1
    <3>1. i \in DOMAIN Pages /\ q[i] = Pages[i] /\ (i # 1 => q[i - 1] = Pages[i - 1])
      BY <1>6, <1>8, <2>1
    <3>2. \A k \in 1..(i - 1) : q[k] = Pages[k]
      BY <1>8, <2>1
    <3> QED BY <1>1, <3>1, <3>2 DEF ChainInv
  <2>2. CASE i = n + 1
    <3>1. q[i] = p /\ p.cursor = issues.cursor /\ p.next = source[issues.cursor].next
          /\ p.complete = source[issues.cursor].complete /\ ~p.processed
      BY <1>8, <2>2
    <3>2. p.cursor = IF i = 1 THEN 0 ELSE q[i - 1].next
      <4>1. i # 1 => i - 1 = n /\ n \in 1..n
        BY <2>2
      <4>2. i = 1 => n = 0
        BY <2>2
      <4> QED BY <1>1, <1>6, <1>8, <3>1, <4>1, <4>2 DEF OnwardInv
    <3>3. ASSUME NEW k \in 1..(i - 1) PROVE q[k].cursor # p.cursor /\ q[k].processed /\ ~q[k].complete
      <4>1. k \in 1..n /\ k \in DOMAIN Pages /\ q[k] = Pages[k]
        BY <1>6, <1>8, <2>2
      <4> QED BY <1>2, <1>6, <1>13, <3>1, <4>1
    <3> QED BY <3>1, <3>2, <3>3
  <2> QED BY <2>1, <2>2
<1>15. RowsInv'
  <2>1. PICK t \in [0..n -> 0..MaxIssues] : Takes(t)
    BY <1>1, <1>6 DEF RowsInv
  <2>2. Takes(t)'
    <3>1. /\ t[0] = 0 /\ \A i \in 1..n : t[i] = t[i - 1] + Pages[i].rows
          /\ t[n] = issues.rows /\ \A i \in 0..n : t[i] <= issues.rows
          /\ \A k \in 1..n : \A m \in 1..Pages[k].rows :
                issues.normalized[t[k - 1] + m] = <<Pages[k].cursor, m>>
      BY <1>6, <2>1 DEF Takes
    <3>2. /\ t[0] = 0 /\ \A i \in 1..n : t[i] = t[i - 1] + q[i].rows
          /\ t[n] = issues'.rows /\ \A i \in 0..n : t[i] <= issues'.rows
          /\ \A k \in 1..n : \A m \in 1..q[k].rows :
                issues'.normalized[t[k - 1] + m] = <<q[k].cursor, m>>
      <4>1. issues'.rows = issues.rows /\ issues'.normalized = issues.normalized
            /\ \A i \in 1..n : q[i] = Pages[i]
        BY <1>8, <1>9
      <4>2. \A i \in 1..n : t[i] = t[i - 1] + q[i].rows
        BY <3>1, <4>1
      <4>3. ASSUME NEW k \in 1..n, NEW m \in 1..q[k].rows
            PROVE  issues'.normalized[t[k - 1] + m] = <<q[k].cursor, m>>
        BY <3>1, <4>1, <4>3
      <4> QED BY <3>1, <4>1, <4>2, <4>3
    <3> QED BY <1>11, <1>12, <3>2 DEF Takes
  <2>3. Len(issues'.normalized) = issues'.rows
    BY <1>1, <1>9 DEF RowsInv
  <2> QED BY <1>12, <2>1, <2>2, <2>3 DEF RowsInv
<1>16. OnwardInv'
  <2>1. Len(q) <= MaxPages
    <3>1. granted = MaxPages - n /\ granted > 0 /\ MaxPages \in Nat
      BY <1>1, <1>2, <1>6, JiraAssumption DEF OnwardInv
    <3> QED BY <1>8, <3>1
  <2>2. issues'.cursor = IF n = 0 THEN 0 ELSE q[n].next
    BY <1>1, <1>6, <1>8, <1>9 DEF OnwardInv
  <2>3. n # 0 => ~q[n].complete
    BY <1>8, <1>13
  <2>4. ~issues.complete /\ calling' /\ granted' > 0 /\ issues.rows < MaxIssues /\ granted' = MaxPages - n
        /\ (issues.exhausted => issues.rows = MaxIssues)
    BY <1>1, <1>2, <1>6 DEF OnwardInv
  <2> QED BY <1>9, <1>11, <1>12, <2>1, <2>2, <2>3, <2>4 DEF OnwardInv
<1> QED BY <1>10, <1>14, <1>15, <1>16 DEF JiraInv

\* A page that is normalized adds what was taken of it to the rows and to the totals.
LEMMA NormalizeInv == JiraInv /\ Normalize => JiraInv'
<1> SUFFICES ASSUME JiraInv, Normalize PROVE JiraInv'
  OBVIOUS
<1>1. JiraTypes /\ ChainInv /\ RowsInv /\ OnwardInv
  BY DEF JiraInv
<1>2. calling /\ Pending /\ source' = source /\ ~issues.complete /\ issues.status # "none"
      /\ (issues.exhausted => issues.rows = MaxIssues) /\ granted = MaxPages - Done /\ Len(Pages) <= MaxPages
  BY <1>1 DEF Normalize, OnwardInv
<1>3. PICK n \in Nat \ {0} : n = Len(Pages) /\ Done = n - 1
  BY <1>1, <1>2, DoneFacts
<1>4. PICK q \in Seq(PageRecord) : q = Pages
  BY <1>1, DoneFacts
<1>5. /\ Len(q) = n /\ DOMAIN q = 1..n /\ n \in 1..n
      /\ \A i \in 1..n : q[i] \in PageRecord
      /\ \A i \in 1..(n - 1) : q[i].processed
  BY <1>1, <1>3, <1>4, DoneFacts
<1>6. PICK page \in PageRecord : page = q[n]
  BY <1>5
<1>7. /\ source[page.cursor] \in Answers(DOMAIN source) /\ page.cursor \in DOMAIN source
      /\ page.next \in DOMAIN source /\ page.complete \in BOOLEAN
  BY <1>1, <1>6, JiraAssumption DEF JiraTypes, PageRecord
<1>8. PICK had \in Nat, most \in Nat, d \in Nat :
        had = issues.rows /\ most = MaxIssues /\ had < most /\ d = source[page.cursor].rows
  BY <1>1, <1>2, <1>7, JiraAssumption DEF JiraTypes, OnwardInv, Answers
<1>9. PICK taken : taken = NormalizePage(page).rows
  OBVIOUS
<1>10. PICK cut : cut = NormalizePage(page).cut
  OBVIOUS
<1>11. taken = (IF d > most - had THEN most - had ELSE d) /\ cut = (d > most - had)
  BY <1>8, <1>9, <1>10 DEF NormalizePage
<1>12. cut \in BOOLEAN
  BY <1>8, <1>11, SMT
<1>13. cut <=> d > most - had
  BY <1>11, Zenon
<1>14. taken \in Nat /\ had + taken \in 0..most /\ (cut => had + taken = most) /\ (~cut => taken = d)
  <2>1. CASE d > most - had
    <3>1. taken = most - had /\ cut
      BY <1>11, <1>13, <2>1
    <3> QED BY <1>8, <3>1
  <2>2. CASE ~(d > most - had)
    <3>1. taken = d /\ ~cut
      BY <1>11, <1>13, <2>2
    <3> QED BY <1>8, <2>2, <3>1
  <2> QED BY <2>1, <2>2
<1>15. PICK exhausted : exhausted = (issues.exhausted \/ NormalizePage(page).cut)
  OBVIOUS
<1>16. PICK complete : complete = (page.complete /\ ~exhausted)
  OBVIOUS
<1>17. PICK full : full = (issues.rows + taken >= MaxIssues)
  OBVIOUS
<1>18. exhausted \in BOOLEAN /\ complete \in BOOLEAN
  BY <1>15, <1>16, SMT
<1>19. exhausted <=> issues.exhausted \/ cut
  BY <1>10, <1>15, Zenon
<1>20. complete <=> page.complete /\ ~exhausted
  BY <1>16, Zenon
<1>21. full <=> issues.rows + taken >= MaxIssues
  BY <1>17, Zenon
<1>22. PICK stop : stop = CASE complete -> "end_of_source"
                     [] ~complete /\ full -> "issue_budget_exhausted"
                     [] ~complete /\ ~full /\ page.next = 0 -> "continuation_unavailable"
                     [] ~complete /\ ~full /\ page.next # 0 /\ granted = 1 -> "page_budget_reached"
                     [] OTHER -> "none"
  OBVIOUS
<1>23. PICK status : status = CASE complete -> "collected" [] ~complete /\ stop # "none" -> "partial"
                             [] OTHER -> "collecting"
  OBVIOUS
<1>24. /\ stop \in JiraStop /\ status \in {"collected", "partial", "collecting"}
       /\ (status = "collected") <=> complete
       /\ stop = "none" => ~complete /\ ~full /\ granted # 1
  <2>1. CASE complete
    <3>1. stop = "end_of_source"
      BY <1>22, <2>1
    <3>2. status = "collected"
      BY <1>23, <2>1
    <3> QED BY <2>1, <3>1, <3>2 DEF JiraStop
  <2>2. CASE ~complete
    <3>1. stop \in Bounds \cup {"none"}
      BY <1>22, <2>2 DEF Bounds
    <3>2. stop = "none" => ~full /\ granted # 1
      BY <1>22, <2>2
    <3>3. status = IF stop # "none" THEN "partial" ELSE "collecting"
      BY <1>23, <2>2
    <3> QED BY <2>2, <3>1, <3>2, <3>3 DEF JiraStop
  <2> QED BY <2>1, <2>2
<1>25. /\ issues' = [status |-> status, stop |-> stop,
                     pages |-> [Pages EXCEPT ![n] = [page EXCEPT !.processed = TRUE, !.rows = taken]],
                     normalized |-> issues.normalized \o [i \in 1..taken |-> <<page.cursor, i>>],
                     rows |-> issues.rows + taken, cursor |-> page.next, complete |-> complete,
                     exhausted |-> exhausted]
       /\ calling' = (stop = "none") /\ granted' = IF stop = "none" THEN granted - 1 ELSE 0
  <2>1. page = Pages[Len(Pages)] /\ n = Len(Pages)
    BY <1>3, <1>4, <1>6
  <2> QED BY <2>1, <1>9, <1>15, <1>16, <1>17, <1>22, <1>23 DEF Normalize
<1> DEFINE extra == [i \in 1..taken |-> <<page.cursor, i>>]
<1>26. PICK x : x = [page EXCEPT !.processed = TRUE, !.rows = taken]
  OBVIOUS
<1>27. /\ x.cursor = page.cursor /\ x.next = page.next /\ x.complete = page.complete
       /\ x.processed /\ x.rows = taken /\ x \in PageRecord
  <2>1. taken \in 0..MaxIssues
    BY <1>8, <1>14
  <2>2. page \in [cursor : DOMAIN source, next : DOMAIN source, complete : BOOLEAN, processed : BOOLEAN,
                  rows : 0..MaxIssues]
    BY <1>6 DEF PageRecord
  <2>3. x = [cursor |-> page.cursor, next |-> page.next, complete |-> page.complete,
             processed |-> TRUE, rows |-> taken]
    BY <1>26, <2>2
  <2> QED BY <2>1, <2>2, <2>3 DEF PageRecord
<1>28. PICK p : p = [q EXCEPT ![n] = x]
  OBVIOUS
<1>29. /\ p \in Seq(PageRecord) /\ Len(p) = n /\ DOMAIN p = 1..n
       /\ p[n] = x /\ \A i \in 1..(n - 1) : p[i] = q[i]
  <2>1. x \in PageRecord /\ n \in 1..Len(q) /\ Len(q) = n
    BY <1>5, <1>27
  <2>2. p \in Seq(PageRecord)
    BY <1>28, <2>1, ExceptSeq
  <2>3. Len(p) = Len(q)
    BY <1>28, <2>1, ExceptSeq
  <2>4. \A j \in 1..n : p[j] = IF j = n THEN x ELSE q[j]
    BY <1>28, <2>1, ExceptSeq
  <2>5. DOMAIN p = 1..n
    BY <2>1, <2>2, <2>3, LenProperties
  <2> QED BY <2>1, <2>2, <2>3, <2>4, <2>5
<1>30. /\ issues \in [status : JiraStatus, stop : JiraStop, pages : Seq(PageRecord), cursor : DOMAIN source,
                   rows : 0..MaxIssues, complete : BOOLEAN, exhausted : BOOLEAN, normalized : Seq(IssueRow)]
       /\ issues.pages = q
  BY <1>1, <1>4 DEF JiraTypes, Pages
<1>31. /\ issues'.pages = p /\ issues'.normalized = issues.normalized \o extra
       /\ issues'.rows = had + taken /\ issues'.cursor = page.next /\ issues'.complete = complete
       /\ issues'.exhausted = exhausted /\ issues'.status = status /\ issues'.stop = stop
  BY <1>4, <1>8, <1>25, <1>26, <1>28, <1>27, <1>29, <1>30
<1>32. /\ Pages' = p /\ ~Pending' /\ Done' = n
  <2>1. Pages' = p
    BY <1>31 DEF Pages
  <2>2. ~Pending'
    BY <1>26, <1>28, <1>27, <1>29, <2>1 DEF Pending
  <2> QED BY <1>29, <2>1, <2>2 DEF Done
<1>33. issues.normalized \in Seq(IssueRow) /\ Len(issues.normalized) = had
  BY <1>1, <1>8 DEF JiraTypes, RowsInv
<1>34. extra \in Seq(IssueRow) /\ Len(extra) = taken /\ \A m \in 1..taken : extra[m] = <<page.cursor, m>>
  <2>1. \A m \in 1..taken : <<page.cursor, m>> \in IssueRow
    BY <1>7, <1>14 DEF IssueRow
  <2>2. extra \in [1..taken -> IssueRow]
    BY <2>1
  <2>3. extra \in Seq(IssueRow) /\ DOMAIN extra = 1..taken
    BY <1>14, <2>2, SeqDef
  <2> QED BY <1>14, <2>3, LenProperties
<1>35. PICK joined \in Seq(IssueRow) :
         /\ joined = issues.normalized \o extra /\ joined = issues'.normalized /\ Len(joined) = had + taken
         /\ \A i \in 1..(had + taken) : joined[i] = IF i <= had THEN issues.normalized[i] ELSE extra[i - had]
  <2> HIDE DEF extra
  <2>1. (issues.normalized \o extra) \in Seq(IssueRow)
    BY <1>33, <1>34, ConcatProperties
  <2>2. Len(issues.normalized \o extra) = had + taken
    BY <1>33, <1>34, ConcatProperties
  <2>3. \A i \in 1..(had + taken) :
           (issues.normalized \o extra)[i] = IF i <= had THEN issues.normalized[i] ELSE extra[i - had]
    BY <1>33, <1>34, ConcatProperties
  <2> QED BY <1>31, <2>1, <2>2, <2>3
<1>36. JiraTypes'
  <2>1. had + taken \in 0..MaxIssues /\ status \in JiraStatus
    BY <1>8, <1>14, <1>24 DEF JiraStatus
  <2>2. issues' \in [status : JiraStatus, stop : JiraStop, pages : Seq(PageRecord), cursor : DOMAIN source,
                   rows : 0..MaxIssues, complete : BOOLEAN, exhausted : BOOLEAN, normalized : Seq(IssueRow)]
    <3>1. issues' = [status |-> status, stop |-> stop, pages |-> p, cursor |-> page.next, rows |-> had + taken,
                     complete |-> complete, exhausted |-> exhausted, normalized |-> joined]
      BY <1>8, <1>25, <1>26, <1>28, <1>30, <1>35, <1>4
    <3> QED BY <3>1, <2>1, <1>7, <1>18, <1>24, <1>29
  <2>3. calling' \in BOOLEAN
    <3>1. calling' = (stop = "none")
      BY <1>25
    <3> QED BY <3>1, SMT
  <2>4. granted' \in 0..MaxPages
    <3>1. granted \in 0..MaxPages /\ granted > 0 /\ MaxPages \in Nat
      BY <1>1, <1>2, JiraAssumption DEF JiraTypes, OnwardInv
    <3>2. granted' = granted - 1 \/ granted' = 0
      BY <1>25
    <3> QED BY <3>1, <3>2
  <2>5. source' \in IssueSource /\ PageRecord' = PageRecord /\ IssueRow' = IssueRow
    BY <1>1, <1>2 DEF JiraTypes, PageRecord, IssueRow
  <2> QED BY <2>2, <2>3, <2>4, <2>5, <1>2 DEF JiraTypes
<1>37. ChainInv'
  <2>1. \A i \in 1..n :
           /\ q[i].next = source[q[i].cursor].next /\ q[i].complete = source[q[i].cursor].complete
           /\ q[i].cursor = IF i = 1 THEN 0 ELSE q[i - 1].next
           /\ \A k \in 1..(i - 1) : q[k].cursor # q[i].cursor /\ q[k].processed /\ ~q[k].complete
           /\ q[i].processed /\ ~issues.exhausted => q[i].rows = source[q[i].cursor].rows
    BY <1>1, <1>4, <1>5 DEF ChainInv
  <2>2. \A i \in 1..n : p[i].next = q[i].next /\ p[i].complete = q[i].complete /\ p[i].cursor = q[i].cursor
    <3>1. ASSUME NEW i \in 1..n PROVE p[i].next = q[i].next /\ p[i].complete = q[i].complete /\ p[i].cursor = q[i].cursor
      <4>1. CASE i = n
        BY <1>6, <1>26, <1>28, <1>27, <1>29, <4>1
      <4>2. CASE i # n
        <5>1. i \in 1..(n - 1)
          BY <4>2
        <5> QED BY <1>29, <5>1
      <4> QED BY <4>1, <4>2
    <3> QED BY <3>1
  <2>3. ASSUME NEW i \in 1..n
        PROVE  /\ p[i].next = source[p[i].cursor].next /\ p[i].complete = source[p[i].cursor].complete
               /\ p[i].cursor = IF i = 1 THEN 0 ELSE p[i - 1].next
               /\ \A k \in 1..(i - 1) : p[k].cursor # p[i].cursor /\ p[k].processed /\ ~p[k].complete
               /\ p[i].processed /\ ~exhausted => p[i].rows = source[p[i].cursor].rows
    <3>1. p[i].next = source[p[i].cursor].next /\ p[i].complete = source[p[i].cursor].complete
      BY <2>1, <2>2
    <3>2. p[i].cursor = IF i = 1 THEN 0 ELSE p[i - 1].next
      <4>1. i # 1 => i - 1 \in 1..n
        OBVIOUS
      <4>2. q[i].cursor = IF i = 1 THEN 0 ELSE q[i - 1].next
        BY <2>1
      <4>3. p[i].cursor = q[i].cursor /\ (i # 1 => p[i - 1].next = q[i - 1].next)
        BY <2>2, <4>1
      <4> QED BY <4>2, <4>3
    <3>3. ASSUME NEW k \in 1..(i - 1) PROVE p[k].cursor # p[i].cursor /\ p[k].processed /\ ~p[k].complete
      <4>1. k \in 1..n /\ k \in 1..(n - 1)
        OBVIOUS
      <4>2. q[k].cursor # q[i].cursor /\ q[k].processed /\ ~q[k].complete
        BY <2>1
      <4> QED BY <1>29, <2>2, <4>1, <4>2
    <3>4. ASSUME p[i].processed, ~exhausted PROVE p[i].rows = source[p[i].cursor].rows
      <4>1. ~issues.exhausted /\ ~cut
        BY <1>19, <3>4
      <4>2. CASE i = n
        <5>1. p[i] = x /\ x.rows = taken /\ x.cursor = page.cursor
          BY <1>26, <1>28, <1>27, <1>29, <4>2
        <5>2. taken = source[page.cursor].rows
          BY <1>8, <1>14, <4>1
        <5> QED BY <5>1, <5>2
      <4>3. CASE i # n
        <5>1. i \in 1..(n - 1)
          BY <4>3
        <5>2. p[i] = q[i]
          BY <1>29, <5>1
        <5>3. q[i].rows = source[q[i].cursor].rows
          BY <2>1, <3>4, <4>1, <5>2
        <5> QED BY <5>2, <5>3
      <4> QED BY <4>2, <4>3
    <3> QED BY <3>1, <3>2, <3>3, <3>4
  <2> QED BY <1>2, <1>29, <1>31, <1>32, <2>3 DEF ChainInv
<1>38. PICK t \in [0..(n - 1) -> 0..MaxIssues] : Takes(t)
  BY <1>1, <1>3 DEF RowsInv
<1>39. /\ t[0] = 0 /\ t[n - 1] = had
       /\ \A i \in 1..(n - 1) : t[i] = t[i - 1] + q[i].rows
       /\ \A k \in 1..(n - 1) : \A m \in 1..q[k].rows : issues.normalized[t[k - 1] + m] = <<q[k].cursor, m>>
       /\ \A i \in 0..(n - 1) : t[i] \in 0..MaxIssues /\ t[i] <= had
  BY <1>3, <1>4, <1>8, <1>38 DEF Takes
<1>40. PICK u : u = [i \in 0..n |-> IF i = n THEN had + taken ELSE t[i]]
  OBVIOUS
<1>41. /\ u \in [0..n -> 0..MaxIssues] /\ u[n] = had + taken
       /\ \A i \in 0..(n - 1) : u[i] = t[i]
  <2>1. had + taken \in 0..MaxIssues
    BY <1>8, <1>14
  <2>2. ASSUME NEW i \in 0..n, i # n PROVE i \in 0..(n - 1)
    BY <2>2
  <2>3. \A i \in 0..(n - 1) : i \in 0..n /\ i # n
    OBVIOUS
  <2> QED BY <1>39, <1>40, <2>1, <2>2, <2>3
<1>42. Takes(u)'
  <2>1. u[0] = 0
    BY <1>39, <1>41
  <2>2. ASSUME NEW i \in 1..n PROVE u[i] = u[i - 1] + p[i].rows
    <3>1. i - 1 \in 0..(n - 1)
      OBVIOUS
    <3>2. CASE i = n
      BY <1>27, <1>29, <1>39, <1>41, <3>1, <3>2
    <3>3. CASE i # n
      <4>1. i \in 1..(n - 1) /\ i \in 0..(n - 1)
        BY <3>3
      <4>2. p[i] = q[i] /\ u[i] = t[i] /\ u[i - 1] = t[i - 1]
        BY <1>29, <1>41, <3>1, <4>1
      <4> QED BY <1>39, <4>1, <4>2
    <3> QED BY <3>2, <3>3
  <2>3. ASSUME NEW k \in 1..n, NEW m \in 1..p[k].rows
        PROVE  issues'.normalized[u[k - 1] + m] = <<p[k].cursor, m>>
    <3>1. PICK b \in Nat : b = u[k - 1] /\ b = t[k - 1]
      <4>1. k - 1 \in 0..(n - 1)
        OBVIOUS
      <4>2. t[k - 1] \in 0..MaxIssues
        BY <1>39, <4>1
      <4>3. 0..MaxIssues \subseteq Nat
        BY <1>8
      <4> QED BY <1>41, <4>1, <4>2, <4>3
    <3>2. CASE k = n
      <4>1. b = had /\ p[k].rows = taken /\ p[k].cursor = page.cursor
        BY <1>27, <1>29, <1>39, <3>1, <3>2
      <4>2. m \in 1..taken
        BY <4>1
      <4>3. had + m \in 1..(had + taken) /\ ~(had + m <= had) /\ (had + m) - had = m
        <5>1. PICK a \in Nat : a = m /\ 1 <= a /\ a <= taken
          BY <1>14, <4>2
        <5>2. had + a \in 1..(had + taken) /\ ~(had + a <= had) /\ (had + a) - had = a
          <6>1. PICK w \in Nat : w = taken /\ a <= w
            BY <1>14, <5>1
          <6>2. had + a \in 1..(had + w) /\ ~(had + a <= had) /\ (had + a) - had = a
            BY <5>1, <6>1
          <6> QED BY <6>1, <6>2
        <5>3. had + m = had + a
          BY <5>1
        <5> QED BY <5>1, <5>2, <5>3
      <4>4. joined[had + m] = extra[m]
        BY <1>35, <4>3
      <4> QED BY <1>34, <1>35, <3>1, <4>1, <4>2, <4>4
    <3>3. CASE k # n
      <4>1. k \in 1..(n - 1)
        BY <3>3
      <4>2. p[k] = q[k] /\ q[k].rows \in Nat /\ t[k] = b + q[k].rows
        <5>1. p[k] = q[k] /\ q[k] \in PageRecord
          BY <1>5, <1>29, <4>1
        <5>2. 0..MaxIssues \subseteq Nat
          BY <1>8
        <5> QED BY <1>39, <3>1, <4>1, <5>1, <5>2 DEF PageRecord
      <4>3. t[k] <= had
        <5>1. k \in 0..(n - 1)
          BY <4>1
        <5> QED BY <1>39, <5>1
      <4>4. b + m \in 1..(had + taken) /\ b + m <= had
        <5>1. PICK r \in Nat : r = q[k].rows /\ m \in 1..r
          BY <4>2
        <5>2. b + r <= had
          BY <4>2, <4>3, <5>1
        <5>3. PICK a \in Nat : a = m /\ 1 <= a /\ a <= r
          BY <5>1
        <5>4. b + a \in 1..(had + taken) /\ b + a <= had
          <6>1. PICK w \in Nat : w = taken
            BY <1>14
          <6>2. b + a \in 1..(had + w) /\ b + a <= had
            BY <5>2, <5>3, <6>1
          <6> QED BY <6>1, <6>2
        <5> QED BY <5>3, <5>4
      <4>5. issues'.normalized[b + m] = issues.normalized[b + m]
        BY <1>35, <4>4
      <4>6. issues.normalized[b + m] = <<q[k].cursor, m>>
        BY <1>39, <3>1, <4>1, <4>2
      <4> QED BY <3>1, <4>2, <4>5, <4>6
    <3> QED BY <3>2, <3>3
  <2>4. ASSUME NEW i \in 0..n PROVE u[i] <= had + taken
    <3>1. CASE i = n
      BY <1>8, <1>14, <1>41, <3>1
    <3>2. CASE i # n
      <4>1. i \in 0..(n - 1)
        BY <3>2
      <4>2. PICK b \in Nat : b = t[i] /\ b <= had
        BY <1>8, <1>39, <4>1
      <4> QED BY <1>8, <1>14, <1>41, <4>1, <4>2
    <3> QED BY <3>1, <3>2
  <2> QED BY <1>31, <1>32, <1>41, <2>1, <2>2, <2>3, <2>4 DEF Takes
<1>43. RowsInv'
  <2>1. Len(issues'.normalized) = issues'.rows
    BY <1>31, <1>35
  <2>2. u \in [0..Done' -> 0..MaxIssues]
    BY <1>32, <1>41
  <2> QED BY <1>42, <2>1, <2>2 DEF RowsInv
<1>44. OnwardInv'
  <2>1. issues'.cursor = IF n = 0 THEN 0 ELSE p[n].next
    BY <1>31, <1>27, <1>29
  <2>2. exhausted => had + taken = most
    BY <1>2, <1>8, <1>14, <1>19
  <2>3. complete => n # 0 /\ p[n].complete /\ ~exhausted
    BY <1>6, <1>20, <1>27, <1>29
  <2>4. status # "none" /\ (status = "collected" <=> complete)
    BY <1>24
  <2>5. Len(p) <= MaxPages /\ Len(p) = n
    BY <1>2, <1>3, <1>29
  <2>6. CASE stop = "none"
    <3>1. calling' /\ granted' = granted - 1 /\ ~complete /\ ~full /\ granted # 1
      BY <1>24, <1>25, <2>6
    <3>2. granted \in Nat /\ granted > 0 /\ granted = MaxPages - (n - 1) /\ MaxPages \in Nat
      BY <1>1, <1>2, <1>3, JiraAssumption DEF JiraTypes, OnwardInv
    <3>3. granted' > 0 /\ granted' = MaxPages - n
      BY <3>1, <3>2
    <3>4. had + taken < most
      BY <1>8, <1>14, <1>21, <3>1
    <3>5. ~exhausted
      BY <2>2, <3>4, <1>8, <1>14
    <3>6. ~p[n].complete
      BY <1>6, <1>20, <1>27, <1>29, <3>1, <3>5
    <3> QED BY <1>8, <1>31, <1>32, <2>1, <2>2, <2>3, <2>4, <2>5, <3>1, <3>3, <3>4, <3>6 DEF OnwardInv
  <2>7. CASE stop # "none"
    <3>1. calling' <=> stop = "none"
      BY <1>25, Zenon
    <3>2. ~calling' /\ granted' = 0 /\ ~(granted' > 0)
      BY <1>25, <2>7, <3>1
    <3>3. calling' <=> granted' > 0
      BY <3>2
    <3>4. calling' => /\ ~issues'.complete /\ issues'.status # "none" /\ issues'.rows < MaxIssues
                      /\ granted' = MaxPages - n
                      /\ n # 0 => ~p[n].complete
      BY <3>2
    <3> QED BY <1>8, <1>31, <1>32, <2>1, <2>2, <2>3, <2>4, <2>5, <3>3, <3>4 DEF OnwardInv
  <2> QED BY <2>6, <2>7
<1> QED BY <1>36, <1>37, <1>43, <1>44 DEF JiraInv

LEMMA JiraSteps == JiraInv /\ [JiraNext]_jiraVars => JiraInv'
<1> SUFFICES ASSUME JiraInv, [JiraNext]_jiraVars PROVE JiraInv'
  OBVIOUS
<1>1. CASE UNCHANGED jiraVars
  <2>1. source' = source /\ issues' = issues /\ calling' = calling /\ granted' = granted
    BY <1>1 DEF jiraVars
  <2>2. JiraTypes' /\ OnwardInv'
    BY <2>1 DEF JiraInv, JiraTypes, OnwardInv, PageRecord, IssueRow, Done, Pending, Pages
  <2>3. ChainInv' /\ RowsInv'
    BY <2>1, PagesKept DEF JiraInv
  <2> QED BY <2>2, <2>3 DEF JiraInv
<1>2. CASE JiraNext
  BY <1>2, CollectLiveInv, ResumeLiveInv, PreserveInv, RepeatedCursorInv, NormalizeInv, JiraFailsInv DEF JiraNext
<1> QED BY <1>1, <1>2

\* What a call leaves can be loaded, whatever it stopped at.
LEMMA JiraFollows == JiraInv => CheckpointsLoad /\ JiraTypeOK
<1> SUFFICES ASSUME JiraInv PROVE CheckpointsLoad /\ JiraTypeOK
  OBVIOUS
<1>1. JiraTypes /\ ChainInv /\ RowsInv /\ OnwardInv
  BY DEF JiraInv
<1>2. PICK n \in Nat, done \in Seq(PageRecord) :
         /\ n = Done /\ done = Processed(Pages) /\ Len(done) = n /\ DOMAIN done = 1..n
         /\ \A i \in 1..n : done[i] = Pages[i] /\ i \in DOMAIN Pages
         /\ done = <<>> <=> n = 0
  BY <1>1, DoneFacts, ProcessedFacts
<1>3. PICK t \in [0..n -> 0..MaxIssues] : Takes(t)
  BY <1>1, <1>2 DEF RowsInv
<1>4. /\ t[0] = 0 /\ \A i \in 1..n : t[i] = t[i - 1] + Pages[i].rows
      /\ t[n] = issues.rows
      /\ \A k \in 1..n : \A m \in 1..Pages[k].rows : issues.normalized[t[k - 1] + m] = <<Pages[k].cursor, m>>
  BY <1>2, <1>3 DEF Takes
<1>5. t \in RunningTotals(done)
  BY <1>2, <1>3, <1>4 DEF RunningTotals
<1>6. Loads(issues)
  <2>1. \A i \in DOMAIN Pages :
              /\ Pages[i].cursor = IF i = 1 THEN 0 ELSE Pages[i - 1].next
              /\ \A k \in 1..(i - 1) : /\ Pages[k].cursor # Pages[i].cursor
                                       /\ Pages[k].processed /\ ~Pages[k].complete
    BY <1>1 DEF ChainInv
  <2>2. \E s \in RunningTotals(done) : issues.rows = s[Len(done)] /\ Len(issues.normalized) = issues.rows
    BY <1>1, <1>2, <1>4, <1>5 DEF RowsInv
  <2>3. issues.cursor = IF done = <<>> THEN 0 ELSE done[Len(done)].next
    BY <1>1, <1>2 DEF OnwardInv
  <2>4. issues.complete => done # <<>> /\ done[Len(done)].complete /\ ~issues.exhausted
    BY <1>1, <1>2 DEF OnwardInv
  <2>5. issues.status = "collected" <=> issues.complete
    BY <1>1 DEF OnwardInv
  <2>6. issues.pages = Pages
    BY DEF Pages
  <2> QED BY <1>2, <2>1, <2>2, <2>3, <2>4, <2>5, <2>6 DEF Loads
<1>7. \E s \in RunningTotals(Processed(Pages)) :
          \A k \in DOMAIN Processed(Pages) : \A m \in 1..Pages[k].rows :
             issues.normalized[s[k - 1] + m] = <<Pages[k].cursor, m>>
  BY <1>2, <1>4, <1>5
<1>8. ASSUME issues.complete
      PROVE  /\ \A i \in DOMAIN Pages : Pages[i].rows = source[Pages[i].cursor].rows
             /\ source[Pages[Len(Pages)].cursor].complete
  <2>1. n = Len(Pages) /\ n # 0 /\ Pages[n].complete /\ ~issues.exhausted
    BY <1>1, <1>2, <1>8 DEF OnwardInv
  <2>2. DOMAIN Pages = 1..n /\ \A i \in 1..n : Pages[i].processed
    BY <1>1, <1>2, <2>1, DoneFacts
  <2>3. n \in DOMAIN Pages
    BY <1>2, <2>1
  <2> QED BY <1>1, <2>1, <2>2, <2>3 DEF ChainInv
<1>9. CheckpointsLoad
  BY <1>1, <1>6, <1>7, <1>8 DEF CheckpointsLoad, OnwardInv
<1>10. JiraTypeOK
  BY <1>1 DEF JiraTypes, JiraStatus, JiraTypeOK, OnwardInv
<1> QED BY <1>9, <1>10

\* Collecting goes on where it stopped (collect.go, acquire.go): nothing of a mailbox is passed
\* over, and what a call for Jira leaves, wherever it stops and whatever the provider answers,
\* can be loaded, holds every row it counts once and in order, and is complete only when whole.
THEOREM CollectionsGoOn == OperationsSpec => []CollectionsResume
<1>1. OperationsInit => MailInv /\ JiraInv
  BY MailStarts, JiraStarts DEF OperationsInit
<1>2. MailInv /\ JiraInv /\ [OperationsNext]_operationsVars => MailInv' /\ JiraInv'
  <2> SUFFICES ASSUME MailInv, JiraInv, [OperationsNext]_operationsVars PROVE MailInv' /\ JiraInv'
    OBVIOUS
  <2>1. [MailboxNext]_mailboxVars
    BY DEF OperationsNext, operationsVars
  <2>2. [JiraNext]_jiraVars
    BY DEF OperationsNext, operationsVars
  <2> QED BY <2>1, <2>2, MailSteps, JiraSteps
<1>3. MailInv /\ JiraInv => CollectionsResume
  BY MailFollows, JiraFollows DEF CollectionsResume
<1> QED BY <1>1, <1>2, <1>3, PTL DEF OperationsSpec

\* What is proved of the updates, the schedules and the mailbox by themselves holds in the
\* run that has all the components: there each of them only takes its own steps.
THEOREM ComponentsRunAlone == OperationsSpec => UpdateSpec /\ ScheduleSpec /\ MailboxSpec
<1>1. OperationsInit => UpdateInit /\ ScheduleInit /\ MailboxInit
  BY DEF OperationsInit
<1>2. [OperationsNext]_operationsVars => [UpdateNext]_updateVars
  BY DEF OperationsNext, operationsVars
<1>3. [OperationsNext]_operationsVars => [ScheduleNext]_scheduleVars
  BY DEF OperationsNext, operationsVars
<1>4. [OperationsNext]_operationsVars => [MailboxNext]_mailboxVars
  BY DEF OperationsNext, operationsVars
<1> QED BY <1>1, <1>2, <1>3, <1>4, PTL DEF OperationsSpec, UpdateSpec, ScheduleSpec, MailboxSpec

\* The state of every component stays well typed.
THEOREM OperationsTypeCorrect == OperationsSpec => []OperationsTypeOK
<1> DEFINE AllHold == RetentionInv /\ MailInv /\ JiraInv /\ BackupInv
<1>1. OperationsInit => AllHold
  BY RetentionStarts, MailStarts, JiraStarts, BackupStarts DEF OperationsInit
<1>2. AllHold /\ [OperationsNext]_operationsVars => AllHold'
  <2> SUFFICES ASSUME AllHold, [OperationsNext]_operationsVars PROVE AllHold'
    OBVIOUS
  <2>1. [RetentionNext]_retentionVars /\ [MailboxNext]_mailboxVars
    BY DEF OperationsNext, operationsVars
  <2>2. [JiraNext]_jiraVars /\ [BackupNext]_archiveVars
    BY DEF OperationsNext, operationsVars
  <2> QED BY <2>1, <2>2, RetentionStep, MailSteps, JiraSteps, BackupStep
<1>3. ASSUME AllHold PROVE RetentionTypeOK /\ MailboxTypeOK /\ JiraTypeOK /\ BackupTypeOK
  <2>1. RetentionTypeOK
    BY <1>3 DEF RetentionInv, RetentionTypes, RetentionTypeOK, JobStatus
  <2>2. MailboxTypeOK
    <3>1. reading \in 0..MailBound
      BY <1>3, MailAssumption DEF MailInv, MailTypes, MailId
    <3>2. ASSUME NEW a \in MailId
          PROVE  /\ mail[a].status \in {"none", "collecting", "stopped", "collected", "partial"}
                 /\ mail[a].snapshot <=> mail[a].status \in {"collected", "partial"}
      <4>1. mail[a] \in MailRecord /\ PageHeld(mail[a])
        BY <1>3 DEF MailInv, MailTypes
      <4> QED BY <4>1 DEF MailRecord, MailStatus, PageHeld
    <3> QED BY <3>1, <3>2 DEF MailboxTypeOK
  <2>3. JiraTypeOK
    BY <1>3, JiraFollows
  <2>4. BackupTypeOK
    BY <1>3 DEF BackupInv, BackupTypes, BackupTypeOK, Image, Copied
  <2> QED BY <2>1, <2>2, <2>3, <2>4
<1>4. OperationsSpec => [](RetentionTypeOK /\ MailboxTypeOK /\ JiraTypeOK /\ BackupTypeOK)
  <2> HIDE DEF AllHold
  <2> QED BY <1>1, <1>2, <1>3, PTL DEF OperationsSpec
<1>5. OperationsSpec => []UpdateTypeOK /\ []ScheduleTypeOK
  BY ComponentsRunAlone, UpdateTypeCorrect, ScheduleTypeCorrect, PTL
<1> QED BY <1>4, <1>5, PTL DEF OperationsTypeOK
=============================================================================
