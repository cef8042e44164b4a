----------------------------- MODULE RecoveryJobs -----------------------------
(***************************************************************************)
(* Backup exports together with restores (internal/api/restores.go,        *)
(* controllerrestore): uploads of portable backups, previews of them, the  *)
(* confirmation that turns a preview into a durable restore intent, and    *)
(* what a new process makes of the files an old one left behind.  Exports, *)
(* previews and the confirmation share the password-hash slots.            *)
(*                                                                         *)
(* The bytes of an upload are "sent", what the owner uploaded, or "other": *)
(* another backup written over the file.  A digest check passes only on    *)
(* "sent"; what Inspect and Prepare read is what is on disk at that time.  *)
(***************************************************************************)
EXTENDS BackupJobs

CONSTANTS
    Uploads,        \* identifiers of uploads
    Previews,       \* identifiers of previews
    RestoreLimit    \* restoreHistoryLimit

ASSUME RecoveryAssumption ==
    /\ RestoreLimit \in Nat \ {0}
    /\ Nobody \notin Uploads \cup Previews

VARIABLES
    uploads,    \* restoreManager.uploadOrder: the uploads known, oldest first
    expired,    \* the known uploads whose retention has passed
    sending,    \* the step of the request that receives each upload
    altered,    \* the uploads whose file holds other bytes now
    previews,   \* restoreManager.previewOrder
    preview,    \* restoreManager.previews
    running,    \* restoreManager.active
    inspector,  \* the step of each preview's goroutine
    confirming, \* restoreManager.confirming
    confirm,    \* the confirmation: its step and the bytes Prepare read
    intent,     \* the durable restore intent: the bytes prepared and the bytes shown
    admission   \* FALSE once CloseAdmission has run

restoreVars == <<uploads, expired, sending, altered, previews, preview, running, inspector,
                 confirming, confirm, intent, admission>>
jobsVars == <<shared, backupVars, restoreVars>>

NoPreview == [st |-> "none", of |-> Nobody, exp |-> FALSE, asked |-> FALSE, stop |-> FALSE, shown |-> "sent"]
NoConfirm == [at |-> "no", read |-> "sent"]
NoIntent == [made |-> FALSE, read |-> "sent", shown |-> "sent"]

Bytes(u) == IF u \in altered THEN "other" ELSE "sent"

UploadFile(u) == <<"upload", u>>
UploadTemp(u) == <<"upTemp", u>>
Extracted(p) == <<"extract", p>>
Scratch(p) == {Extracted(p), <<"scratch", p>>}
Work(p) == {"prepExtract", "work", "pair"} \X {p}

(* verifyUploadHash and checkedUploadPath. *)
Verified(u) == UploadFile(u) \in disk /\ u \notin altered

Sending == {u \in Uploads : sending[u] # "no"}
Slots == Cardinality(BackupSlots) + Cardinality({p \in Previews : inspector[p] # "no"})
         + (IF confirm.at = "no" THEN 0 ELSE 1)

-----------------------------------------------------------------------------
(* Retention: pruneLocked, which always ends by making room for one more. *)
ReferencedByActive(ps, u) == \E i \in DOMAIN ps : ps[i] = running /\ preview[ps[i]].of = u
Referenced(ps, u) == \E i \in DOMAIN ps : preview[ps[i]].of = u

PreviewRoom(ps, busy) == Without(ps, Oldest(ps, Previews \ busy, Len(ps) - RestoreLimit + 1))
UnexpiredPreviews(pv, busy) == Without(previews, {p \in Previews : pv[p].exp} \ busy)

LeftOver(left) == {u \in Uploads : UploadFile(u) \in left}

PrunedUploads(pv, out, busy, left) ==
    LET ps == UnexpiredPreviews(pv, busy)
        us == Without(uploads, {u \in out : ~Referenced(ps, u)} \ LeftOver(left))
    IN  Without(us, Oldest(us, {u \in Uploads : ~Referenced(PreviewRoom(ps, busy), u)} \ LeftOver(left),
                           Len(us) + Cardinality(Sending) - RestoreLimit + 1))

(* pruneLocked with the previews pv, the expired uploads out and the busy   *)
(* previews; the preview in `new` is added afterwards. An upload that could *)
(* not be removed stays listed; its file may be unlinked all the same, when *)
(* only the sync of the directory failed.                                   *)
PruneRestores(pv, out, busy, new) ==
    \E left \in Survivors({UploadFile(u) : u \in ToSet(uploads)}) : \E unlinked \in {{}, left} :
        LET us == PrunedUploads(pv, out, busy, left)
            ps == PreviewRoom(UnexpiredPreviews(pv, busy), busy)
            gone == ToSet(uploads) \ ToSet(us)
        IN  /\ LeftOver(left) \cap ToSet(PrunedUploads(pv, out, busy, {})) = {}
            /\ uploads' = us
            /\ expired' = out \ gone
            /\ altered' = altered \ gone
            /\ previews' = ps \o new
            /\ preview' = [p \in Previews |-> IF p \in ToSet(ps \o new) THEN pv[p] ELSE NoPreview]
            /\ disk' = disk \ ({UploadFile(u) : u \in gone} \cup unlinked)
            /\ stuck' = (stuck \cup left) \cap disk'
            /\ faults' = faults + Cardinality(left)

-----------------------------------------------------------------------------
RestoreInit ==
    /\ uploads = <<>> /\ expired = {} /\ altered = {}
    /\ sending = [u \in Uploads |-> "no"]
    /\ previews = <<>>
    /\ preview = [p \in Previews |-> NoPreview]
    /\ running = Nobody
    /\ inspector = [p \in Previews |-> "no"]
    /\ confirming = Nobody
    /\ confirm = NoConfirm
    /\ intent = NoIntent
    /\ admission = TRUE

JobsInit ==
    /\ up = "up" /\ closing = FALSE
    /\ disk = {} /\ stuck = {} /\ faults = 0 /\ requests = 0
    /\ BackupInit
    /\ RestoreInit

Serving == up = "up" /\ ~closing

(* The read handlers and the maintenance tick. *)
SweepRestores ==
    /\ Serving
    /\ PruneRestores(preview, expired, {running, confirming}, <<>>)
    /\ UNCHANGED <<up, closing, requests, backupVars, sending, running, inspector, confirming, confirm, intent, admission>>

(* receiveUpload, which counts the request before it writes anything. *)
BeginUpload(u) ==
    /\ Serving /\ Request
    /\ u \notin ToSet(uploads) /\ sending[u] = "no" /\ \A f \in disk : f[2] # u
    /\ PruneRestores(preview, expired, {running, confirming}, <<>>)
    /\ Len(uploads') + Cardinality(Sending) < RestoreLimit
    /\ sending' = [sending EXCEPT ![u] = "counted"]
    /\ UNCHANGED <<up, closing, backupVars, running, inspector, confirming, confirm, intent, admission>>

UploadSteps == [counted |-> "writing", writing |-> "linked", linked |-> "final"]
UploadFiles(u, step) ==
    CASE step = "writing" -> {UploadTemp(u)}
      [] step = "linked"  -> {UploadTemp(u), UploadFile(u)}
      [] step \in {"final", "listed"} -> {UploadFile(u)}
      [] OTHER -> {}

(* The temporary is written, linked to its final name, and removed. *)
AdvanceUpload(u) ==
    /\ Serving /\ sending[u] \in DOMAIN UploadSteps
    /\ sending' = [sending EXCEPT ![u] = UploadSteps[@]]
    /\ disk' = (disk \ UploadFiles(u, sending[u])) \cup UploadFiles(u, UploadSteps[sending[u]])
    /\ UNCHANGED <<up, closing, requests, stuck, faults, backupVars, uploads, expired, altered, previews, preview,
                   running, inspector, confirming, confirm, intent, admission>>

(* The digest is read back and the upload listed, unless the manager has closed. *)
ListUpload(u) ==
    /\ Serving /\ sending[u] = "final" /\ Verified(u)
    /\ sending' = [sending EXCEPT ![u] = "listed"]
    /\ uploads' = Append(uploads, u)
    /\ UNCHANGED <<shared, backupVars, expired, altered, previews, preview,
                   running, inspector, confirming, confirm, intent, admission>>

(* The request ends: with the upload listed, or by an error that removes what it wrote. *)
EndUpload(u) ==
    /\ up = "up" /\ sending[u] # "no"
    /\ sending' = [sending EXCEPT ![u] = "no"]
    /\ IF sending[u] = "listed" THEN UNCHANGED <<disk, stuck, faults, altered>>
       ELSE /\ \E left \in Survivors(UploadFiles(u, sending[u])) :
                  Removes(disk, UploadFiles(u, sending[u]), left)
            /\ altered' = altered \ {u}
    /\ UNCHANGED <<up, closing, requests, backupVars, uploads, expired, previews, preview,
                   running, inspector, confirming, confirm, intent, admission>>

(* Something else on the host writes over the upload, and may write it back. *)
Rewrite(u) ==
    /\ Serving /\ UploadFile(u) \in disk
    /\ IF u \in altered THEN faults' = faults /\ altered' = altered \ {u}
       ELSE faults < MaxFaults /\ faults' = faults + 1 /\ altered' = altered \cup {u}
    /\ UNCHANGED <<up, closing, requests, disk, stuck, backupVars, uploads, expired, sending, previews, preview,
                   running, inspector, confirming, confirm, intent, admission>>

-----------------------------------------------------------------------------
(* POST /restores/previews: a slot, a lease, then startPreview. *)
StartPreview(p, u) ==
    /\ Serving /\ admission /\ Slots < HashSlots /\ Request
    /\ running = Nobody /\ confirming = Nobody
    /\ p \notin ToSet(previews) /\ inspector[p] = "no" /\ \A f \in disk : f[2] # p
    /\ PruneRestores([preview EXCEPT ![p] = [NoPreview EXCEPT !.st = "running", !.of = u]], expired, {}, <<p>>)
    /\ u \in ToSet(uploads')
    /\ running' = p
    /\ inspector' = [inspector EXCEPT ![p] = "queued"]
    /\ UNCHANGED <<up, closing, backupVars, sending, confirming, confirm, intent, admission>>

(* runPreview: the digest, then Extract into a stage and a scratch copy of it. *)
InspectUpload(p) ==
    /\ up = "up" /\ inspector[p] = "queued" /\ ~preview[p].stop
    /\ Verified(preview[p].of)
    /\ inspector' = [inspector EXCEPT ![p] = "verified"]
    /\ UNCHANGED <<shared, backupVars, uploads, expired, sending, altered, previews, preview,
                   running, confirming, confirm, intent, admission>>

ExtractUpload(p) ==
    /\ up = "up" /\ inspector[p] = "verified" /\ ~preview[p].stop
    /\ UploadFile(preview[p].of) \in disk
    /\ inspector' = [inspector EXCEPT ![p] = "inspecting"]
    /\ disk' = disk \cup Scratch(p)
    /\ preview' = [preview EXCEPT ![p].shown = Bytes(preview[p].of)]
    /\ UNCHANGED <<up, closing, requests, stuck, faults, backupVars, uploads, expired, sending, altered, previews,
                   running, confirming, confirm, intent, admission>>

(* Inspect always clears its scratch; a directory that stays is an error. *)
ClearScratch(p) ==
    /\ up = "up" /\ inspector[p] = "inspecting"
    /\ \E left \in Survivors(Scratch(p)) :
          /\ Removes(disk, Scratch(p), left)
          /\ inspector' = [inspector EXCEPT ![p] = IF left = {} THEN "inspected" ELSE "failed"]
    /\ UNCHANGED <<up, closing, requests, backupVars, uploads, expired, sending, altered, previews, preview,
                   running, confirming, confirm, intent, admission>>

(* finishPreview: the outcome; a completed preview keeps its upload as long as itself. *)
FinishAs(p, st) ==
    /\ running' = Nobody
    /\ inspector' = [inspector EXCEPT ![p] = "leaving"]
    /\ PruneRestores([preview EXCEPT ![p].st = st],
                     IF st = "completed" THEN expired \ {preview[p].of} ELSE expired, {confirming}, <<>>)
    /\ UNCHANGED <<up, closing, requests, backupVars, sending, confirming, confirm, intent, admission>>

(* The digest once more, then the context, before finishPreview takes the lock. *)
CheckPreview(p) ==
    /\ up = "up" /\ inspector[p] = "inspected"
    /\ Verified(preview[p].of) /\ ~preview[p].stop
    /\ inspector' = [inspector EXCEPT ![p] = "checked"]
    /\ UNCHANGED <<shared, backupVars, uploads, expired, sending, altered, previews, preview,
                   running, confirming, confirm, intent, admission>>

(* A cancellation accepted since the check still decides the outcome. *)
CompletePreview(p) ==
    /\ up = "up" /\ inspector[p] = "checked"
    /\ FinishAs(p, IF preview[p].asked THEN "cancelled" ELSE "completed")

FailPreview(p) ==
    /\ up = "up" /\ inspector[p] \in {"queued", "verified", "inspected", "failed"}
    /\ FinishAs(p, IF preview[p].asked THEN "cancelled" ELSE "failed")

(* complete(): the lease and the slot are returned after the outcome is recorded. *)
LeavePreview(p) ==
    /\ up = "up" /\ inspector[p] = "leaving"
    /\ inspector' = [inspector EXCEPT ![p] = "no"]
    /\ UNCHANGED <<shared, backupVars, uploads, expired, sending, altered, previews, preview,
                   running, confirming, confirm, intent, admission>>

CancelPreview(p) ==
    /\ up = "up" /\ preview[p].st = "running" /\ ~preview[p].asked
    /\ preview' = [preview EXCEPT ![p].asked = TRUE, ![p].stop = TRUE]
    /\ UNCHANGED <<shared, backupVars, uploads, expired, sending, altered, previews,
                   running, inspector, confirming, confirm, intent, admission>>

(* Fifteen minutes pass: what has ended by now expires, and so does every   *)
(* upload, whose expiry a completed preview moves to its own.               *)
RetentionPasses ==
    /\ Serving
    /\ job' = Aged
    /\ preview' = [p \in Previews |-> [preview[p] EXCEPT !.exp = @ \/ preview[p].st \in Terminal]]
    /\ expired' = ToSet(uploads)
    /\ UNCHANGED <<shared, order, active, worker, uploads, sending, altered, previews,
                   running, inspector, confirming, confirm, intent, admission>>

-----------------------------------------------------------------------------
(* POST /restores/previews/{id}/confirm: beginConfirmation, the plan the   *)
(* owner read, a slot and a lease.                                         *)
BeginConfirm(p) ==
    /\ Serving /\ admission /\ Slots < HashSlots /\ Request
    /\ running = Nobody /\ confirming = Nobody /\ confirm.at = "no"
    /\ PruneRestores(preview, expired, {running, confirming}, <<>>)
    /\ preview'[p].st = "completed" /\ preview[p].of \in ToSet(uploads')
    /\ confirming' = p
    /\ confirm' = [NoConfirm EXCEPT !.at = "begun"]
    /\ UNCHANGED <<up, closing, backupVars, sending, running, inspector, intent, admission>>

VerifyConfirm ==
    /\ Serving /\ confirm.at = "begun" /\ Verified(preview[confirming].of)
    /\ confirm' = [confirm EXCEPT !.at = "verified"]
    /\ UNCHANGED <<shared, backupVars, uploads, expired, sending, altered, previews, preview,
                   running, inspector, confirming, intent, admission>>

(* Prepare reads the upload, and leaves the pair once its own work is cleared. *)
PrepareConfirm ==
    /\ Serving /\ confirm.at = "verified" /\ UploadFile(preview[confirming].of) \in disk
    /\ confirm' = [at |-> "preparing", read |-> Bytes(preview[confirming].of)]
    /\ disk' = disk \cup Work(confirming)
    /\ UNCHANGED <<up, closing, requests, stuck, faults, backupVars, uploads, expired, sending, altered, previews, preview,
                   running, inspector, confirming, intent, admission>>

Prepared ==
    /\ Serving /\ confirm.at = "preparing"
    /\ confirm' = [confirm EXCEPT !.at = "prepared"]
    /\ disk' = disk \ (Work(confirming) \ {<<"pair", confirming>>})
    /\ UNCHANGED <<up, closing, requests, stuck, faults, backupVars, uploads, expired, sending, altered, previews, preview,
                   running, inspector, confirming, intent, admission>>

(* restorePlanID: the digest of the upload and the manifest of what was read. *)
SamePlanUnread(p) == TRUE
SamePlan(p) == confirm.read = preview[p].shown

(* The upload is verified once more, the prepared plan must be the one that *)
(* was shown, and nothing else may run; then the intent is durable.  When   *)
(* the intent cannot be finalised it stays, and admission stays open.       *)
MakeIntent ==
    /\ Serving /\ confirm.at = "prepared"
    /\ Verified(preview[confirming].of) /\ SamePlan(confirming)
    /\ Slots = 1 /\ ~intent.made
    /\ intent' = [made |-> TRUE, read |-> confirm.read, shown |-> preview[confirming].shown]
    /\ \E final \in BOOLEAN : admission' = ~final
    /\ confirm' = [confirm EXCEPT !.at = "leaving"]
    /\ UNCHANGED <<shared, backupVars, uploads, expired, sending, altered, previews, preview,
                   running, inspector, confirming>>

(* Any error before the intent: the work of Prepare is removed. *)
FailConfirm ==
    /\ up = "up" /\ confirm.at \in {"begun", "verified", "preparing", "prepared"}
    /\ \E left \in Survivors(Work(confirming)) : Removes(disk, Work(confirming), left)
    /\ confirm' = [confirm EXCEPT !.at = "leaving"]
    /\ UNCHANGED <<up, closing, requests, backupVars, uploads, expired, sending, altered, previews, preview,
                   running, inspector, confirming, intent, admission>>

(* The deferred releases and finish, which prunes with nothing confirming. *)
EndConfirm ==
    /\ up = "up" /\ confirm.at = "leaving"
    /\ confirming' = Nobody
    /\ confirm' = NoConfirm
    /\ PruneRestores(preview, expired, {running}, <<>>)
    /\ UNCHANGED <<up, closing, requests, backupVars, sending, running, inspector, intent, admission>>

-----------------------------------------------------------------------------
(* CloseJobs: both managers refuse new work and cancel what runs. *)
CloseJobs ==
    /\ Serving
    /\ closing' = TRUE
    /\ job' = Stopped
    /\ preview' = [p \in Previews |-> [preview[p] EXCEPT !.stop = @ \/ preview[p].st = "running"]]
    /\ UNCHANGED <<up, requests, disk, stuck, faults, order, active, worker, uploads, expired, sending, altered, previews,
                   running, inspector, confirming, confirm, intent, admission>>

(* prepareRestoresDir and CleanupOrphanPrepared: the names that are recognised. *)
OwnedRestoreKinds == {"upTemp", "upload", "extract", "scratch"}
OrphanKinds == {"prepExtract", "work", "pair"}

(* The second half of close, once nothing runs: every owned entry goes, and *)
(* one that stays makes close report failure and be tried again.            *)
EndRestores ==
    /\ up = "up" /\ closing /\ Sending = {} /\ confirm.at = "no"
    /\ \A p \in Previews : inspector[p] \in {"no", "leaving"}
    /\ uploads # <<>> \/ previews # <<>>
    /\ Removes(disk, {f \in disk : f[1] \in OwnedRestoreKinds}, {})
    /\ uploads' = <<>> /\ expired' = {} /\ altered' = {}
    /\ previews' = <<>> /\ preview' = [p \in Previews |-> NoPreview]
    /\ running' = Nobody
    /\ UNCHANGED <<up, closing, requests, backupVars, sending, inspector, confirming, confirm, intent, admission>>

(* The process ends, by itself or not: only the files remain. *)
Crash ==
    /\ up = "up"
    /\ up' = "down" /\ closing' = FALSE
    /\ order' = <<>> /\ job' = [j \in Jobs |-> NoJob] /\ active' = Nobody
    /\ worker' = [j \in Jobs |-> Idle]
    /\ uploads' = <<>> /\ expired' = {} /\ altered' = {}
    /\ sending' = [u \in Uploads |-> "no"]
    /\ previews' = <<>> /\ preview' = [p \in Previews |-> NoPreview] /\ running' = Nobody
    /\ inspector' = [p \in Previews |-> "no"]
    /\ confirming' = Nobody /\ confirm' = NoConfirm /\ admission' = TRUE
    /\ stuck' = {}
    /\ UNCHANGED <<disk, faults, requests, intent>>

(* An entry in one of the three directories that nothing recognises. *)
Unowned == {f \in disk : f[1] \notin OwnedBackupKinds \cup OwnedRestoreKinds \cup OrphanKinds \cup {"stage"}}

(* A new process: a pending intent is applied or aborted, orphans are      *)
(* cleaned, and the directories must hold nothing but recognised names.    *)
Restart ==
    /\ up = "down" /\ Unowned = {}
    /\ up' = "up"
    /\ disk' = {f \in disk : f[1] = "stage"}
    /\ intent' = NoIntent
    /\ UNCHANGED <<closing, stuck, faults, requests, backupVars, uploads, expired, sending, altered, previews, preview,
                   running, inspector, confirming, confirm, admission>>

-----------------------------------------------------------------------------
JobsNext ==
    \/ \E j \in Jobs : admission /\ Slots < HashSlots /\ StartBackup(j) /\ UNCHANGED restoreVars
    \/ \E j \in Jobs : Snapshot(j) /\ UNCHANGED restoreVars
    \/ \E j \in Jobs : Encrypt(j) /\ UNCHANGED restoreVars
    \/ \E j \in Jobs : DropSnapshot(j) /\ UNCHANGED restoreVars
    \/ \E j \in Jobs : Complete(j) /\ UNCHANGED restoreVars
    \/ \E j \in Jobs : Abort(j) /\ UNCHANGED restoreVars
    \/ \E j \in Jobs : LeaveBackup(j) /\ UNCHANGED restoreVars
    \/ \E j \in Jobs : CancelBackup(j) /\ UNCHANGED restoreVars
    \/ SweepBackups /\ UNCHANGED restoreVars
    \/ EndBackups /\ UNCHANGED restoreVars
    \/ SweepRestores
    \/ \E u \in Uploads : BeginUpload(u)
    \/ \E u \in Uploads : AdvanceUpload(u)
    \/ \E u \in Uploads : ListUpload(u)
    \/ \E u \in Uploads : EndUpload(u)
    \/ \E u \in Uploads : Rewrite(u)
    \/ \E p \in Previews, u \in Uploads : StartPreview(p, u)
    \/ \E p \in Previews : InspectUpload(p)
    \/ \E p \in Previews : ExtractUpload(p)
    \/ \E p \in Previews : ClearScratch(p)
    \/ \E p \in Previews : CheckPreview(p)
    \/ \E p \in Previews : CompletePreview(p)
    \/ \E p \in Previews : FailPreview(p)
    \/ \E p \in Previews : LeavePreview(p)
    \/ \E p \in Previews : CancelPreview(p)
    \/ RetentionPasses
    \/ \E p \in Previews : BeginConfirm(p)
    \/ VerifyConfirm
    \/ PrepareConfirm
    \/ Prepared
    \/ MakeIntent
    \/ FailConfirm
    \/ EndConfirm
    \/ CloseJobs
    \/ EndRestores
    \/ Crash
    \/ Restart

JobsSpec == JobsInit /\ [][JobsNext]_jobsVars

-----------------------------------------------------------------------------
(***************************************************************************)
(* A cancellation that was accepted is never answered with a completed     *)
(* backup or preview, however late in the job it came (cancelJob and       *)
(* cancelPreview against the context checks at the end of run and          *)
(* runPreview).                                                            *)
(***************************************************************************)
CancelHolds ==
    /\ \A j \in Jobs : job[j].asked => job[j].st # "completed"
    /\ \A p \in Previews : preview[p].asked => preview[p].st # "completed"

(* The preview has read its upload back and found the bytes that were sent. *)
HasVerified(p) ==
    preview[p].st = "completed" \/ inspector[p] \in {"verified", "inspecting", "inspected", "checked"}

(***************************************************************************)
(* Retention never takes away what a preview or the confirmation needs:    *)
(* the running preview and the one being confirmed stay listed, and so     *)
(* does the upload of every listed preview, whose file stays on disk from  *)
(* the moment the preview has verified it, through every expiry, eviction, *)
(* concurrent upload and failed removal (pruneLocked, makeUploadRoomLocked *)
(* and makePreviewRoomLocked).                                             *)
(***************************************************************************)
ReferencedStays ==
    /\ {running, confirming} \subseteq ToSet(previews) \cup {Nobody}
    /\ confirming # Nobody => preview[confirming].st = "completed"
    /\ \A p \in ToSet(previews) :
          /\ preview[p].of \in ToSet(uploads)
          /\ HasVerified(p) => UploadFile(preview[p].of) \in disk

(***************************************************************************)
(* The bytes a restore intent is made from are the bytes whose manifest    *)
(* the owner was shown, even when the upload is written over and back      *)
(* between any two of the checks of handleConfirmRestore.                  *)
(***************************************************************************)
ConfirmedIsPreviewed == intent.made => intent.read = intent.shown

(***************************************************************************)
(* What is confirmed is what was previewed: still there, still the same.   *)
(***************************************************************************)
ConfirmedIsSeen == ReferencedStays /\ ConfirmedIsPreviewed

(***************************************************************************)
(* Every file is accounted for: it belongs to a step under way, to a       *)
(* completed backup, to a listed upload or to the pending intent, or its   *)
(* removal failed in this process; and after a crash at any step the new   *)
(* process recognises every name it finds, so that it can start.  The copy *)
(* staged beside the database is excepted: no start-up removes it.         *)
(***************************************************************************)
FilesAccounted ==
    /\ up = "up" => \A f \in disk \ stuck :
          \/ f[1] = "stage"
          \/ f[2] \in Jobs /\ worker[f[2]] \in 1..10 /\ f \in Files(f[2], worker[f[2]])
          \/ f[2] \in Jobs /\ f \in Path(job, f[2])
          \/ f[2] \in Uploads /\ f \in UploadFiles(f[2], sending[f[2]])
          \/ f[1] = "upload" /\ f[2] \in ToSet(uploads)
          \/ f[2] \in Previews /\ f \in Scratch(f[2]) /\ inspector[f[2]] = "inspecting"
          \/ confirming = f[2] /\ f \in Work(f[2]) /\ confirm.at \in {"preparing", "prepared"}
          \/ f[1] = "pair" /\ intent.made
    /\ up = "down" => Unowned = {}
=============================================================================
