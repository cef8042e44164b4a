------------------------------ MODULE BackupJobs ------------------------------
(***************************************************************************)
(* The portable backup exports of the controller (internal/api/backups.go, *)
(* store/backup.go, portablebackup): a bounded history of jobs, the worker *)
(* of each job, and the files a job leaves on disk at every step.          *)
(*                                                                         *)
(* A file is a pair <<kind, owner>>.  The worker of a job is the number of *)
(* the step it has reached; the files it holds there are Trail[step].  An  *)
(* error at a step removes them, and every single removal may fail.        *)
(***************************************************************************)
EXTENDS Integers, Sequences, FiniteSets, SequencesExt

CONSTANTS
    Jobs,           \* identifiers of backup jobs (random tokens)
    HistoryLimit,   \* backupHistoryLimit
    HashSlots,      \* hashSlots: password derivations that run at once
    MaxFaults,      \* bound: failed removals and rewritten files
    MaxRequests,    \* bound: exports, uploads, previews and confirmations asked for
    Nobody          \* no job, upload or preview

ASSUME BackupAssumption ==
    /\ HistoryLimit \in Nat \ {0}
    /\ HashSlots \in Nat \ {0}
    /\ MaxFaults \in Nat /\ MaxRequests \in Nat
    /\ Nobody \notin Jobs

VARIABLES
    up,         \* the process: "up" serving, "down" between two processes
    closing,    \* CloseJobs has closed both managers
    disk,       \* the files in the data, backups, uploads and scratch directories
    stuck,      \* ghost: files on disk that a removal of this process failed to remove
    faults,     \* number of faults so far
    requests,   \* number of requests so far
    order,      \* backupManager.order: the jobs known, oldest first
    job,        \* backupManager.jobs
    active,     \* backupManager.active
    worker      \* the step each job's goroutine has reached

shared == <<up, closing, disk, stuck, faults, requests>>
backupVars == <<order, job, active, worker>>

NoJob == [st |-> "none", exp |-> FALSE, asked |-> FALSE, stop |-> FALSE]
Terminal == {"completed", "failed", "cancelled"}

(* The worker's steps beside the numbers of Trail. *)
Idle == 0
Failing == 11     \* finishFailure has recorded the outcome, its files are still there
Leaving == 12     \* the job is completed; lease and slot are still held

(* The files of a job at each step: the staged copy beside the database,   *)
(* the anchored temporary, the linked snapshot, the temporary of the       *)
(* artifact and the artifact.                                              *)
Trail == << {}, {"stage"}, {"stage", "rootTemp"}, {"rootTemp"}, {"rootTemp", "snapshot"},
            {"snapshot"}, {"snapshot", "portTemp"}, {"snapshot", "portTemp", "artifact"},
            {"snapshot", "artifact"}, {"artifact"} >>

Files(j, step) == Trail[step] \X {j}

(* The n oldest members of the sequence s that are in S. *)
Oldest(s, S, n) ==
    {s[i] : i \in {k \in DOMAIN s : s[k] \in S /\ Cardinality({h \in 1..k : s[h] \in S}) <= n}}

(* The elements of s at the indices K, in the order of s, and what the     *)
(* filtering loops keep of s: the elements that are not in S.              *)
Picked(s, K) ==
    [k \in 1..Cardinality(K) |-> s[CHOOSE i \in K : Cardinality({h \in K : h <= i}) = k]]
Without(s, S) == Picked(s, {i \in DOMAIN s : s[i] \notin S})

(* What removing the files S can come to: one of them may stay. *)
Survivors(S) == {{}} \cup (IF faults < MaxFaults THEN {{x} : x \in S \cap disk} ELSE {})

(* The removal of `gone` from disk d, of which `left` stay. *)
Removes(d, gone, left) ==
    /\ disk' = d \ (gone \ left)
    /\ stuck' = (stuck \cup left) \cap disk'
    /\ faults' = faults + Cardinality(left)

-----------------------------------------------------------------------------
(* Retention. job.path is the artifact once the job is completed and empty *)
(* before; removing an empty path counts as removed.                       *)
Path(jb, j) == IF jb[j].st = "completed" THEN {<<"artifact", j>>} ELSE {}
Kept(jb, left) == {j \in Jobs : Path(jb, j) \cap left # {}}

Pruned(ord, jb, act, left) ==
    LET fresh == Without(ord, {j \in Jobs : jb[j].exp} \ Kept(jb, left))
        over == Len(fresh) - (IF act = Nobody THEN 0 ELSE 1) - HistoryLimit
    IN  Without(fresh, Oldest(fresh, Jobs \ (Kept(jb, left) \cup {act}), over))

(* makeHistoryRoomLocked: what is left, which is room only if shorter than the limit. *)
Roomed(ord, jb, left) ==
    Without(ord, Oldest(ord, Jobs \ Kept(jb, left), Len(ord) - HistoryLimit + 1))

(* The manager keeps the jobs of ord out of the table jb, on disk d.  A    *)
(* removal can only fail for a job the call would have dropped.            *)
Retain(ord, jb, d, left, full) ==
    LET gone == ToSet(order) \ ToSet(ord)
    IN  /\ left \subseteq UNION {Path(jb, j) : j \in ToSet(order) \ ToSet(full)}
        /\ order' = ord
        /\ job' = [j \in Jobs |-> IF j \in gone THEN NoJob ELSE jb[j]]
        /\ Removes(d, left \cup UNION {Path(jb, j) : j \in gone}, left)

Prune(jb, act, d) ==
    \E left \in Survivors(UNION {Path(jb, j) : j \in ToSet(order)}) :
        Retain(Pruned(order, jb, act, left), jb, d, left, Pruned(order, jb, act, {}))

-----------------------------------------------------------------------------
(* One more request, within the bound. *)
Request == requests < MaxRequests /\ requests' = requests + 1

BackupInit ==
    /\ order = <<>>
    /\ job = [j \in Jobs |-> NoJob]
    /\ active = Nobody
    /\ worker = [j \in Jobs |-> Idle]

BackupSlots == {j \in Jobs : worker[j] # Idle}

(* POST /backups: the slot and the lease, then backupManager.start. A      *)
(* refused request prunes and is a SweepBackups.                           *)
StartBackup(j) ==
    /\ up = "up" /\ ~closing /\ Request
    /\ active = Nobody
    /\ j \notin ToSet(order) /\ worker[j] = Idle /\ \A f \in disk : f[2] # j
    /\ \E left \in Survivors(UNION {Path(job, k) : k \in ToSet(order)}) :
          LET kept == Roomed(Pruned(order, job, Nobody, left), job, left)
              all  == Roomed(Pruned(order, job, Nobody, {}), job, {})
          IN  /\ Len(kept) < HistoryLimit
              /\ left \subseteq UNION {Path(job, k) : k \in ToSet(order) \ ToSet(all)}
              /\ order' = Append(kept, j)
              /\ job' = [k \in Jobs |-> IF k = j THEN [NoJob EXCEPT !.st = "running"]
                                        ELSE IF k \in ToSet(kept) THEN job[k] ELSE NoJob]
              /\ Removes(disk, left \cup UNION {Path(job, k) : k \in ToSet(order) \ ToSet(kept)}, left)
    /\ active' = j
    /\ worker' = [worker EXCEPT ![j] = 1]
    /\ UNCHANGED <<up, closing>>

(* The job goes on to its next step. *)
StepTo(j) ==
    /\ worker' = [worker EXCEPT ![j] = @ + 1]
    /\ disk' = (disk \ Files(j, worker[j])) \cup Files(j, worker[j] + 1)
    /\ UNCHANGED <<up, closing, requests, stuck, faults, order, job, active>>

(* BackupTo: a copy is staged beside the database and verified, copied into *)
(* the anchored directory and linked to its name. Every step looks at the   *)
(* context first.                                                           *)
Snapshot(j) == up = "up" /\ worker[j] \in 1..5 /\ ~job[j].stop /\ StepTo(j)

(* Create: the snapshot is encrypted into a temporary that is linked to the *)
(* name of the artifact.                                                    *)
Encrypt(j) == up = "up" /\ worker[j] \in 6..8 /\ ~job[j].stop /\ StepTo(j)

(* The snapshot goes whatever the context says. *)
DropSnapshot(j) == up = "up" /\ worker[j] = 9 /\ StepTo(j)

(* The context looked at under the manager's lock before the outcome. *)
MayCompleteUnseen(j) == TRUE
MayComplete(j) == ~job[j].stop

Complete(j) ==
    /\ up = "up" /\ worker[j] = 10 /\ MayComplete(j)
    /\ active' = Nobody
    /\ worker' = [worker EXCEPT ![j] = Leaving]
    /\ IF job[j].st = "none" THEN UNCHANGED <<order, job, disk, stuck, faults>>
       ELSE Prune([job EXCEPT ![j].st = "completed"], Nobody, disk)
    /\ UNCHANGED <<up, closing, requests>>

(* An error at any step: the deferred clean-ups of BackupTo and Create and *)
(* the removals of run, then the outcome and the pruning under the lock. A *)
(* context error, a cancellation or backupExportTimeout, makes it          *)
(* "cancelled".                                                            *)
Abort(j) ==
    /\ up = "up" /\ worker[j] \in 1..10
    /\ \E left \in Survivors(Files(j, worker[j]) \cup UNION {Path(job, k) : k \in ToSet(order)}),
          st \in {"failed", "cancelled"} :
          LET held == Files(j, worker[j])
              jb == [job EXCEPT ![j].st = st]
              ord == Pruned(order, jb, Nobody, left)
              Dropped(o) == UNION {Path(jb, k) : k \in ToSet(order) \ ToSet(o)}
          IN  /\ left \subseteq held \cup Dropped(Pruned(order, jb, Nobody, {}))
              /\ order' = ord
              /\ job' = [k \in Jobs |-> IF k \in ToSet(ord) THEN jb[k] ELSE NoJob]
              /\ Removes(disk, held \cup left \cup Dropped(ord), left)
    /\ active' = Nobody
    /\ worker' = [worker EXCEPT ![j] = Failing]
    /\ UNCHANGED <<up, closing, requests>>

(* The rest of run: the snapshot and the artifact of a failed job are      *)
(* removed once more, the lease and the slot are returned, running--.      *)
LeaveBackup(j) ==
    /\ up = "up" /\ worker[j] \in {Failing, Leaving}
    /\ LET again == IF worker[j] = Failing THEN {"snapshot", "artifact"} \X {j} ELSE {}
       IN  \E left \in Survivors(again) : Removes(disk, again \cap disk, left)
    /\ worker' = [worker EXCEPT ![j] = Idle]
    /\ UNCHANGED <<up, closing, requests, order, job, active>>

(* POST /backups/{id}/cancel, refused once the job is terminal. *)
CancelBackup(j) ==
    /\ up = "up" /\ j \in ToSet(order) /\ job[j].st = "running" /\ ~job[j].asked
    /\ job' = [job EXCEPT ![j].asked = TRUE, ![j].stop = TRUE]
    /\ UNCHANGED <<shared, order, active, worker>>

(* The jobs once backupRetention has passed since the end of each that ended. *)
Aged == [j \in Jobs |-> [job[j] EXCEPT !.exp = @ \/ job[j].st \in Terminal]]

(* Every read and every refused request prunes; so does the maintenance tick. *)
SweepBackups ==
    /\ up = "up" /\ \E j \in Jobs : job[j].exp
    /\ Prune(job, active, disk)
    /\ UNCHANGED <<up, closing, requests, active, worker>>

(* The jobs once every context has been cancelled. *)
Stopped == [j \in Jobs |-> [job[j] EXCEPT !.stop = @ \/ job[j].st = "running"]]

(* The second half of close, once no worker runs; errors are ignored. *)
EndBackups ==
    /\ up = "up" /\ closing /\ BackupSlots = {} /\ order # <<>>
    /\ LET files == {f \in disk : f[2] \in ToSet(order) /\ (f[1] = "snapshot" \/ f \in Path(job, f[2]))}
       IN  \E left \in Survivors(files) : Removes(disk, files, left)
    /\ order' = <<>> /\ active' = Nobody
    /\ job' = [j \in Jobs |-> NoJob]
    /\ UNCHANGED <<up, closing, requests, worker>>

(* prepareBackupsDir: the names a new process recognises as its own. *)
OwnedBackupKindsForgotten == {"artifact", "snapshot", "portTemp"}
OwnedBackupKinds == {"artifact", "snapshot", "rootTemp", "portTemp"}
=============================================================================
