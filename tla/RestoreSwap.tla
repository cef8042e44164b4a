----------------------------- MODULE RestoreSwap -----------------------------
(***************************************************************************)
(* The offline restore (internal/restoreswap and                           *)
(* internal/daemon/restore_lifecycle.go): a confirmed restore leaves a     *)
(* prepared database and keyring and a durable marker; the next start      *)
(* parks the old pair, publishes the new one, and recovers from a crash or *)
(* an I/O error at every rename and every marker write.                    *)
(*                                                                         *)
(* A file is its content: the id of the restore it came from, Base, or     *)
(* None.  Contents are compared by recorded digest, as in the code; files  *)
(* that somebody else changes are not modelled.                            *)
(***************************************************************************)
EXTENDS Naturals, Sequences, FiniteSets

CONSTANTS
    Restore,          \* ids of restores
    Base,             \* content of the pair the controller starts with
    None,             \* a missing file, no restore
    SafetyRetention,  \* safetyRetentionCount
    EventsOverflow    \* controller events beyond Retention.MaxEvents

ASSUME RestoreConstants ==
    /\ Base \notin Restore /\ None \notin Restore /\ Base # None
    /\ SafetyRetention \in Nat \ {0}
    /\ EventsOverflow \in BOOLEAN

Member == {"db", "keyring"}
Content == Restore \cup {Base}
Pair == [Member -> Content]

\* None stands for nil wherever the code has a pointer or an empty name.
ASSUME NoneIsNoPair == None \notin Pair /\ None \notin [id : Restore, pair : Pair]

Files == [Member -> Content \cup {None}]
NoFiles == [m \in Member |-> None]

VARIABLES
    canon,     \* the canonical database and keyring
    roll,      \* rollback-<id>/
    prep,      \* prepared directories, by restore
    mark,      \* pending-restore.json
    safety,    \* restores whose safety-<id>.oowrtbak exists
    fence,     \* the router-write suppression file
    receipt,   \* restore-applied-receipt.json
    audit,     \* restores with a controller.restore_applied event row
    pc,        \* where the process is
    step,      \* position in a sequence of file operations
    mine,      \* the marker's owner instance is this process
    accepted,  \* restoreRestartAccepted
    job,       \* the restore whose prepared pair a confirmation still owns
    memFence,  \* Daemon.suppression
    applied,   \* Daemon.restoreApplied
    syncFaults, \* a rename may take effect although its fsync fails
    quiet,     \* no fault happens from now on
    used,      \* history: ids given out
    whole,     \* history: the complete pairs there have been
    resumed,   \* history: restores whose resumption was authorized
    logged     \* history: how often a restore was audited

files == <<canon, roll, prep, mark, safety, fence, receipt, audit>>
process == <<step, mine, accepted, job, memFence, applied>>
history == <<used, whole, resumed, logged>>
faults == <<syncFaults, quiet>>
vars == <<files, pc, process, faults, history>>

MarkerStates == <<"intent", "ready", "safety", "old_db_parked", "old_pair_parked",
                  "new_db_published", "new_pair_published", "validated", "suppressed",
                  "cleanup">>
Rank(s) == CHOOSE i \in 1..Len(MarkerStates) : MarkerStates[i] = s

NoMark == [state |-> "none", id |-> None, new |-> NoFiles, old |-> NoFiles]

\* What validateMarker requires of a marker in each state.
WellFormed(m) ==
    \/ m = NoMark
    \/ /\ m.state \in {MarkerStates[i] : i \in 1..Len(MarkerStates)}
       /\ m.id \in Restore
       /\ m.new \in Pair
       /\ IF m.state = "intent" THEN m.old = NoFiles ELSE m.old \in Pair

\* applyReady from the first rename to the last marker write.
Plan == <<<<"park", "db">>,         <<"advance", "old_db_parked">>,
          <<"park", "keyring">>,    <<"advance", "old_pair_parked">>,
          <<"publish", "db">>,      <<"advance", "new_db_published">>,
          <<"publish", "keyring">>, <<"advance", "new_pair_published">>,
          <<"validate", "pair">>,   <<"advance", "validated">>,
          <<"suppress", "routers">>, <<"advance", "suppressed">>,
          <<"advance", "cleanup">>>>

InOrder == <<"db", "keyring">>

Startup == {"pending", "locate", "safety", "swap", "undo", "finish", "remove", "orphans",
            "open", "record"}
States == {"down", "serving", "closed"} \cup Startup

TypeOK ==
    /\ canon \in Files /\ roll \in Files
    /\ prep \in [Restore -> Files]
    /\ WellFormed(mark)
    /\ safety \subseteq Restore
    /\ {fence, receipt, job, memFence, applied} \subseteq Restore \cup {None}
    /\ audit \subseteq Restore
    /\ pc \in States
    /\ step \in 1..Len(Plan) + 1
    /\ {mine, accepted, syncFaults, quiet} \subseteq BOOLEAN
    /\ used \subseteq Restore /\ resumed \subseteq Restore
    /\ whole \subseteq Pair
    /\ logged \in [Restore -> Nat]

Init ==
    /\ canon = [m \in Member |-> Base]
    /\ roll = NoFiles
    /\ prep = [r \in Restore |-> NoFiles]
    /\ mark = NoMark
    /\ safety = {} /\ fence = None /\ receipt = None /\ audit = {}
    /\ pc = "serving" /\ step = 1
    /\ mine = FALSE /\ accepted = FALSE /\ job = None
    /\ memFence = None /\ applied = None
    /\ syncFaults \in BOOLEAN
    /\ quiet = FALSE
    /\ used = {} /\ whole = {canon} /\ resumed = {} /\ logged = [r \in Restore |-> 0]

Step(from, to) == pc = from /\ pc' = to

\* The process is gone, and with it what it held in memory.
Down ==
    /\ pc' = "down"
    /\ step' = 1
    /\ mine' = FALSE /\ accepted' = FALSE
    /\ job' = None /\ memFence' = None /\ applied' = None

----------------------------------------------------------------------------
(* The running controller: handleConfirmRestore, shutdown, resume          *)

\* Prepare writes a migrated pair next to the live one.  A member may come out
\* byte for byte equal to the live one.
Prepare(r, same) ==
    /\ Step("serving", "serving")
    /\ job = None /\ memFence = None /\ ~accepted
    /\ r \notin used
    /\ used' = used \cup {r}
    /\ job' = r
    /\ prep' = [prep EXCEPT ![r] = [m \in Member |-> IF m \in same THEN canon[m] ELSE r]]
    /\ whole' = whole \cup {prep'[r]}
    /\ UNCHANGED <<canon, roll, mark, safety, fence, receipt, audit, step, mine, accepted,
                   memFence, applied, faults, resumed, logged>>

\* The confirmation ends without an intent; its cleanup may fail.
DiscardPrepared(cleaned) ==
    /\ Step("serving", "serving")
    /\ job # None
    /\ cleaned \/ ~quiet
    /\ prep' = IF cleaned THEN [prep EXCEPT ![job] = NoFiles] ELSE prep
    /\ job' = None
    /\ UNCHANGED <<canon, roll, mark, safety, fence, receipt, audit, step, mine, accepted,
                   memFence, applied, faults, history>>

\* CreateIntent publishes the marker and takes the prepared pair over.  The
\* restart is requested unless CreateIntent could not be sure of its marker.
CreateIntent(retained) ==
    /\ Step("serving", "serving")
    /\ job # None /\ mark = NoMark
    /\ retained => ~quiet
    /\ mark' = [state |-> "intent", id |-> job, new |-> prep[job], old |-> NoFiles]
    /\ mine' = TRUE
    /\ accepted' = ~retained
    /\ job' = None
    /\ UNCHANGED <<canon, roll, prep, safety, fence, receipt, audit, step, memFence, applied,
                   faults, history>>

\* shutdownLifecycle drained everything and closed store and keyring.
Shutdown ==
    /\ Step("serving", "closed")
    /\ job = None
    /\ UNCHANGED <<files, process, faults, history>>

\* Mutant of Promotable: a retained intent is promoted like an accepted one.
PromotableRetained ==
    mine /\ mark.state = "intent" /\ prep[mark.id] = mark.new

\* restoreRestartAccepted, OwnsUncleanIntent and verifyPrepared.
Promotable ==
    accepted /\ mine /\ mark.state = "intent" /\ prep[mark.id] = mark.new

\* MarkCleanShutdown records the digests of the closed pair.
MarkCleanShutdown ==
    /\ Promotable
    /\ mark' = [mark EXCEPT !.state = "ready", !.old = canon]

\* The process ends, after the promotion or without one.
Exit ==
    /\ pc = "closed"
    /\ \/ MarkCleanShutdown
       \/ (Promotable => ~quiet) /\ UNCHANGED mark
    /\ Down
    /\ UNCHANGED <<canon, roll, prep, safety, fence, receipt, audit, faults, history>>

\* ResumeRouterWrites: the file first, then memory.
ResumeRouterWrites(failed) ==
    /\ Step("serving", "serving")
    /\ memFence # None /\ fence = memFence
    /\ failed => syncFaults /\ ~quiet
    /\ resumed' = resumed \cup {memFence}
    /\ fence' = None
    /\ memFence' = IF failed THEN memFence ELSE None
    /\ UNCHANGED <<canon, roll, prep, mark, safety, receipt, audit, step, mine, accepted, job,
                   applied, faults, used, whole, logged>>

\* pruneEventsOn drops the oldest rows beyond MaxEvents, at maintenance and at
\* start-up, before recordAppliedRestore.  The row of a receipt that is still
\* there is among the newest.
PruneEvents(r) ==
    /\ pc \in {"serving", "record"} /\ UNCHANGED pc
    /\ EventsOverflow
    /\ r \in audit /\ r # receipt
    /\ audit' = audit \ {r}
    /\ UNCHANGED <<canon, roll, prep, mark, safety, fence, receipt, process, faults, history>>

----------------------------------------------------------------------------
(* Startup: reconcileRestoreStartup                                        *)

Start ==
    /\ Step("down", "pending")
    /\ UNCHANGED <<files, process, faults, history>>

\* Mutant of Dispatch: prepared directories are swept before the marker is read.
DispatchSweepsFirst ==
    /\ Step("pending", "orphans")
    /\ UNCHANGED <<files, process, faults, history>>

\* ApplyPending by the marker's state.
Dispatch ==
    /\ pc = "pending"
    /\ pc' = CASE mark.state = "none" -> "orphans"
               [] mark.state = "intent" -> "remove"
               [] mark.state = "cleanup" -> "finish"
               [] OTHER -> "locate"
    /\ UNCHANGED <<files, process, faults, history>>

\* Before anything moves: both old members are found, an untouched prepared
\* pair is complete, the safety artifact is there once it was recorded.
Located ==
    /\ \A m \in Member : mark.old[m] \in {canon[m], roll[m]}
    /\ canon = mark.old => prep[mark.id] = mark.new
    /\ IF mark.state = "ready" THEN canon = mark.old ELSE mark.id \in safety

Locate ==
    /\ Step("locate", IF mark.state = "ready" THEN "safety" ELSE "swap")
    /\ Located
    /\ UNCHANGED <<files, process, faults, history>>

\* ensureSafety: the artifact first, then the marker that names it.
CreateSafety ==
    /\ Step("safety", "safety")
    /\ mark.id \notin safety
    /\ safety' = safety \cup {mark.id}
    /\ UNCHANGED <<canon, roll, prep, mark, fence, receipt, audit, process, faults, history>>

RecordSafety ==
    /\ Step("safety", "swap")
    /\ mark.id \in safety
    /\ mark' = [mark EXCEPT !.state = "safety"]
    /\ UNCHANGED <<canon, roll, prep, safety, fence, receipt, audit, process, faults, history>>

----------------------------------------------------------------------------
(* applyReady: one step of the plan                                        *)

\* The step is done, or its effect is there and its fsync failed.
Continue ==
    \/ /\ step' = step + 1
       /\ pc' = IF step = Len(Plan) THEN "finish" ELSE "swap"
    \/ /\ syncFaults /\ ~quiet
       /\ pc' = "undo" /\ step' = 1

At(what) == pc = "swap" /\ Plan[step][1] = what

Unchanging(m) == mark.new[m] = mark.old[m]

\* The member is parked already, possibly with its successor in place.
Parked(m) == roll[m] = mark.old[m] /\ canon[m] \in {None, mark.new[m]}

Park ==
    LET m == Plan[step][2] IN
    /\ At("park")
    /\ IF Unchanging(m) \/ Parked(m)
       THEN (Unchanging(m) => canon[m] = mark.old[m]) /\ UNCHANGED <<canon, roll>>
       ELSE /\ canon[m] = mark.old[m] /\ roll[m] = None
            /\ canon' = [canon EXCEPT ![m] = None]
            /\ roll' = [roll EXCEPT ![m] = mark.old[m]]
    /\ Continue
    /\ UNCHANGED <<prep, mark, safety, fence, receipt, audit, mine, accepted, job, memFence,
                   applied, faults, history>>

Publish ==
    LET m == Plan[step][2] IN
    /\ At("publish")
    /\ IF canon[m] = mark.new[m]
       THEN UNCHANGED <<canon, prep>>
       ELSE /\ ~Unchanging(m) /\ canon[m] = None /\ prep[mark.id][m] = mark.new[m]
            /\ canon' = [canon EXCEPT ![m] = mark.new[m]]
            /\ prep' = [prep EXCEPT ![mark.id][m] = None]
    /\ Continue
    /\ UNCHANGED <<roll, mark, safety, fence, receipt, audit, mine, accepted, job, memFence,
                   applied, faults, history>>

Validate ==
    /\ At("validate")
    /\ canon = mark.new
    /\ Continue
    /\ UNCHANGED <<files, mine, accepted, job, memFence, applied, faults, history>>

\* ensureSuppression: kept if it is this restore's, refused if another's.
Suppress ==
    /\ At("suppress")
    /\ fence \in {None, mark.id}
    /\ fence' = mark.id
    /\ Continue
    /\ UNCHANGED <<canon, roll, prep, mark, safety, receipt, audit, mine, accepted, job,
                   memFence, applied, faults, history>>

\* advance: the marker only ever moves forward here.
Advance ==
    LET s == Plan[step][2] IN
    /\ At("advance")
    /\ mark' = IF Rank(mark.state) >= Rank(s) THEN mark ELSE [mark EXCEPT !.state = s]
    /\ Continue
    /\ UNCHANGED <<canon, roll, prep, safety, fence, receipt, audit, mine, accepted, job,
                   memFence, applied, faults, history>>

\* A step failed before it had an effect: fail() restores the old pair.
SwapFails ==
    /\ Step("swap", "undo")
    /\ ~quiet
    /\ step' = 1
    /\ UNCHANGED <<files, mine, accepted, job, memFence, applied, faults, history>>

----------------------------------------------------------------------------
(* restoreOld: database, keyring, marker                                   *)

\* A new member goes back to where it was prepared, or is removed as its copy.
Unpublish ==
    LET m == InOrder[step] IN
    /\ Step("undo", "undo") /\ step <= 2
    /\ canon[m] = mark.new[m] /\ canon[m] # mark.old[m]
    /\ prep[mark.id][m] \in {None, mark.new[m]}
    /\ prep' = [prep EXCEPT ![mark.id][m] = mark.new[m]]
    /\ canon' = [canon EXCEPT ![m] = None]
    /\ UNCHANGED <<roll, mark, safety, fence, receipt, audit, process, faults, history>>

\* The old member comes back, unless it never left.
Unpark ==
    LET m == InOrder[step] IN
    /\ Step("undo", "undo") /\ step <= 2
    /\ IF canon[m] = mark.old[m]
       THEN UNCHANGED <<canon, roll>>
       ELSE /\ canon[m] = None /\ roll[m] = mark.old[m]
            /\ canon' = [canon EXCEPT ![m] = mark.old[m]]
            /\ roll' = [roll EXCEPT ![m] = None]
    /\ step' = step + 1
    /\ UNCHANGED <<prep, mark, safety, fence, receipt, audit, mine, accepted, job, memFence,
                   applied, faults, history>>

\* The old pair is valid: the next start begins again from the safety artifact.
UndoMarker ==
    /\ Step("undo", "undo") /\ step = 3
    /\ canon = mark.old
    /\ mark' = [mark EXCEPT !.state = "safety"]
    /\ step' = 4
    /\ UNCHANGED <<canon, roll, prep, safety, fence, receipt, audit, mine, accepted, job,
                   memFence, applied, faults, history>>

\* ApplyPending returns the error and the start fails.
UndoDone ==
    /\ pc = "undo" /\ step = 4
    /\ roll' = NoFiles
    /\ Down
    /\ UNCHANGED <<canon, prep, mark, safety, fence, receipt, audit, faults, history>>

----------------------------------------------------------------------------
(* finishCleanup, AbortUnclean and the sweep of prepared directories       *)

\* Mutant of Finishable: a receipt written before a crash is not recognised.
FinishableOnce ==
    /\ mark.id \in safety
    /\ canon = mark.new
    /\ fence = mark.id
    /\ receipt = None

\* Mutant of Finishable: the pair is not validated again.
FinishableUnchecked ==
    /\ mark.id \in safety
    /\ fence = mark.id
    /\ receipt \in {None, mark.id}

Finishable ==
    /\ mark.id \in safety
    /\ canon = mark.new
    /\ fence = mark.id
    /\ receipt \in {None, mark.id}

Finish ==
    /\ Step("finish", "remove")
    /\ Finishable
    /\ receipt' = mark.id
    /\ step' = 1
    /\ UNCHANGED <<canon, roll, prep, mark, safety, fence, audit, mine, accepted, job,
                   memFence, applied, faults, history>>

\* removeRollbackOwned, member by member.
RemoveRollback ==
    /\ Step("remove", "remove") /\ step <= 2
    /\ roll' = IF mark.state = "cleanup" THEN [roll EXCEPT ![InOrder[step]] = None] ELSE roll
    /\ step' = step + 1
    /\ UNCHANGED <<canon, prep, mark, safety, fence, receipt, audit, mine, accepted, job,
                   memFence, applied, faults, history>>

\* removePreparedOwned, member by member.
RemovePrepared ==
    /\ Step("remove", "remove") /\ step \in {3, 4}
    /\ prep' = [prep EXCEPT ![mark.id][InOrder[step - 2]] = None]
    /\ step' = step + 1
    /\ UNCHANGED <<canon, roll, mark, safety, fence, receipt, audit, mine, accepted, job,
                   memFence, applied, faults, history>>

RemoveMarker ==
    /\ Step("remove", "orphans") /\ step = 5
    /\ mark' = NoMark
    /\ applied' = IF mark.state = "cleanup" THEN mark.id ELSE None
    /\ step' = 1
    /\ UNCHANGED <<canon, roll, prep, safety, fence, receipt, audit, mine, accepted, job,
                   memFence, faults, history>>

\* CleanupOrphanPrepared, one directory at a time.
RemoveOrphan(r) ==
    /\ Step("orphans", "orphans")
    /\ prep[r] # NoFiles
    /\ prep' = [prep EXCEPT ![r] = NoFiles]
    /\ UNCHANGED <<canon, roll, mark, safety, fence, receipt, audit, process, faults, history>>

\* Mutant of ReadSuppression: the fence is only set by the start that swapped.
ReadSuppressionOnce ==
    /\ Step("orphans", "open")
    /\ \A r \in Restore : prep[r] = NoFiles
    /\ memFence' = applied
    /\ UNCHANGED <<files, step, mine, accepted, job, applied, faults, history>>

ReadSuppression ==
    /\ Step("orphans", "open")
    /\ \A r \in Restore : prep[r] = NoFiles
    /\ memFence' = fence
    /\ UNCHANGED <<files, step, mine, accepted, job, applied, faults, history>>

\* openKeyring and store.Open.
OpenStore ==
    /\ Step("open", "record")
    /\ UNCHANGED <<files, process, faults, history>>

----------------------------------------------------------------------------
(* recordAppliedRestore                                                    *)

\* The receipt is the fence's and the applied result's.
ReceiptMatches == applied \in {None, receipt} /\ memFence = receipt

\* Mutant of LogApplied: an event that exists is not looked for.
LogAppliedAgain ==
    /\ Step("record", "record")
    /\ receipt # None /\ ReceiptMatches
    /\ logged[receipt] < 2
    /\ audit' = audit \cup {receipt}
    /\ logged' = [logged EXCEPT ![receipt] = @ + 1]
    /\ UNCHANGED <<canon, roll, prep, mark, safety, fence, receipt, process, faults, used,
                   whole, resumed>>

LogApplied ==
    /\ Step("record", "record")
    /\ receipt # None /\ ReceiptMatches
    /\ receipt \notin audit
    /\ audit' = audit \cup {receipt}
    /\ logged' = [logged EXCEPT ![receipt] = @ + 1]
    /\ UNCHANGED <<canon, roll, prep, mark, safety, fence, receipt, process, faults, used,
                   whole, resumed>>

\* Mutant of Kept: the newest artifacts, whoever still refers to the others.
KeptNewest(kept) == kept # {} /\ Cardinality(kept) <= SafetyRetention

\* pruneSafetyArtifacts: referenced artifacts stay, then the newest up to the
\* retention count.
Kept(kept) ==
    LET needed == {receipt, fence, mark.id} \cap safety IN
    /\ needed \subseteq kept
    /\ \/ Cardinality(kept) = SafetyRetention
       \/ Cardinality(safety) < SafetyRetention /\ kept = safety
       \/ Cardinality(needed) > SafetyRetention /\ kept = needed

ClearReceipt(kept) ==
    /\ Step("record", "serving")
    /\ receipt # None /\ ReceiptMatches /\ receipt \in audit
    /\ kept \subseteq safety /\ Kept(kept)
    /\ safety' = kept
    /\ receipt' = None
    /\ UNCHANGED <<canon, roll, prep, mark, fence, audit, process, faults, history>>

\* No receipt: a fence must belong to a restore that was audited.
NothingToRecord == receipt = None /\ applied = None /\ (memFence # None => memFence \in audit)

Serve ==
    /\ Step("record", "serving")
    /\ NothingToRecord
    /\ UNCHANGED <<files, process, faults, history>>

----------------------------------------------------------------------------
(* Faults                                                                  *)

\* A check fails for good: the start returns its error.
Refuse ==
    /\ \/ pc = "locate" /\ ~Located
       \/ pc = "finish" /\ ~Finishable
       \/ pc = "record" /\ IF receipt = None THEN ~NothingToRecord ELSE ~ReceiptMatches
    /\ Down
    /\ UNCHANGED <<files, faults, history>>

\* The process dies, or a startup step fails outside the swap.
Crash ==
    /\ pc # "down" /\ ~quiet
    /\ Down
    /\ UNCHANGED <<files, faults, history>>

Quieten ==
    /\ ~quiet /\ quiet' = TRUE
    /\ UNCHANGED <<files, pc, process, syncFaults, history>>

----------------------------------------------------------------------------

Recover ==
    \/ Start \/ Dispatch \/ Locate \/ CreateSafety \/ RecordSafety
    \/ Park \/ Publish \/ Validate \/ Suppress \/ Advance \/ SwapFails
    \/ Unpublish \/ Unpark \/ UndoMarker \/ UndoDone
    \/ Finish \/ RemoveRollback \/ RemovePrepared \/ RemoveMarker
    \/ (\E r \in Restore : RemoveOrphan(r))
    \/ ReadSuppression \/ OpenStore
    \/ LogApplied \/ (\E kept \in SUBSET safety : ClearReceipt(kept)) \/ Serve
    \/ Refuse

Next ==
    \/ Recover
    \/ \E r \in Restore, same \in SUBSET Member : Prepare(r, same)
    \/ \E cleaned \in BOOLEAN : DiscardPrepared(cleaned)
    \/ \E retained \in BOOLEAN : CreateIntent(retained)
    \/ Shutdown \/ Exit
    \/ \E failed \in BOOLEAN : ResumeRouterWrites(failed)
    \/ \E r \in Restore : PruneEvents(r)
    \/ Crash \/ Quieten

Spec == Init /\ [][Next]_vars

\* Startup runs by itself; an accepted restore makes the controller stop; a
\* confirmation is bounded by its timeout.
Fairness ==
    /\ WF_vars(Recover)
    /\ WF_vars(DiscardPrepared(TRUE))
    /\ WF_vars(accepted /\ Shutdown)
    /\ WF_vars(Exit)

FairSpec == Spec /\ Fairness

----------------------------------------------------------------------------
(* Properties                                                              *)

\* Until the marker reaches "cleanup" every byte of the old pair is at its
\* canonical place or parked, and from "safety" on its encrypted copy exists, so
\* every crash and every failed step can still go back (applyReady); and from the
\* promotion on the new pair is prepared or published, so that no sweep of
\* orphans and no rollback keeps the restore from going forward.
PairsSurvive ==
    /\ mark.state \notin {"none", "intent", "cleanup"} =>
          /\ \A m \in Member : mark.old[m] \in {canon[m], roll[m]}
          /\ mark.state # "ready" => mark.id \in safety
    /\ mark.state \notin {"none", "intent"} =>
          \A m \in Member : mark.new[m] \in {canon[m], prep[mark.id][m]}

\* A database is only ever opened with the keyring it belongs to: whatever
\* crashed or failed on the way, a start that gets as far as the store finds a
\* complete pair, never one member of each and never a missing one.
OpenedPairIsWhole ==
    pc \in {"open", "record", "serving", "closed"} => canon \in whole

\* A served controller with restored content keeps its routers fenced, in
\* memory and on disk, until the owner authorized their resumption for that
\* very restore (docs/ROADMAP.md: suppression "survives restart").
RestoredIsFenced ==
    pc = "serving" => \A r \in Restore \ resumed :
        (\E m \in Member : canon[m] = r) => memFence = r /\ fence = r

\* While a restore is under review its safety artifact is kept, whatever the
\* retention count says (docs/ARCHITECTURE.md: "always preserved").
ReviewKeepsSafety == fence # None /\ fence # mark.id => fence \in safety

\* A restore is audited exactly once before the restored pair serves anything,
\* over any number of crashes between event, receipt and marker.
AuditedOnce ==
    pc = "serving" => \A r \in Restore :
        (\E m \in Member : canon[m] = r) => logged[r] = 1

\* No crash, failed rename or failed fsync of the swap, of its rollback and of the
\* next start costs a database or a keyring, or mixes the two pairs.
NoPairIsLost == TypeOK /\ OpenedPairIsWhole /\ PairsSurvive

\* What a restored controller owes its owner before it is trusted with routers
\* again: the fence, the safety artifact and the audit record.
RestoredIsReviewed == RestoredIsFenced /\ ReviewKeepsSafety /\ AuditedOnce

\* The served pair and the fence change as AtomicRestore says: the marker's
\* last state is the commit point.  The promise is made for a directory whose
\* fsync does not fail after the rename took effect; a behaviour with such a
\* failure maps to a controller that never restores.
Swapping == mark.state \notin {"none", "intent", "cleanup"}
Untouched == [m \in Member |-> Base]

PromisedPair ==
    IF syncFaults THEN Untouched
    ELSE IF Swapping THEN mark.old
    ELSE IF mark.state = "cleanup" THEN mark.new ELSE canon
PromisedPending ==
    IF ~syncFaults /\ (Swapping \/ (mark.state = "intent" /\ accepted))
    THEN [id |-> mark.id, pair |-> mark.new] ELSE None
PromisedFence == IF syncFaults \/ (Swapping /\ fence = mark.id) THEN None ELSE fence
PromisedServed ==
    IF syncFaults THEN Untouched ELSE IF pc = "serving" THEN canon ELSE None
PromisedWriting == syncFaults \/ (pc = "serving" /\ memFence = None)

Promised ==
    INSTANCE AtomicRestore WITH
        pair <- PromisedPair, pending <- PromisedPending, fenced <- PromisedFence,
        served <- PromisedServed, writing <- PromisedWriting

ImplementsAtomicRestore == Promised!Spec

\* Once faults stop, a restore that was accepted by a controller still running,
\* or promoted by one that may have crashed many times since, is carried through
\* and served under its fence by restarts that need nobody; unless a directory
\* fsync failed after its rename, from which start-up does not always recover.
AcceptedIsServed ==
    \A r \in Restore :
        (quiet /\ ~syncFaults /\ mark.id = r /\ (accepted \/ mark.state # "intent"))
            ~> (pc = "serving" /\ memFence = r)

==============================================================================
