---------------------------- MODULE ApplyReceipts ----------------------------
(***************************************************************************)
(* The durable receipt of a fleet apply: one row per operation id and one  *)
(* row per device (internal/store/apply.go), the HTTP handler that drives  *)
(* it (internal/api/apply_operation.go), the serial fleet loop and the     *)
(* deferred device receipt (internal/daemon/provision.go), store failures, *)
(* a crash of the controller at any point and the recovery at startup.     *)
(*                                                                         *)
(* The receipt must never claim that nothing was written when a router may *)
(* have been: wrote is the ground truth it is compared with.               *)
(***************************************************************************)
EXTENDS Integers

CONSTANTS
    Op,        \* operation ids (UUIDs chosen by the client)
    Device,    \* devices of the adopted fleet
    Handler,   \* HTTP requests in flight
    Request,   \* request fingerprints (applyRequestFingerprint)
    None

ASSUME ReceiptConstants == None \notin Op \cup Device \cup Handler \cup Request

VARIABLES
    up,        \* the controller process runs
    opState, opWrite, opHash,   \* apply_operations, by operation id
    devState, devWrite,         \* apply_operation_devices
    siteMu,    \* holder of Server.siteMu
    pc, hop, hreq,              \* each handler's place, operation, request
    todo, cur,                  \* devices still to apply, the current one
    boundary,  \* applyDeviceBoundOperation's writeBoundary
    changed,   \* some reported device has Changes > 0
    result,    \* the state or refusal to record at the end
    wrote,     \* history: <<operation, device>> whose router was written
    runs,      \* history: how often ApplySite started for an operation
    refused,   \* history: operations answered write_state "none"
    stranded   \* history: neither terminal write succeeded in this process

durable == <<opState, opWrite, opHash, devState, devWrite>>
local == <<hop, hreq, todo, cur, boundary, changed, result>>
history == <<wrote, runs, refused, stranded>>
vars == <<up, durable, siteMu, pc, local, history>>

Unfinished == {"queued", "running"}
Terminal == {"completed", "failed", "unknown"}
DeviceTerminal == {"completed", "failed", "unknown", "skipped"}
OpStates == {"absent"} \cup Unfinished \cup Terminal
DeviceStates == {"absent", "queued", "applying"} \cup DeviceTerminal

\* Points at which a handler owns the operation it created.
Running == {"preflight", "fleet", "device", "applying", "written", "record", "finish"}
Owning == {"created", "locked", "reject", "interrupt"} \cup Running
States == {"idle", "begin"} \cup Owning

TypeOK ==
    /\ up \in BOOLEAN
    /\ opState \in [Op -> OpStates]
    /\ opWrite \in [Op -> {"null", "none", "possible"}]
    /\ opHash \in [Op -> Request \cup {None}]
    /\ devState \in [Op -> [Device -> DeviceStates]]
    /\ devWrite \in [Op -> [Device -> {"none", "possible"}]]
    /\ siteMu \in Handler \cup {None}
    /\ pc \in [Handler -> States]
    /\ hop \in [Handler -> Op \cup {None}]
    /\ hreq \in [Handler -> Request \cup {None}]
    /\ todo \in [Handler -> SUBSET Device]
    /\ cur \in [Handler -> Device \cup {None}]
    /\ boundary \in [Handler -> BOOLEAN]
    /\ changed \in [Handler -> BOOLEAN]
    /\ result \in [Handler -> {"completed", "failed", "none", "possible"}]
    /\ wrote \subseteq Op \X Device
    /\ runs \in [Op -> Nat]
    /\ refused \subseteq Op
    /\ stranded \subseteq Op

Init ==
    /\ up = TRUE
    /\ opState = [o \in Op |-> "absent"]
    /\ opWrite = [o \in Op |-> "null"]
    /\ opHash = [o \in Op |-> None]
    /\ devState = [o \in Op |-> [d \in Device |-> "absent"]]
    /\ devWrite = [o \in Op |-> [d \in Device |-> "none"]]
    /\ siteMu = None
    /\ pc = [h \in Handler |-> "idle"]
    /\ hop = [h \in Handler |-> None]
    /\ hreq = [h \in Handler |-> None]
    /\ todo = [h \in Handler |-> {}]
    /\ cur = [h \in Handler |-> None]
    /\ boundary = [h \in Handler |-> FALSE]
    /\ changed = [h \in Handler |-> FALSE]
    /\ result = [h \in Handler |-> "none"]
    /\ wrote = {}
    /\ runs = [o \in Op |-> 0]
    /\ refused = {}
    /\ stranded = {}

Step(h, from, to) ==
    /\ up
    /\ pc[h] = from
    /\ pc' = [pc EXCEPT ![h] = to]
    /\ UNCHANGED up

\* Mutant of Return: the site mutex is not unlocked.
ReturnLocked(h) ==
    /\ UNCHANGED siteMu
    /\ hop' = [hop EXCEPT ![h] = None]
    /\ hreq' = [hreq EXCEPT ![h] = None]
    /\ todo' = [todo EXCEPT ![h] = {}]
    /\ cur' = [cur EXCEPT ![h] = None]
    /\ boundary' = [boundary EXCEPT ![h] = FALSE]
    /\ changed' = [changed EXCEPT ![h] = FALSE]
    /\ result' = [result EXCEPT ![h] = "none"]

\* The handler returns: deferred siteMu.Unlock, locals out of scope.
Return(h) ==
    /\ siteMu' = IF siteMu = h THEN None ELSE siteMu
    /\ hop' = [hop EXCEPT ![h] = None]
    /\ hreq' = [hreq EXCEPT ![h] = None]
    /\ todo' = [todo EXCEPT ![h] = {}]
    /\ cur' = [cur EXCEPT ![h] = None]
    /\ boundary' = [boundary EXCEPT ![h] = FALSE]
    /\ changed' = [changed EXCEPT ![h] = FALSE]
    /\ result' = [result EXCEPT ![h] = "none"]

\* The answer's write_state; only "none" makes a claim.
Answer(h, write) ==
    refused' = IF write = "none" THEN refused \cup {hop[h]} ELSE refused

----------------------------------------------------------------------------
(* handleApplyOperation, up to the fleet loop                              *)

Arrive(h, o, r) ==
    /\ Step(h, "idle", "begin")
    /\ hop' = [hop EXCEPT ![h] = o]
    /\ hreq' = [hreq EXCEPT ![h] = r]
    /\ UNCHANGED <<durable, siteMu, todo, cur, boundary, changed, result, history>>

\* Mutant of BeginCreates: an operation of unknown outcome may be retried under
\* its id.
BeginRetriesUnknown(h) ==
    LET o == hop[h] IN
    /\ Step(h, "begin", "created")
    /\ opState[o] \in {"absent", "unknown"}
    /\ opState' = [opState EXCEPT ![o] = "queued"]
    /\ opHash' = [opHash EXCEPT ![o] = hreq[h]]
    /\ UNCHANGED <<opWrite, devState, devWrite, siteMu, local, history>>

\* BeginApplyOperation inserts the queued row.
BeginCreates(h) ==
    LET o == hop[h] IN
    /\ Step(h, "begin", "created")
    /\ opState[o] = "absent"
    /\ opState' = [opState EXCEPT ![o] = "queued"]
    /\ opHash' = [opHash EXCEPT ![o] = hreq[h]]
    /\ UNCHANGED <<opWrite, devState, devWrite, siteMu, local, history>>

\* The row exists.  Another request under the same id is a conflict, which
\* answers for itself; the same request gets the recorded receipt, and a
\* terminal receipt's write_state with it.
BeginReplays(h) ==
    LET o == hop[h] IN
    /\ Step(h, "begin", "idle")
    /\ opState[o] # "absent"
    /\ IF opHash[o] = hreq[h] /\ opState[o] \in Terminal
       THEN Answer(h, opWrite[o]) ELSE UNCHANGED refused
    /\ Return(h)
    /\ UNCHANGED <<durable, wrote, runs, stranded>>

\* "could not record the apply operation; nothing was written", write_state
\* "none", without having read whether the operation exists.
BeginFails(h) ==
    /\ Step(h, "begin", "idle")
    /\ Return(h)
    /\ UNCHANGED <<durable, history>>

\* No preview token, no provisioner, shutdown or cancellation while waiting for
\* siteMu.
RefuseWaiting(h) ==
    /\ Step(h, "created", "reject")
    /\ result' = [result EXCEPT ![h] = "none"]
    /\ UNCHANGED <<durable, siteMu, hop, hreq, todo, cur, boundary, changed, history>>

\* MarkApplyOperationRunning failed: "nothing was written".
MarkRunningFails(h) ==
    /\ Step(h, "locked", "reject")
    /\ result' = [result EXCEPT ![h] = "none"]
    /\ UNCHANGED <<durable, siteMu, hop, hreq, todo, cur, boundary, changed, history>>

LockSite(h) ==
    /\ Step(h, "created", "locked")
    /\ siteMu = None
    /\ siteMu' = h
    /\ UNCHANGED <<durable, local, history>>

\* MarkApplyOperationRunning: compare-and-set from queued, then ApplySite.
MarkRunning(h) ==
    LET o == hop[h] IN
    /\ Step(h, "locked", "preflight")
    /\ opState[o] = "queued"
    /\ opState' = [opState EXCEPT ![o] = "running"]
    /\ runs' = [runs EXCEPT ![o] = @ + 1]
    /\ UNCHANGED <<opWrite, opHash, devState, devWrite, siteMu, local, wrote,
                   refused, stranded>>

\* ApplySite returns an error before it initializes the device rows: stale
\* token, invalid site, missing acknowledgment, or the store failed.
PreflightFails(h) ==
    /\ Step(h, "preflight", "reject")
    /\ result' = [result EXCEPT ![h] = "possible"]
    /\ UNCHANGED <<durable, siteMu, hop, hreq, todo, cur, boundary, changed, history>>

\* InitializeApplyOperationDevices: the whole selected fleet, before any device.
InitializeDevices(h, fleet) ==
    LET o == hop[h] IN
    /\ Step(h, "preflight", "fleet")
    /\ opState[o] = "running"
    /\ \A d \in Device : devState[o][d] = "absent"
    /\ devState' = [devState EXCEPT ![o] =
                      [d \in Device |-> IF d \in fleet THEN "queued" ELSE "absent"]]
    /\ todo' = [todo EXCEPT ![h] = fleet]
    /\ result' = [result EXCEPT ![h] = "completed"]
    /\ UNCHANGED <<opState, opWrite, opHash, devWrite, siteMu, hop, hreq, cur,
                   boundary, changed, history>>

----------------------------------------------------------------------------
(* ApplySite's loop and applyDeviceBoundOperation                          *)

StartDevice(h, d) ==
    /\ Step(h, "fleet", "device")
    /\ d \in todo[h]
    /\ todo' = [todo EXCEPT ![h] = @ \ {d}]
    /\ cur' = [cur EXCEPT ![h] = d]
    /\ boundary' = [boundary EXCEPT ![h] = FALSE]
    /\ UNCHANGED <<durable, siteMu, hop, hreq, changed, result, history>>

\* The budget is too short for one more device, or the device is not
\* configurable: the run aborts without a device receipt.
StopFleet(h) ==
    /\ Step(h, "fleet", "finish")
    /\ todo[h] # {}
    /\ result' = [result EXCEPT ![h] = "failed"]
    /\ UNCHANGED <<durable, siteMu, hop, hreq, todo, cur, boundary, changed, history>>

EndFleet(h) ==
    /\ Step(h, "fleet", "finish")
    /\ todo[h] = {}
    /\ UNCHANGED <<durable, siteMu, local, history>>

\* The device is refused before its write boundary (gate, identity, stale plan,
\* unreachable, boundary not persisted); or its plan is empty and only runtime
\* health is checked.
NoBoundary(h, outcome, planned) ==
    /\ Step(h, "device", "record")
    /\ outcome = "completed" => ~planned
    /\ result' = [result EXCEPT ![h] = outcome]
    /\ changed' = [changed EXCEPT ![h] = @ \/ planned]
    /\ UNCHANGED <<durable, siteMu, hop, hreq, todo, cur, boundary, history>>

\* Mutant of CrossBoundary: only the device row is marked.
CrossBoundaryChildOnly(h) ==
    LET o == hop[h] IN
    /\ Step(h, "device", "applying")
    /\ devState[o][cur[h]] = "queued"
    /\ devState' = [devState EXCEPT ![o][cur[h]] = "applying"]
    /\ devWrite' = [devWrite EXCEPT ![o][cur[h]] = "possible"]
    /\ boundary' = [boundary EXCEPT ![h] = TRUE]
    /\ changed' = [changed EXCEPT ![h] = TRUE]
    /\ UNCHANGED <<opState, opWrite, opHash, siteMu, hop, hreq, todo, cur, result,
                   history>>

\* MarkApplyOperationDeviceApplying: parent and child in one transaction.
CrossBoundary(h) ==
    LET o == hop[h] IN
    /\ Step(h, "device", "applying")
    /\ opState[o] = "running"
    /\ devState[o][cur[h]] = "queued"
    /\ opWrite' = [opWrite EXCEPT ![o] = "possible"]
    /\ devState' = [devState EXCEPT ![o][cur[h]] = "applying"]
    /\ devWrite' = [devWrite EXCEPT ![o][cur[h]] = "possible"]
    /\ boundary' = [boundary EXCEPT ![h] = TRUE]
    /\ changed' = [changed EXCEPT ![h] = TRUE]
    /\ UNCHANGED <<opState, opHash, siteMu, hop, hreq, todo, cur, result, history>>

\* reconcile.Apply reaches the router.
RouterWrite(h) ==
    /\ Step(h, "applying", "written")
    /\ wrote' = wrote \cup {<<hop[h], cur[h]>>}
    /\ UNCHANGED <<durable, siteMu, local, runs, refused, stranded>>

\* reconcile.Apply returns, having written or having refused first.
RouterReturns(h, outcome) ==
    /\ \/ Step(h, "written", "record")
       \/ Step(h, "applying", "record") /\ outcome = "failed"
    /\ result' = [result EXCEPT ![h] = outcome]
    /\ UNCHANGED <<durable, siteMu, hop, hreq, todo, cur, boundary, changed, history>>

\* The loop goes on after an applied device, else the run is over; a stale
\* preview on the first device makes ApplySite itself fail.
AfterDevice(h, outcome) ==
    \/ /\ outcome = "completed"
       /\ Step(h, "record", "fleet")
       /\ result' = [result EXCEPT ![h] = outcome]
    \/ /\ outcome = "failed"
       /\ \/ /\ Step(h, "record", "finish")
             /\ result' = [result EXCEPT ![h] = outcome]
          \/ /\ ~boundary[h]
             /\ \A d \in Device \ {cur[h]} : devState[hop[h]][d] \in {"absent", "queued"}
             /\ Step(h, "record", "reject")
             /\ result' = [result EXCEPT ![h] = "possible"]

\* FinishApplyOperationDevice: from applying past the boundary, else from
\* queued.
RecordDevice(h) ==
    LET o == hop[h]
        from == IF boundary[h] THEN "applying" ELSE "queued" IN
    /\ AfterDevice(h, result[h])
    /\ devState[o][cur[h]] = from
    /\ devState' = [devState EXCEPT ![o][cur[h]] = result[h]]
    /\ devWrite' = [devWrite EXCEPT ![o][cur[h]] =
                      IF boundary[h] THEN "possible" ELSE "none"]
    /\ UNCHANGED <<opState, opWrite, opHash, siteMu, hop, hreq, todo, cur,
                   boundary, changed, history>>

\* The device receipt could not be written: the device counts as failed.
RecordDeviceFails(h) ==
    /\ Step(h, "record", "finish")
    /\ result' = [result EXCEPT ![h] = "failed"]
    /\ UNCHANGED <<durable, siteMu, hop, hreq, todo, cur, boundary, changed, history>>

----------------------------------------------------------------------------
(* The terminal receipt                                                    *)

\* applyOperationWriteState: the recorded boundary wins over the fallback.
WriteState(o, fallback) == IF opWrite[o] = "possible" THEN "possible" ELSE fallback

\* Mutant of FinishOperation: devices that are still applying are not counted.
FinishOverApplying(o, state, write) ==
    /\ opState[o] \in Unfinished
    /\ opState' = [opState EXCEPT ![o] = state]
    /\ opWrite' = [opWrite EXCEPT ![o] = IF @ = "possible" THEN "possible" ELSE write]
    /\ devState' = [devState EXCEPT ![o] =
         [d \in Device |-> IF @[d] = "queued" THEN "skipped" ELSE @[d]]]
    /\ UNCHANGED <<opHash, devWrite>>

\* FinishApplyOperation: skip what was never started, refuse while a device is
\* applying, keep a possible write possible.
FinishOperation(o, state, write) ==
    /\ \A d \in Device : devState[o][d] # "applying"
    /\ opState[o] \in Unfinished
    /\ opState' = [opState EXCEPT ![o] = state]
    /\ opWrite' = [opWrite EXCEPT ![o] = IF @ = "possible" THEN "possible" ELSE write]
    /\ devState' = [devState EXCEPT ![o] =
         [d \in Device |-> IF @[d] = "queued" THEN "skipped" ELSE @[d]]]
    /\ UNCHANGED <<opHash, devWrite>>

\* The run ended: read the recorded boundary (an unreadable receipt counts as
\* possible) and record the result.
Finish(h, readable) ==
    LET o == hop[h]
        fallback == IF changed[h] THEN "possible" ELSE "none"
        write == IF readable THEN WriteState(o, fallback) ELSE "possible" IN
    /\ Step(h, "finish", "idle")
    /\ FinishOperation(o, result[h], write)
    /\ Return(h)
    /\ UNCHANGED history

\* rejectApplyOperation: answer with the write state it recorded.  result holds
\* the caller's fallback for an unreadable receipt.
Reject(h, readable) ==
    LET o == hop[h]
        write == IF readable THEN WriteState(o, "none") ELSE result[h] IN
    /\ Step(h, "reject", "idle")
    /\ FinishOperation(o, "failed", write)
    /\ Answer(h, write)
    /\ Return(h)
    /\ UNCHANGED <<wrote, runs, stranded>>

\* FinishApplyOperation failed, in the store or on an applying device.  A
\* completed run answers "possible", a rejected one the state it read.
TerminalWriteFails(h, readable) ==
    LET write == IF readable THEN WriteState(hop[h], "none") ELSE result[h] IN
    /\ \/ Step(h, "finish", "interrupt") /\ result' = [result EXCEPT ![h] = "possible"]
       \/ Step(h, "reject", "interrupt") /\ result' = [result EXCEPT ![h] = write]
    /\ UNCHANGED <<durable, siteMu, hop, hreq, todo, cur, boundary, changed, history>>

\* InterruptApplyOperation's effect on one operation, which recovery shares.
Interrupted(o) ==
    [d \in Device |-> CASE devState[o][d] = "queued" -> "skipped"
                        [] devState[o][d] = "applying" -> "unknown"
                        [] OTHER -> devState[o][d]]

InterruptedWrite(o) ==
    [d \in Device |-> CASE devState[o][d] = "queued" -> "none"
                        [] devState[o][d] = "applying" -> "possible"
                        [] OTHER -> devWrite[o][d]]

Interrupt(h) ==
    LET o == hop[h] IN
    /\ Step(h, "interrupt", "idle")
    /\ opState[o] \in Unfinished
    /\ opState' = [opState EXCEPT ![o] = "unknown"]
    /\ opWrite' = [opWrite EXCEPT ![o] = WriteState(o, "none")]
    /\ devState' = [devState EXCEPT ![o] = Interrupted(o)]
    /\ devWrite' = [devWrite EXCEPT ![o] = InterruptedWrite(o)]
    /\ Answer(h, result[h])
    /\ Return(h)
    /\ UNCHANGED <<opHash, wrote, runs, stranded>>

\* The interruption could not be stored either: logged, left to recovery.
InterruptFails(h) ==
    /\ Step(h, "interrupt", "idle")
    /\ stranded' = stranded \cup {hop[h]}
    /\ Answer(h, result[h])
    /\ Return(h)
    /\ UNCHANGED <<durable, wrote, runs>>

----------------------------------------------------------------------------
(* Crash and startup                                                       *)

Crash ==
    /\ up
    /\ up' = FALSE
    /\ siteMu' = None
    /\ pc' = [h \in Handler |-> "idle"]
    /\ hop' = [h \in Handler |-> None]
    /\ hreq' = [h \in Handler |-> None]
    /\ todo' = [h \in Handler |-> {}]
    /\ cur' = [h \in Handler |-> None]
    /\ boundary' = [h \in Handler |-> FALSE]
    /\ changed' = [h \in Handler |-> FALSE]
    /\ result' = [h \in Handler |-> "none"]
    /\ UNCHANGED <<durable, history>>

\* RecoverApplyOperations: one transaction over every unfinished operation; a
\* queued one never reached a device, a running one keeps its write state.
RecoverApplyOperations ==
    LET open == {o \in Op : opState[o] \in Unfinished} IN
    /\ opState' = [o \in Op |-> IF o \in open THEN "unknown" ELSE opState[o]]
    /\ opWrite' = [o \in Op |-> IF opState[o] = "queued" THEN "none" ELSE opWrite[o]]
    /\ devState' = [o \in Op |-> IF o \in open THEN Interrupted(o) ELSE devState[o]]
    /\ devWrite' = [o \in Op |-> IF o \in open THEN InterruptedWrite(o) ELSE devWrite[o]]
    /\ UNCHANGED opHash

\* Startup serves nothing before the recovery committed.
Restart ==
    /\ ~up
    /\ up' = TRUE
    /\ RecoverApplyOperations
    /\ stranded' = {}
    /\ UNCHANGED <<siteMu, pc, local, wrote, runs, refused>>

----------------------------------------------------------------------------

HandlerStep(h) ==
    \/ BeginCreates(h) \/ BeginReplays(h) \/ BeginFails(h)
    \/ MarkRunning(h) \/ MarkRunningFails(h) \/ PreflightFails(h)
    \/ \E fleet \in SUBSET Device : InitializeDevices(h, fleet)
    \/ \E d \in Device : StartDevice(h, d)
    \/ StopFleet(h) \/ EndFleet(h)
    \/ \E outcome \in {"completed", "failed"}, planned \in BOOLEAN :
         NoBoundary(h, outcome, planned)
    \/ CrossBoundary(h) \/ RouterWrite(h)
    \/ \E outcome \in {"completed", "failed"} : RouterReturns(h, outcome)
    \/ RecordDevice(h) \/ RecordDeviceFails(h)
    \/ \E readable \in BOOLEAN :
         Finish(h, readable) \/ Reject(h, readable) \/ TerminalWriteFails(h, readable)
    \/ Interrupt(h) \/ InterruptFails(h)

Next ==
    \/ \E h \in Handler :
         \/ \E o \in Op, r \in Request : Arrive(h, o, r)
         \/ RefuseWaiting(h)
         \/ LockSite(h)
         \/ HandlerStep(h)
    \/ Crash
    \/ Restart

Spec == Init /\ [][Next]_vars

\* An admitted apply runs detached from its request under a deadline, siteMu's
\* channel serves waiters in turn, and a stopped controller is started again.
Fairness ==
    /\ \A h \in Handler : WF_vars(HandlerStep(h)) /\ SF_vars(LockSite(h))
    /\ WF_vars(Restart)

FairSpec == Spec /\ Fairness

----------------------------------------------------------------------------
(* Properties                                                              *)

\* A router is only ever written behind its durable write boundary: whatever
\* fails or crashes afterwards, neither the device row nor the operation row of
\* a written router ever reads "none" (MarkApplyOperationDeviceApplying).
WritesAreRecorded ==
    \A o \in Op, d \in Device : <<o, d>> \in wrote =>
        opWrite[o] = "possible" /\ devWrite[o][d] = "possible"

\* An answer with write_state "none" that was read from the receipt is a
\* definite refusal: no router was or will be written under that operation id
\* (docs/UI-SPEC.md: it "may be shown as a definite refusal").
RefusalIsFinal ==
    \A o \in refused, d \in Device : <<o, d>> \notin wrote

\* An operation id runs at most once, over client retries and restarts: replays
\* return the receipt "instead of repeating device writes"
\* (docs/IMPLEMENTATION.md).
RunsAtMostOnce == \A o \in Op : runs[o] <= 1

\* A terminal operation has no open device row, and device rows agree with the
\* operation about possible writes, although the three are written by separate
\* transactions that may each fail.
ReceiptsAgree ==
    \A o \in Op :
        /\ opState[o] \in Terminal =>
             \A d \in Device : devState[o][d] \in {"absent"} \cup DeviceTerminal
        /\ (\E d \in Device : devWrite[o][d] = "possible") => opWrite[o] = "possible"
        /\ \A d \in Device : devState[o][d] \in {"applying", "unknown"} =>
             devWrite[o][d] = "possible"

\* While the controller runs, an unfinished operation is driven by a live
\* handler, unless both of its terminal writes failed in this process:
\* RecoverApplyOperations leaves none from the last one.
NoOrphanedOperation ==
    up => \A o \in Op \ stranded : opState[o] \in Unfinished =>
            \E h \in Handler : pc[h] \in Owning /\ hop[h] = o

\* A terminal receipt is history: no later request, retry or recovery changes it.
TerminalIsForever ==
    [][\A o \in Op : opState[o] \in Terminal =>
         /\ opState'[o] = opState[o] /\ opWrite'[o] = opWrite[o]
         /\ devState'[o] = devState[o] /\ devWrite'[o] = devWrite[o]]_vars

\* Every operation that was accepted reaches a terminal receipt or is left, by
\* two failed writes, for the next start.
EveryOperationEnds ==
    \A o \in Op : (opState[o] \in Unfinished) ~> (opState[o] \in Terminal \/ o \in stranded)

==============================================================================
