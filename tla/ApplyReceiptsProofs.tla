-------------------------- MODULE ApplyReceiptsProofs --------------------------
(***************************************************************************)
(* Proofs about the two halves of an apply: ApplyReceipts, the rows that   *)
(* record it, for any number of operations, devices and concurrent         *)
(* requests, every store failure and every crash; and Provision, what is   *)
(* previewed, planned and written, for any sites, devices, probes and      *)
(* router configurations.                                                  *)
(***************************************************************************)
EXTENDS ApplyReceipts, Provision, TLAPS

InDevice == {"device", "applying", "written", "record"}

\* An unfinished operation has one owner at most: the request that inserted its
\* row, in a process that has not crashed since.
OwnInv ==
    /\ \A h \in Handler :
         /\ pc[h] # "idle" => up /\ hop[h] \in Op
         /\ pc[h] \in {"created", "locked"} => opState[hop[h]] = "queued"
         /\ pc[h] \in Running => opState[hop[h]] = "running"
         /\ pc[h] \in Owning => opState[hop[h]] \in Unfinished
    /\ \A g, h \in Handler :
         pc[g] \in Owning /\ pc[h] \in Owning /\ hop[g] = hop[h] => g = h

\* What the rows of an operation say about each other and about the routers.
RowInv ==
    /\ \A o \in Op :
         /\ opState[o] \in {"absent", "queued"} => opWrite[o] = "null" /\ runs[o] = 0
         /\ runs[o] <= 1
    /\ \A o \in Op, d \in Device :
         /\ opState[o] \in {"absent", "queued"} => devState[o][d] = "absent"
         /\ opState[o] \in Terminal => devState[o][d] \notin {"queued", "applying"}
         /\ devState[o][d] \in {"absent", "queued"} => devWrite[o][d] = "none"
         /\ devState[o][d] \in {"applying", "unknown"} => devWrite[o][d] = "possible"
         /\ devWrite[o][d] = "possible" => opWrite[o] = "possible"
         /\ <<o, d>> \in wrote => devWrite[o][d] = "possible"

\* A request is past the boundary only with its device's row applying, and the
\* result it carries fits what it is about to record.
RunInv ==
    \A h \in Handler :
        /\ pc[h] \in InDevice => cur[h] \in Device
        /\ pc[h] \in {"applying", "written"} => devState[hop[h]][cur[h]] = "applying"
        /\ pc[h] \in {"fleet", "finish"} => result[h] \in {"completed", "failed"}
        /\ pc[h] \in {"reject", "interrupt"} => result[h] \in {"none", "possible"}
        /\ pc[h] \in {"reject", "interrupt"} /\ result[h] = "none" =>
             opWrite[hop[h]] # "possible"

\* A refused operation was never written and nobody is left to write it.
RefuseInv ==
    \A o \in refused :
        /\ opState[o] # "absent"
        /\ \A d \in Device : <<o, d>> \notin wrote
        /\ \A h \in Handler : pc[h] \in Owning => hop[h] # o

IndInv == TypeOK /\ OwnInv /\ RowInv /\ RunInv /\ RefuseInv /\ NoOrphanedOperation

\* A request that moves from one owning point to another orphans nothing.
LEMMA OwnerStays ==
    ASSUME TypeOK, NoOrphanedOperation, NEW h \in Handler, NEW to \in Owning,
           pc[h] \in Owning, pc' = [pc EXCEPT ![h] = to], up' = up,
           opState' = opState, hop' = hop, stranded' = stranded
    PROVE  NoOrphanedOperation'
<1>1. \A g \in Handler : pc[g] \in Owning => pc'[g] \in Owning
  BY DEF TypeOK
<1> QED  BY <1>1 DEF NoOrphanedOperation

\* A request names an operation it does not own yet.
LEMMA ArriveStep ==
    ASSUME IndInv, NEW h \in Handler, NEW o \in Op, NEW r \in Request, Arrive(h, o,
           r)
    PROVE  IndInv'
<1> USE ReceiptConstants DEF IndInv, Arrive, Step, durable, local, history
<1>1. TypeOK'
  BY DEF TypeOK, States, Owning, Running
<1>2. OwnInv'
  BY DEF TypeOK, OwnInv, Owning, Running, Unfinished
<1>3. RowInv'
  BY DEF RowInv
<1>4. RunInv'
  BY DEF TypeOK, OwnInv, RunInv, InDevice, Owning, Running
<1>5. RefuseInv'
  BY DEF TypeOK, RefuseInv, Owning, Running
<1>6. NoOrphanedOperation'
  BY DEF TypeOK, NoOrphanedOperation, Owning, Running
<1> QED  BY <1>1, <1>2, <1>3, <1>4, <1>5, <1>6

\* BeginApplyOperation makes the request the only owner: the row was absent.
LEMMA BeginCreatesStep ==
    ASSUME IndInv, NEW h \in Handler, BeginCreates(h)
    PROVE  IndInv'
<1> USE ReceiptConstants DEF IndInv, BeginCreates, Step, durable, local, history
<1>1. TypeOK'
  BY DEF TypeOK, OwnInv, RunInv, OpStates, DeviceStates, DeviceTerminal, Terminal,
     Unfinished, States, Owning, Running
<1>2. OwnInv'
  BY DEF TypeOK, OwnInv, Owning, Running, Unfinished
<1>3. RowInv'
  BY DEF TypeOK, OwnInv, RowInv, RunInv, Owning, Running, Unfinished, Terminal
<1>4. RunInv'
  BY DEF TypeOK, OwnInv, RowInv, RunInv, InDevice, Owning, Running, Unfinished
<1>5. RefuseInv'
  BY DEF TypeOK, OwnInv, RowInv, RunInv, RefuseInv, Owning, Running, Unfinished, Terminal
<1>6. NoOrphanedOperation'
  BY DEF TypeOK, OwnInv, NoOrphanedOperation, Owning, Running, Unfinished, Terminal
<1> QED  BY <1>1, <1>2, <1>3, <1>4, <1>5, <1>6

\* A replay answers from a row that somebody else has finished or still owns.
LEMMA BeginReplaysStep ==
    ASSUME IndInv, NEW h \in Handler, BeginReplays(h)
    PROVE  IndInv'
<1> USE ReceiptConstants DEF IndInv, BeginReplays, Step, durable, local, history,
        Return, Answer
<1>1. TypeOK'
  BY DEF TypeOK, OwnInv, RunInv, OpStates, DeviceStates, DeviceTerminal, Terminal,
     Unfinished, States, Owning, Running
<1>2. OwnInv'
  BY DEF TypeOK, OwnInv, Owning, Running, Unfinished
<1>3. RowInv'
  BY DEF TypeOK, OwnInv, RowInv, RunInv, Owning, Running, Unfinished, Terminal
<1>4. RunInv'
  BY DEF TypeOK, OwnInv, RowInv, RunInv, InDevice, Owning, Running, Unfinished
<1>5. RefuseInv'
  BY DEF TypeOK, OwnInv, RowInv, RunInv, RefuseInv, Owning, Running, Unfinished, Terminal
<1>6. NoOrphanedOperation'
  BY DEF TypeOK, OwnInv, NoOrphanedOperation, Owning, Running, Unfinished, Terminal
<1> QED  BY <1>1, <1>2, <1>3, <1>4, <1>5, <1>6

\* A request that could not read the receipt leaves no trace.
LEMMA BeginFailsStep ==
    ASSUME IndInv, NEW h \in Handler, BeginFails(h)
    PROVE  IndInv'
<1> USE ReceiptConstants DEF IndInv, BeginFails, Step, durable, local, history, Return
<1>1. TypeOK'
  BY DEF TypeOK, States, Owning, Running
<1>2. OwnInv'
  BY DEF TypeOK, OwnInv, Owning, Running, Unfinished
<1>3. RowInv'
  BY DEF RowInv
<1>4. RunInv'
  BY DEF TypeOK, OwnInv, RunInv, InDevice, Owning, Running
<1>5. RefuseInv'
  BY DEF TypeOK, RefuseInv, Owning, Running
<1>6. NoOrphanedOperation'
  BY DEF TypeOK, NoOrphanedOperation, Owning, Running
<1> QED  BY <1>1, <1>2, <1>3, <1>4, <1>5, <1>6

\* A refusal before the run: the row is still queued, so nothing was written.
LEMMA RefuseWaitingStep ==
    ASSUME IndInv, NEW h \in Handler, RefuseWaiting(h)
    PROVE  IndInv'
<1> USE ReceiptConstants DEF IndInv, RefuseWaiting, Step, durable, local, history
<1>1. TypeOK'
  BY DEF TypeOK, States, Owning, Running
<1>2. OwnInv'
  BY DEF TypeOK, OwnInv, Owning, Running, Unfinished
<1>3. RowInv'
  BY DEF RowInv
<1>4. RunInv'
  BY DEF TypeOK, OwnInv, RowInv, RunInv, InDevice
<1>5. RefuseInv'
  BY DEF TypeOK, RefuseInv, Owning, Running
<1>6. NoOrphanedOperation'
  BY OwnerStays DEF Owning, Running
<1> QED  BY <1>1, <1>2, <1>3, <1>4, <1>5, <1>6

\* The row stayed queued, so nothing was written.
LEMMA MarkRunningFailsStep ==
    ASSUME IndInv, NEW h \in Handler, MarkRunningFails(h)
    PROVE  IndInv'
<1> USE ReceiptConstants DEF IndInv, MarkRunningFails, Step, durable, local, history
<1>1. TypeOK'
  BY DEF TypeOK, States, Owning, Running
<1>2. OwnInv'
  BY DEF TypeOK, OwnInv, Owning, Running, Unfinished
<1>3. RowInv'
  BY DEF RowInv
<1>4. RunInv'
  BY DEF TypeOK, OwnInv, RowInv, RunInv, InDevice
<1>5. RefuseInv'
  BY DEF TypeOK, RefuseInv, Owning, Running
<1>6. NoOrphanedOperation'
  BY OwnerStays DEF Owning, Running
<1> QED  BY <1>1, <1>2, <1>3, <1>4, <1>5, <1>6

\* The site mutex does not touch the receipts.
LEMMA LockSiteStep ==
    ASSUME IndInv, NEW h \in Handler, LockSite(h)
    PROVE  IndInv'
<1> USE ReceiptConstants DEF IndInv, LockSite, Step, durable, local, history
<1>1. TypeOK'
  BY DEF TypeOK, States, Owning, Running
<1>2. OwnInv'
  BY DEF TypeOK, OwnInv, Owning, Running, Unfinished
<1>3. RowInv'
  BY DEF RowInv
<1>4. RunInv'
  BY DEF TypeOK, OwnInv, RunInv, InDevice, Owning, Running
<1>5. RefuseInv'
  BY DEF TypeOK, RefuseInv, Owning, Running
<1>6. NoOrphanedOperation'
  BY OwnerStays DEF Owning, Running
<1> QED  BY <1>1, <1>2, <1>3, <1>4, <1>5, <1>6

\* The compare-and-set from queued makes this the first run.
LEMMA MarkRunningStep ==
    ASSUME IndInv, NEW h \in Handler, MarkRunning(h)
    PROVE  IndInv'
<1> USE ReceiptConstants DEF IndInv, MarkRunning, Step, durable, local, history
<1>1. TypeOK'
  BY DEF TypeOK, OwnInv, RunInv, OpStates, DeviceStates, DeviceTerminal, Terminal,
     Unfinished, States, Owning, Running
<1>2. OwnInv'
  BY DEF TypeOK, OwnInv, Owning, Running, Unfinished
<1>3. RowInv'
  BY DEF TypeOK, OwnInv, RowInv, RunInv, Owning, Running, Unfinished, Terminal
<1>4. RunInv'
  BY DEF TypeOK, OwnInv, RowInv, RunInv, InDevice, Owning, Running, Unfinished
<1>5. RefuseInv'
  BY DEF TypeOK, OwnInv, RowInv, RunInv, RefuseInv, Owning, Running, Unfinished, Terminal
<1>6. NoOrphanedOperation'
  BY DEF TypeOK, OwnInv, NoOrphanedOperation, Owning, Running, Unfinished, Terminal
<1> QED  BY <1>1, <1>2, <1>3, <1>4, <1>5, <1>6

\* The request keeps its operation until it is rejected.
LEMMA PreflightFailsStep ==
    ASSUME IndInv, NEW h \in Handler, PreflightFails(h)
    PROVE  IndInv'
<1> USE ReceiptConstants DEF IndInv, PreflightFails, Step, durable, local, history
<1>1. TypeOK'
  BY DEF TypeOK, States, Owning, Running
<1>2. OwnInv'
  BY DEF TypeOK, OwnInv, Owning, Running, Unfinished
<1>3. RowInv'
  BY DEF RowInv
<1>4. RunInv'
  BY DEF TypeOK, OwnInv, RunInv, InDevice, Owning, Running
<1>5. RefuseInv'
  BY DEF TypeOK, RefuseInv, Owning, Running
<1>6. NoOrphanedOperation'
  BY OwnerStays DEF Owning, Running
<1> QED  BY <1>1, <1>2, <1>3, <1>4, <1>5, <1>6

\* Queued device rows claim no write.
LEMMA InitializeDevicesStep ==
    ASSUME IndInv, NEW h \in Handler, NEW fleet \in SUBSET Device,
           InitializeDevices(h, fleet)
    PROVE  IndInv'
<1> USE ReceiptConstants DEF IndInv, InitializeDevices, Step, durable, local, history
<1>1. TypeOK'
  BY DEF TypeOK, OwnInv, RunInv, OpStates, DeviceStates, DeviceTerminal, Terminal,
     Unfinished, States, Owning, Running
<1>2. OwnInv'
  BY DEF TypeOK, OwnInv, Owning, Running, Unfinished
<1>3. RowInv'
  BY DEF TypeOK, OwnInv, RowInv, RunInv, Owning, Running, Unfinished, Terminal
<1>4. RunInv'
  BY DEF TypeOK, OwnInv, RowInv, RunInv, InDevice, Owning, Running, Unfinished
<1>5. RefuseInv'
  BY DEF TypeOK, OwnInv, RowInv, RunInv, RefuseInv, Owning, Running, Unfinished, Terminal
<1>6. NoOrphanedOperation'
  BY OwnerStays DEF Owning, Running
<1> QED  BY <1>1, <1>2, <1>3, <1>4, <1>5, <1>6

\* The request turns to its next device.
LEMMA StartDeviceStep ==
    ASSUME IndInv, NEW h \in Handler, NEW d \in Device, StartDevice(h, d)
    PROVE  IndInv'
<1> USE ReceiptConstants DEF IndInv, StartDevice, Step, durable, local, history
<1>1. TypeOK'
  BY DEF TypeOK, States, Owning, Running
<1>2. OwnInv'
  BY DEF TypeOK, OwnInv, Owning, Running, Unfinished
<1>3. RowInv'
  BY DEF RowInv
<1>4. RunInv'
  BY DEF TypeOK, OwnInv, RunInv, InDevice, Owning, Running
<1>5. RefuseInv'
  BY DEF TypeOK, RefuseInv, Owning, Running
<1>6. NoOrphanedOperation'
  BY OwnerStays DEF Owning, Running
<1> QED  BY <1>1, <1>2, <1>3, <1>4, <1>5, <1>6

\* The run ends early, with a result the receipt can hold.
LEMMA StopFleetStep ==
    ASSUME IndInv, NEW h \in Handler, StopFleet(h)
    PROVE  IndInv'
<1> USE ReceiptConstants DEF IndInv, StopFleet, Step, durable, local, history
<1>1. TypeOK'
  BY DEF TypeOK, States, Owning, Running
<1>2. OwnInv'
  BY DEF TypeOK, OwnInv, Owning, Running, Unfinished
<1>3. RowInv'
  BY DEF RowInv
<1>4. RunInv'
  BY DEF TypeOK, OwnInv, RunInv, InDevice, Owning, Running
<1>5. RefuseInv'
  BY DEF TypeOK, RefuseInv, Owning, Running
<1>6. NoOrphanedOperation'
  BY OwnerStays DEF Owning, Running
<1> QED  BY <1>1, <1>2, <1>3, <1>4, <1>5, <1>6

\* The run ends with its last device's result.
LEMMA EndFleetStep ==
    ASSUME IndInv, NEW h \in Handler, EndFleet(h)
    PROVE  IndInv'
<1> USE ReceiptConstants DEF IndInv, EndFleet, Step, durable, local, history
<1>1. TypeOK'
  BY DEF TypeOK, States, Owning, Running
<1>2. OwnInv'
  BY DEF TypeOK, OwnInv, Owning, Running, Unfinished
<1>3. RowInv'
  BY DEF RowInv
<1>4. RunInv'
  BY DEF TypeOK, OwnInv, RunInv, InDevice, Owning, Running
<1>5. RefuseInv'
  BY DEF TypeOK, RefuseInv, Owning, Running
<1>6. NoOrphanedOperation'
  BY OwnerStays DEF Owning, Running
<1> QED  BY <1>1, <1>2, <1>3, <1>4, <1>5, <1>6

\* A device that is refused before its boundary.
LEMMA NoBoundaryStep ==
    ASSUME IndInv, NEW h \in Handler, NEW outcome \in {"completed", "failed"}, NEW
           planned \in BOOLEAN, NoBoundary(h, outcome, planned)
    PROVE  IndInv'
<1> USE ReceiptConstants DEF IndInv, NoBoundary, Step, durable, local, history
<1>1. TypeOK'
  BY DEF TypeOK, States, Owning, Running
<1>2. OwnInv'
  BY DEF TypeOK, OwnInv, Owning, Running, Unfinished
<1>3. RowInv'
  BY DEF RowInv
<1>4. RunInv'
  BY DEF TypeOK, OwnInv, RunInv, InDevice, Owning, Running
<1>5. RefuseInv'
  BY DEF TypeOK, RefuseInv, Owning, Running
<1>6. NoOrphanedOperation'
  BY OwnerStays DEF Owning, Running
<1> QED  BY <1>1, <1>2, <1>3, <1>4, <1>5, <1>6

\* Both rows say possible before the router is reached.
LEMMA CrossBoundaryStep ==
    ASSUME IndInv, NEW h \in Handler, CrossBoundary(h)
    PROVE  IndInv'
<1> USE ReceiptConstants DEF IndInv, CrossBoundary, Step, durable, local, history
<1>1. TypeOK'
  BY DEF TypeOK, OwnInv, RunInv, InDevice, DeviceStates, States, Owning, Running
<1>2. OwnInv'
  BY DEF TypeOK, OwnInv, Owning, Running, Unfinished
<1>3. RowInv'
  BY DEF TypeOK, OwnInv, RowInv, RunInv, Owning, Running, Unfinished, Terminal
<1>4. RunInv'
  BY DEF TypeOK, OwnInv, RowInv, RunInv, InDevice, Owning, Running, Unfinished
<1>5. RefuseInv'
  BY DEF TypeOK, OwnInv, RowInv, RunInv, RefuseInv, Owning, Running, Unfinished, Terminal
<1>6. NoOrphanedOperation'
  BY OwnerStays DEF Owning, Running
<1> QED  BY <1>1, <1>2, <1>3, <1>4, <1>5, <1>6

\* The router is written behind its boundary.
LEMMA RouterWriteStep ==
    ASSUME IndInv, NEW h \in Handler, RouterWrite(h)
    PROVE  IndInv'
<1> USE ReceiptConstants DEF IndInv, RouterWrite, Step, durable, local, history
<1>1. TypeOK'
  BY DEF TypeOK, OwnInv, RunInv, InDevice, States, Owning, Running
<1>2. OwnInv'
  BY DEF TypeOK, OwnInv, Owning, Running, Unfinished
<1>3. RowInv'
  BY DEF TypeOK, OwnInv, RowInv, RunInv
<1>4. RunInv'
  BY DEF TypeOK, OwnInv, RowInv, RunInv, InDevice, Owning, Running, Unfinished
<1>5. RefuseInv'
  BY DEF TypeOK, OwnInv, RowInv, RunInv, RefuseInv, Owning, Running, Unfinished, Terminal
<1>6. NoOrphanedOperation'
  BY OwnerStays DEF Owning, Running
<1> QED  BY <1>1, <1>2, <1>3, <1>4, <1>5, <1>6

\* RouterReturns preserves the inductive invariant.
LEMMA RouterReturnsStep ==
    ASSUME IndInv, NEW h \in Handler, NEW outcome \in {"completed", "failed"},
           RouterReturns(h, outcome)
    PROVE  IndInv'
<1> USE ReceiptConstants DEF IndInv, RouterReturns, Step, durable, local, history
<1>1. TypeOK'
  BY DEF TypeOK, States, Owning, Running
<1>2. OwnInv'
  BY DEF TypeOK, OwnInv, Owning, Running, Unfinished
<1>3. RowInv'
  BY DEF RowInv
<1>4. RunInv'
  BY DEF TypeOK, OwnInv, RunInv, InDevice, Owning, Running
<1>5. RefuseInv'
  BY DEF TypeOK, RefuseInv, Owning, Running
<1>6. NoOrphanedOperation'
  <2>1. pc[h] \in Owning /\ pc' = [pc EXCEPT ![h] = "record"] /\ "record" \in Owning
    BY DEF Owning, Running
  <2> QED  BY <2>1, OwnerStays
<1> QED  BY <1>1, <1>2, <1>3, <1>4, <1>5, <1>6

\* RecordDevice preserves the inductive invariant.
LEMMA RecordDeviceStep ==
    ASSUME IndInv, NEW h \in Handler, RecordDevice(h)
    PROVE  IndInv'
<1> USE ReceiptConstants DEF IndInv, durable, local, history
<1>1. PICK to \in {"fleet", "finish", "reject"}, res \in {"completed", "failed", "possible"} :
         /\ up /\ up' = up
         /\ pc[h] = "record" /\ pc' = [pc EXCEPT ![h] = to]
         /\ result' = [result EXCEPT ![h] = res]
         /\ to = "reject" <=> res = "possible"
         /\ result[h] \in {"completed", "failed"}
  BY DEF RecordDevice, AfterDevice, Step
<1>2. /\ devState' = [devState EXCEPT ![hop[h]][cur[h]] = result[h]]
      /\ devWrite' = [devWrite EXCEPT ![hop[h]][cur[h]] =
                        IF boundary[h] THEN "possible" ELSE "none"]
      /\ devState[hop[h]][cur[h]] = IF boundary[h] THEN "applying" ELSE "queued"
      /\ UNCHANGED <<opState, opWrite, opHash, siteMu, hop, hreq, todo, cur, boundary,
                     changed, wrote, runs, refused, stranded>>
  BY DEF RecordDevice
<1>3. hop[h] \in Op /\ cur[h] \in Device /\ opState[hop[h]] = "running"
  BY <1>1 DEF OwnInv, RunInv, InDevice, Running
<1>4. TypeOK'
  BY <1>1, <1>2, <1>3 DEF TypeOK, DeviceStates, DeviceTerminal, States, Owning, Running
<1>5. OwnInv'
  BY <1>1, <1>2 DEF TypeOK, OwnInv, Owning, Running
<1>6. RowInv'
  BY <1>1, <1>2, <1>3 DEF TypeOK, RowInv, Terminal
<1>7. RunInv'
  <2>1. \A g \in Handler \ {h} : pc[g] \in Owning => hop[g] # hop[h]
    BY <1>1 DEF OwnInv, Owning, Running
  <2> QED  BY <1>1, <1>2, <1>3, <2>1 DEF TypeOK, OwnInv, RunInv, InDevice, Owning, Running
<1>8. RefuseInv'
  BY <1>1, <1>2 DEF TypeOK, RefuseInv, Owning, Running
<1>9. NoOrphanedOperation'
  BY <1>1, <1>2, OwnerStays DEF Owning, Running
<1> QED  BY <1>4, <1>5, <1>6, <1>7, <1>8, <1>9

\* The device row stays as the boundary left it.
LEMMA RecordDeviceFailsStep ==
    ASSUME IndInv, NEW h \in Handler, RecordDeviceFails(h)
    PROVE  IndInv'
<1> USE ReceiptConstants DEF IndInv, RecordDeviceFails, Step, durable, local, history
<1>1. TypeOK'
  BY DEF TypeOK, States, Owning, Running
<1>2. OwnInv'
  BY DEF TypeOK, OwnInv, Owning, Running, Unfinished
<1>3. RowInv'
  BY DEF RowInv
<1>4. RunInv'
  BY DEF TypeOK, OwnInv, RunInv, InDevice, Owning, Running
<1>5. RefuseInv'
  BY DEF TypeOK, RefuseInv, Owning, Running
<1>6. NoOrphanedOperation'
  BY OwnerStays DEF Owning, Running
<1> QED  BY <1>1, <1>2, <1>3, <1>4, <1>5, <1>6

\* Finish preserves the inductive invariant.
LEMMA FinishStep ==
    ASSUME IndInv, NEW h \in Handler, NEW readable \in BOOLEAN, Finish(h, readable)
    PROVE  IndInv'
<1> USE ReceiptConstants DEF IndInv, Finish, Step, FinishOperation, WriteState, Return,
        durable, local, history
<1>1. TypeOK'
  BY DEF TypeOK, OwnInv, RunInv, OpStates, DeviceStates, DeviceTerminal, Terminal,
     Unfinished, States, Owning, Running
<1>2. OwnInv'
  BY DEF TypeOK, OwnInv, Owning, Running, Unfinished
<1>3. RowInv'
  BY DEF TypeOK, OwnInv, RowInv, RunInv, Running, Unfinished, Terminal
<1>4. RunInv'
  BY DEF TypeOK, OwnInv, RunInv, InDevice, Owning, Running
<1>5. RefuseInv'
  BY DEF TypeOK, OwnInv, RunInv, RefuseInv, Owning, Running
<1>6. NoOrphanedOperation'
  <2>1. \A g \in Handler \ {h} : pc'[g] = pc[g] /\ hop'[g] = hop[g]
    BY DEF TypeOK
  <2>2. opState'[hop[h]] \notin Unfinished
    BY DEF TypeOK, OwnInv, RunInv, Unfinished
  <2>3. \A o \in Op \ {hop[h]} : opState'[o] = opState[o]
    BY DEF TypeOK
  <2> QED  BY <2>1, <2>2, <2>3 DEF NoOrphanedOperation
<1> QED  BY <1>1, <1>2, <1>3, <1>4, <1>5, <1>6

\* What is refused was not written, and has no owner any more.
LEMMA RejectStep ==
    ASSUME IndInv, NEW h \in Handler, NEW readable \in BOOLEAN, Reject(h, readable)
    PROVE  IndInv'
<1> USE ReceiptConstants DEF IndInv, Reject, Step, durable, local, history,
        FinishOperation, WriteState, Answer, Return
<1>1. TypeOK'
  BY DEF TypeOK, OwnInv, RunInv, OpStates, DeviceStates, DeviceTerminal, Terminal,
     Unfinished, States, Owning, Running
<1>2. OwnInv'
  BY DEF TypeOK, OwnInv, Owning, Running, Unfinished
<1>3. RowInv'
  BY DEF TypeOK, OwnInv, RowInv, RunInv, Owning, Running, Unfinished, Terminal
<1>4. RunInv'
  BY DEF TypeOK, OwnInv, RowInv, RunInv, InDevice, Owning, Running, Unfinished
<1>5. RefuseInv'
  BY DEF TypeOK, OwnInv, RowInv, RunInv, RefuseInv, Owning, Running, Unfinished, Terminal
<1>6. NoOrphanedOperation'
  BY DEF TypeOK, OwnInv, NoOrphanedOperation, Owning, Running, Unfinished, Terminal
<1> QED  BY <1>1, <1>2, <1>3, <1>4, <1>5, <1>6

\* TerminalWriteFails preserves the inductive invariant.
LEMMA TerminalWriteFailsStep ==
    ASSUME IndInv, NEW h \in Handler, NEW readable \in BOOLEAN,
           TerminalWriteFails(h, readable)
    PROVE  IndInv'
<1> USE ReceiptConstants DEF IndInv, durable, local, history
<1>1. PICK res \in {"none", "possible"} :
         /\ up /\ up' = up
         /\ pc[h] \in {"finish", "reject"} /\ pc' = [pc EXCEPT ![h] = "interrupt"]
         /\ result' = [result EXCEPT ![h] = res]
         /\ res = "none" => opWrite[hop[h]] # "possible"
  BY DEF TerminalWriteFails, Step, WriteState, RunInv
<1>2. UNCHANGED <<durable, siteMu, hop, hreq, todo, cur, boundary, changed, history>>
  BY DEF TerminalWriteFails
<1>3. TypeOK'
  BY <1>1, <1>2 DEF TypeOK, States, Owning, Running
<1>4. OwnInv'
  BY <1>1, <1>2 DEF TypeOK, OwnInv, Owning, Running, Unfinished
<1>5. RowInv'
  BY <1>2 DEF RowInv
<1>6. RunInv'
  BY <1>1, <1>2 DEF TypeOK, RunInv, InDevice
<1>7. RefuseInv'
  BY <1>1, <1>2 DEF TypeOK, RefuseInv, Owning, Running
<1>8. NoOrphanedOperation'
  BY <1>1, <1>2, OwnerStays DEF Owning, Running
<1> QED  BY <1>3, <1>4, <1>5, <1>6, <1>7, <1>8

\* Open device rows close as skipped or unknown.
LEMMA InterruptStep ==
    ASSUME IndInv, NEW h \in Handler, Interrupt(h)
    PROVE  IndInv'
<1> USE ReceiptConstants DEF IndInv, Interrupt, Step, durable, local, history,
        Interrupted, InterruptedWrite, WriteState, Answer, Return
<1>1. TypeOK'
  BY DEF TypeOK, OwnInv, RunInv, OpStates, DeviceStates, DeviceTerminal, Terminal,
     Unfinished, States, Owning, Running
<1>2. OwnInv'
  BY DEF TypeOK, OwnInv, Owning, Running, Unfinished
<1>3. RowInv'
  BY DEF TypeOK, OwnInv, RowInv, RunInv, Owning, Running, Unfinished, Terminal
<1>4. RunInv'
  BY DEF TypeOK, OwnInv, RowInv, RunInv, InDevice, Owning, Running, Unfinished
<1>5. RefuseInv'
  BY DEF TypeOK, OwnInv, RowInv, RunInv, RefuseInv, Owning, Running, Unfinished, Terminal
<1>6. NoOrphanedOperation'
  BY DEF TypeOK, OwnInv, NoOrphanedOperation, Owning, Running, Unfinished, Terminal
<1> QED  BY <1>1, <1>2, <1>3, <1>4, <1>5, <1>6

\* The operation is left to the next start, without an owner.
LEMMA InterruptFailsStep ==
    ASSUME IndInv, NEW h \in Handler, InterruptFails(h)
    PROVE  IndInv'
<1> USE ReceiptConstants DEF IndInv, InterruptFails, Step, durable, local, history,
        Answer, Return
<1>1. TypeOK'
  BY DEF TypeOK, OwnInv, RunInv, OpStates, DeviceStates, DeviceTerminal, Terminal,
     Unfinished, States, Owning, Running
<1>2. OwnInv'
  BY DEF TypeOK, OwnInv, Owning, Running, Unfinished
<1>3. RowInv'
  BY DEF TypeOK, OwnInv, RowInv, RunInv, Owning, Running, Unfinished, Terminal
<1>4. RunInv'
  BY DEF TypeOK, OwnInv, RowInv, RunInv, InDevice, Owning, Running, Unfinished
<1>5. RefuseInv'
  BY DEF TypeOK, OwnInv, RowInv, RunInv, RefuseInv, Owning, Running, Unfinished, Terminal
<1>6. NoOrphanedOperation'
  BY DEF TypeOK, OwnInv, NoOrphanedOperation, Owning, Running, Unfinished, Terminal
<1> QED  BY <1>1, <1>2, <1>3, <1>4, <1>5, <1>6

\* A crash loses every request; the rows are left as they are.
LEMMA CrashStep ==
    ASSUME IndInv, Crash
    PROVE  IndInv'
<1> USE ReceiptConstants DEF IndInv, Crash, durable, history
<1>1. TypeOK'
  BY DEF TypeOK, States
<1>2. OwnInv' /\ RunInv' /\ NoOrphanedOperation'
  BY DEF OwnInv, RunInv, InDevice, NoOrphanedOperation, Owning, Running
<1>3. RowInv' /\ RefuseInv'
  BY DEF RowInv, RefuseInv, Owning, Running
<1> QED  BY <1>1, <1>2, <1>3

\* Recovery finds no request alive and leaves no operation unfinished.
LEMMA RestartStep ==
    ASSUME IndInv, Restart
    PROVE  IndInv'
<1> USE ReceiptConstants DEF IndInv, Restart, RecoverApplyOperations, local
<1>1. \A h \in Handler : pc[h] = "idle" /\ pc'[h] = "idle"
  BY DEF OwnInv
<1>2. TypeOK'
  BY DEF TypeOK, Interrupted, InterruptedWrite, OpStates, DeviceStates, DeviceTerminal,
     Terminal
<1>3. \A o \in Op : opState'[o] \notin Unfinished
  BY DEF TypeOK, Unfinished
<1>4. OwnInv' /\ RunInv' /\ NoOrphanedOperation'
  BY <1>1, <1>3 DEF OwnInv, RunInv, InDevice, NoOrphanedOperation, Owning, Running
<1>5. RowInv'
  BY DEF TypeOK, RowInv, Interrupted, InterruptedWrite, Unfinished, Terminal
<1>6. RefuseInv'
  BY <1>1 DEF TypeOK, RefuseInv, Owning, Running, Unfinished
<1> QED  BY <1>2, <1>4, <1>5, <1>6

\* Every step of the specification preserves the inductive invariant.
LEMMA IndInvStep ==
    ASSUME IndInv, [Next]_vars
    PROVE  IndInv'
<1>1. CASE UNCHANGED vars
  BY <1>1 DEF IndInv, TypeOK, OwnInv, RowInv, RunInv, RefuseInv, NoOrphanedOperation,
     vars, durable, local, history
<1>2. ASSUME NEW h \in Handler, HandlerStep(h)
      PROVE  IndInv'
  BY <1>2, BeginCreatesStep, BeginReplaysStep, BeginFailsStep, MarkRunningStep,
     MarkRunningFailsStep, PreflightFailsStep, InitializeDevicesStep, StartDeviceStep,
     StopFleetStep, EndFleetStep, NoBoundaryStep, CrossBoundaryStep, RouterWriteStep,
     RouterReturnsStep, RecordDeviceStep, RecordDeviceFailsStep, FinishStep, RejectStep,
     TerminalWriteFailsStep, InterruptStep, InterruptFailsStep DEF HandlerStep
<1>3. ASSUME NEW h \in Handler, NEW o \in Op, NEW r \in Request, Arrive(h, o, r)
      PROVE  IndInv'
  BY <1>3, ArriveStep
<1>4. ASSUME NEW h \in Handler, RefuseWaiting(h) \/ LockSite(h)
      PROVE  IndInv'
  BY <1>4, RefuseWaitingStep, LockSiteStep
<1> QED  BY <1>1, <1>2, <1>3, <1>4, CrashStep, RestartStep DEF Next

\* The invariant holds before the first request.
LEMMA IndInvInit == Init => IndInv
<1> SUFFICES ASSUME Init PROVE IndInv
  OBVIOUS
<1>1. TypeOK
  BY ReceiptConstants DEF Init, TypeOK, OpStates, DeviceStates, States
<1>2. OwnInv /\ RowInv /\ RunInv /\ RefuseInv /\ NoOrphanedOperation
  BY DEF Init, OwnInv, RowInv, RunInv, InDevice, RefuseInv, NoOrphanedOperation, Owning,
     Running, Unfinished, Terminal
<1> QED  BY <1>1, <1>2 DEF IndInv

\* The invariant holds in every reachable state.
LEMMA IndInvAlways == Spec => []IndInv
  BY IndInvInit, IndInvStep, PTL DEF Spec

\* No request ever carries an outcome that the receipt tables cannot hold.
THEOREM ReceiptsTypeCorrect == Spec => []TypeOK
<1>1. IndInv => TypeOK
  BY DEF IndInv
<1> QED  BY <1>1, IndInvAlways, PTL

\* MarkApplyOperationDeviceApplying commits before any router is written, and
\* nothing that follows, failed writes and restarts included, takes it back.
THEOREM ReceiptsRecordWrites == Spec => []WritesAreRecorded
<1>1. IndInv => WritesAreRecorded
  BY DEF IndInv, RowInv, WritesAreRecorded
<1> QED  BY <1>1, IndInvAlways, PTL

\* An answer write_state "none" taken from the receipt means that no router was
\* or will be written under that operation id.
THEOREM ReceiptsRefuseForGood == Spec => []RefusalIsFinal
<1>1. IndInv => RefusalIsFinal
  BY DEF IndInv, RefuseInv, RefusalIsFinal
<1> QED  BY <1>1, IndInvAlways, PTL

\* However often a client retries an operation id and however often the
\* controller restarts, ApplySite runs for it once at most.
THEOREM ReceiptsRunOnce == Spec => []RunsAtMostOnce
<1>1. IndInv => RunsAtMostOnce
  BY DEF IndInv, RowInv, RunsAtMostOnce
<1> QED  BY <1>1, IndInvAlways, PTL

\* Operation row and device rows, written by separate transactions, agree.
THEOREM ReceiptsConsistent == Spec => []ReceiptsAgree
<1>1. ASSUME IndInv PROVE ReceiptsAgree
  <2>1. \A o \in Op, d \in Device : devState[o][d] \in DeviceStates
    BY <1>1 DEF IndInv, TypeOK
  <2>2. \A o \in Op, d \in Device : opState[o] \in Terminal =>
          devState[o][d] \in {"absent"} \cup DeviceTerminal
    BY <1>1, <2>1 DEF IndInv, RowInv, DeviceStates
  <2> QED  BY <1>1, <2>2 DEF IndInv, RowInv, ReceiptsAgree
<1> QED  BY <1>1, IndInvAlways, PTL

\* An unfinished operation is driven by a live request unless both of its
\* terminal writes failed.
THEOREM ReceiptsNotOrphaned == Spec => []NoOrphanedOperation
<1>1. IndInv => NoOrphanedOperation
  BY DEF IndInv
<1> QED  BY <1>1, IndInvAlways, PTL

\* What TerminalIsForever says of one step.
Kept ==
    \A o \in Op : opState[o] \in Terminal =>
        /\ opState'[o] = opState[o] /\ opWrite'[o] = opWrite[o]
        /\ devState'[o] = devState[o] /\ devWrite'[o] = devWrite[o]

\* A request only touches the rows of the unfinished operation it owns.
LEMMA RequestKeepsTerminal ==
    ASSUME IndInv, NEW h \in Handler, HandlerStep(h)
    PROVE  Kept
<1> USE DEF IndInv, TypeOK, OwnInv, Kept, Step, durable, local, history, Terminal, Unfinished,
        Owning, Running
<1>1. CASE BeginCreates(h)
  BY <1>1 DEF BeginCreates
<1>2. CASE MarkRunning(h)
  BY <1>2 DEF MarkRunning
<1>3. ASSUME NEW fleet \in SUBSET Device, InitializeDevices(h, fleet)
      PROVE  Kept
  BY <1>3 DEF InitializeDevices
<1>4. CASE CrossBoundary(h)
  BY <1>4 DEF CrossBoundary
<1>5. CASE RecordDevice(h)
  <2>1. pc[h] = "record" /\ opState[hop[h]] = "running"
    BY <1>5 DEF RecordDevice, AfterDevice
  <2> QED  BY <1>5, <2>1 DEF RecordDevice
<1>6. ASSUME NEW readable \in BOOLEAN, Finish(h, readable) \/ Reject(h, readable)
      PROVE  Kept
  <2>1. \E state, write : FinishOperation(hop[h], state, write)
    BY <1>6 DEF Finish, Reject
  <2> QED  BY <2>1 DEF FinishOperation
<1>7. CASE Interrupt(h)
  BY <1>7 DEF Interrupt
<1>8. ASSUME UNCHANGED durable
      PROVE  Kept
  BY <1>8
<1>9. CASE BeginReplays(h) \/ BeginFails(h) \/ MarkRunningFails(h) \/ PreflightFails(h)
           \/ StopFleet(h) \/ EndFleet(h) \/ RouterWrite(h) \/ RecordDeviceFails(h)
           \/ InterruptFails(h)
  BY <1>8, <1>9 DEF BeginReplays, BeginFails, MarkRunningFails, PreflightFails, StopFleet,
     EndFleet, RouterWrite, RecordDeviceFails, InterruptFails
<1>10. ASSUME \/ \E d \in Device : StartDevice(h, d)
              \/ \E outcome \in {"completed", "failed"}, planned \in BOOLEAN :
                   NoBoundary(h, outcome, planned)
              \/ \E outcome \in {"completed", "failed"} : RouterReturns(h, outcome)
              \/ \E readable \in BOOLEAN : TerminalWriteFails(h, readable)
       PROVE  UNCHANGED durable
  BY <1>10 DEF StartDevice, NoBoundary, RouterReturns, TerminalWriteFails
<1> QED
  BY <1>1, <1>2, <1>3, <1>4, <1>5, <1>6, <1>7, <1>8, <1>9, <1>10 DEF HandlerStep

\* No step changes a terminal receipt.
LEMMA StepKeepsTerminal ==
    ASSUME IndInv, [Next]_vars
    PROVE  Kept
<1>1. ASSUME UNCHANGED durable
      PROVE  Kept
  BY <1>1 DEF Kept, durable
<1>2. CASE UNCHANGED vars \/ Crash
  BY <1>1, <1>2 DEF vars, Crash
<1>3. ASSUME NEW h \in Handler, HandlerStep(h)
      PROVE  Kept
  BY <1>3, RequestKeepsTerminal
<1>4. ASSUME NEW h \in Handler,
             (\E o \in Op, r \in Request : Arrive(h, o, r)) \/ RefuseWaiting(h) \/ LockSite(h)
      PROVE  UNCHANGED durable
  BY <1>4 DEF Arrive, RefuseWaiting, LockSite
<1>5. CASE Restart
  BY <1>5 DEF IndInv, TypeOK, Kept, Restart, RecoverApplyOperations, Unfinished, Terminal
<1> QED  BY <1>1, <1>2, <1>3, <1>4, <1>5 DEF Next

\* A terminal receipt is history: no retry, late request or recovery changes it.
THEOREM ReceiptsFinal == Spec => TerminalIsForever
<1>1. IndInv /\ [Next]_vars => [Kept]_vars
  BY StepKeepsTerminal
<1> QED  BY <1>1, IndInvAlways, PTL DEF Spec, TerminalIsForever, Kept

-----------------------------------------------------------------------------
(***************************************************************************)
(* Provision. BindInv says what a run is bound to, and SectionInv that a   *)
(* package names each section once, which is why a batch writes it once    *)
(* (OneWrite). CoverInv follows every section of ours to the record.       *)
(* DocInv adds that a planned batch is the plan of its document, so that   *)
(* what it deletes is what Prune says.                                     *)
(***************************************************************************)

Sections(u) == \A x \in u : IsSection(x)

\* The run holds what its step has put there.
BatchInv ==
    \/ run = Idle
    \/ run = [pc |-> "accepted", bound |-> run.bound]
    \/ run = [pc |-> "planned", bound |-> run.bound, plan |-> run.plan]
    \/ /\ run.pc \in {"armed", "confirmed"}
       /\ run = [pc |-> run.pc, bound |-> run.bound, plan |-> run.plan,
                 before |-> run.before, after |-> run.after]

Planned == run.pc \in {"planned", "armed", "confirmed"}
Staged1 == run.pc \in {"armed", "confirmed"}

\* One operation for each section a batch writes.
OneWrite(plan) ==
    \A o, q \in plan.add \cup plan.put : o.want.ref = q.want.ref => o = q

\* A batch patches nothing but the IPv6 options of sections it does not own.
PatchesIPv6(plan) ==
    \A q \in plan.patch : DOMAIN q.set \subseteq PatchedOptions /\ q.del \subseteq PatchedOptions

SectionInv ==
    /\ Sections(uci) /\ Unique(uci)
    /\ Planned => Sections(run.plan.seen) /\ Unique(run.plan.seen)
    /\ Staged1 => Sections(run.before) /\ Unique(run.before)
    /\ run.pc = "planned" => OneWrite(run.plan.ops)

\* An accepted preview has no conflict, so that no section it writes is another's.
PlanInv ==
    /\ run.pc = "accepted" => ~run.bound.plan.blocked
    /\ run.pc = "planned" => ~run.plan.blocked
    /\ Planned =>
         /\ run.plan.ops.drop = Prune(run.plan.doc, run.plan.seen)
         /\ Written(run.plan.ops) \subseteq Refs(run.plan.doc.sections)
         /\ ~NameTaken(run.plan.doc, run.plan.seen)
    /\ run.pc = "planned" => PatchesIPv6(run.plan.ops)

LEMMA PatchOptions ==
    ASSUME NEW s, NEW d, NEW u, NEW q \in Patches(s, d, u)
    PROVE  DOMAIN q.set \subseteq PatchedOptions /\ q.del \subseteq PatchedOptions
<1>0. PICK n \in ManagementIPv6(s, d) : q \in NetworkPatches(n, u)
  BY Zenon DEF Patches
<1> DEFINE on == n.v6 = "pd"
<1>1. q \in LANPatches(n, u, on) \cup WANPatches(u, on)
  BY <1>0, Zenon DEF NetworkPatches
<1> HIDE DEF on
<1>2. \/ q = Patch(<<"network", <<n.id>>>>, Optional(on, "ip6assign", "64"),
                   IF on THEN {} ELSE {"ip6assign"})
      \/ \E x \in u : q = Patch(x.ref, [ra |-> IF on THEN "server" ELSE "disabled"], {})
      \/ \E x \in u : q = Patch(x.ref, [auto |-> IF on THEN "1" ELSE "0"], {})
      \/ \E x \in u : q = Patch(x.ref, [ipv6 |-> IF on THEN PPPValue(u) ELSE "0"], {})
  BY <1>1 DEF LANPatches, WANPatches, Interface, WAN6Client, At, In
<1>3. \A v, r : DOMAIN Optional(r, "ip6assign", v) \subseteq {"ip6assign"}
  BY DEF Optional
<1> QED  BY <1>2, <1>3 DEF Patch, PatchedOptions

LEMMA PlanShape ==
    ASSUME NEW s, NEW d, NEW c, NEW u, NEW p, p = PlanDevice(s, d, c, u), ~p.blocked
    PROVE  /\ p.seen = u /\ p.doc = Render(s, d, c, u)
           /\ p.ops.drop = Prune(p.doc, u)
           /\ Written(p.ops) \subseteq Refs(p.doc.sections)
           /\ ~NameTaken(p.doc, u)
           /\ Unique(u) => OneWrite(p.ops)
           /\ PatchesIPv6(p.ops)
<1> DEFINE doc == Render(s, d, c, u)
           blocked == Ambiguous(doc) \/ Conflicts(s, d, c, u, doc)
           drift == Drift(doc, u, claims)
           ops == Plan(doc, u)
<1>1. p = [doc |-> doc, seen |-> u, blocked |-> blocked, drift |-> drift,
                                ops |-> IF blocked THEN NoPlan ELSE ops]
  BY DEF PlanDevice
<1>0. doc.patches = Patches(s, d, u)
  BY DEF Render
<1>00. doc = Render(s, d, c, u)
  OBVIOUS
<1> HIDE DEF doc, drift
<1> HIDE DEF ops, blocked
<1>2. ~blocked
  BY <1>1
<1>3. ~NameTaken(doc, u) /\ ~Ambiguous(doc)
  BY <1>2 DEF Conflicts, blocked
<1>4. p = [doc |-> doc, seen |-> u, blocked |-> blocked, drift |-> drift, ops |-> ops]
  BY <1>1, <1>2
<1>5. ops.drop = Prune(doc, u)
  BY DEF Plan, ops
<1>6. Written(ops) \subseteq Refs(doc.sections)
  BY DEF Plan, Written, Refs, Write, ops
<1>7. ASSUME Unique(u) PROVE OneWrite(ops)
  <2>1. SUFFICES ASSUME NEW o \in ops.add \cup ops.put, NEW q \in ops.add \cup ops.put, o.want.ref = q.want.ref
        PROVE  o = q
    BY DEF OneWrite
  <2> DEFINE added(x) == x.want \in doc.sections /\ At(u, x.want.ref) = {} /\ x = Write(x.want, {})
             put(x, y) == y \in At(u, x.want.ref) /\ x.want \in doc.sections
                             /\ x = Write(x.want, Cleared(x.want, y))
  <2>2. \A x \in ops.add \cup ops.put : added(x) \/ \E y : put(x, y)
    <3>1. ASSUME NEW x \in ops.add PROVE added(x)
      BY <3>1 DEF Plan, Write, ops
    <3>2. ASSUME NEW x \in ops.put PROVE \E y : put(x, y)
      <4>1. PICK w \in doc.sections : \E y \in At(u, w.ref) : x = Write(w, Cleared(w, y))
        BY <3>2 DEF Plan, ops
      <4>2. PICK y \in At(u, w.ref) : x = Write(w, Cleared(w, y))
        BY <4>1
      <4>3. x.want = w
        BY <4>2 DEF Write
      <4> QED  BY <4>2, <4>3
    <3> QED  BY <3>1, <3>2
  <2>3. o.want = q.want
    <3>1. o.want \in doc.sections /\ q.want \in doc.sections
      BY <2>1, <2>2
    <3> QED  BY <3>1, <1>3, <2>1 DEF Ambiguous
  <2>4. CASE added(o) /\ added(q)
    BY <2>3, <2>4
  <2>5. ASSUME NEW y, NEW z, put(o, y), put(q, z) PROVE o = q
    <3>1. y = z
      BY <1>7, <2>1, <2>5 DEF Unique, At
    <3> QED  BY <2>3, <2>5, <3>1
  <2>6. ASSUME NEW y, (added(o) /\ put(q, y)) \/ (added(q) /\ put(o, y)) PROVE FALSE
    BY <2>1, <2>6
  <2> QED  BY <2>1, <2>2, <2>4, <2>5, <2>6
<1>8. PatchesIPv6(ops)
  BY <1>0, PatchOptions DEF PatchesIPv6, Plan, ops
<1> QED  BY <1>2, <1>3, <1>4, <1>5, <1>6, <1>7, <1>8, <1>00

\* What is planned is what was shown.
BindInv == BatchInv /\ PlanInv /\ TokenBinds

LEMMA BindStep ==
    ASSUME BindInv, [ProvisionNext]_provisionVars PROVE BindInv'
<1> USE DEF BindInv, TokenBinds, Planned
<1>1. CASE UNCHANGED run
  BY <1>1 DEF BatchInv, PlanInv
<1>2. CASE Accept
  <2>1. run' = [pc |-> "accepted", bound |-> tok] /\ ~tok.plan.blocked
    BY <1>2 DEF Accept
  <2> QED  BY <2>1 DEF BatchInv, PlanInv
<1>3. CASE ReadPlan
  <2>1. CASE ~(StillBound /\ Renderable)
    BY <1>3, <2>1 DEF ReadPlan, Ended, Idle, BatchInv, PlanInv
  <2>2. CASE StillBound /\ Renderable
    <3> DEFINE p == PlanDevice(run.bound.site, dev, caps, uci)
    <3>1. run.bound = Binding /\ run.pc = "accepted"
      BY <1>3, <2>2 DEF ReadPlan, StillBound
    <3>2. run.bound.site = site /\ run.bound.plan = PlanDevice(site, dev, caps, uci)
      BY <3>1 DEF Binding
    <3>3. p = run.bound.plan
      BY <3>2
    <3>4. run' = [pc |-> "planned", bound |-> run.bound, plan |-> p]
      BY <1>3, <2>2 DEF ReadPlan
    <3>5. ~p.blocked
      BY <3>1, <3>3 DEF PlanInv
    <3> HIDE DEF p
    <3>6. TokenBinds' /\ BatchInv'
      BY <3>3, <3>4 DEF BatchInv
    <3>0. p = PlanDevice(run.bound.site, dev, caps, uci)
      BY DEF p
    <3>7. /\ p.seen = uci
          /\ p.ops.drop = Prune(p.doc, uci)
          /\ Written(p.ops) \subseteq Refs(p.doc.sections)
          /\ ~NameTaken(p.doc, uci) /\ PatchesIPv6(p.ops)
      BY <3>0, <3>5, PlanShape
    <3>8. run'.plan = p /\ run'.pc = "planned"
      BY <3>4
    <3>9. PlanInv'
      BY <3>5, <3>7, <3>8, Zenon DEF PlanInv
    <3> QED  BY <3>6, <3>9
  <2> QED  BY <2>1, <2>2
<1>4. CASE Stage
  <2>1. run' = [pc |-> "armed", bound |-> run.bound, plan |-> run.plan, before |-> uci, after |-> uci']
    BY <1>4 DEF Stage
  <2>2. run.pc = "planned"
    BY <1>4 DEF Stage
  <2> QED  BY <2>1, <2>2 DEF BatchInv, PlanInv
<1>5. CASE NothingToWrite
  <2>1. run.pc = "planned"
    BY <1>5 DEF NothingToWrite
  <2>2. CASE Verified(run.plan.seen)
    <3>1. run' = [pc |-> "confirmed", bound |-> run.bound, plan |-> run.plan,
                  before |-> run.plan.seen, after |-> run.plan.seen]
      BY <1>5, <2>2 DEF NothingToWrite
    <3> QED  BY <2>1, <3>1 DEF BatchInv, PlanInv
  <2>3. CASE ~Verified(run.plan.seen)
    BY <1>5, <2>3 DEF NothingToWrite, Ended, Idle, BatchInv, PlanInv
  <2> QED  BY <2>2, <2>3
<1>6. CASE Confirm
  <2>1. run.pc = "armed" /\ run' = [run EXCEPT !.pc = "confirmed"]
    BY <1>6 DEF Confirm
  <2>2. run = [pc |-> "armed", bound |-> run.bound, plan |-> run.plan,
               before |-> run.before, after |-> run.after]
    BY <2>1 DEF BatchInv, Idle
  <2>3. run' = [pc |-> "confirmed", bound |-> run.bound, plan |-> run.plan,
                before |-> run.before, after |-> run.after]
    BY <2>1, <2>2
  <2> QED  BY <2>1, <2>3 DEF BatchInv, PlanInv
<1>7. CASE StageFails \/ Revert \/ Lost \/ RecordOwned \/ RecordFails
  <2>1. run' = Idle
    BY <1>7 DEF StageFails, Revert, Lost, RecordOwned, RecordFails, Ended
  <2> QED  BY <2>1 DEF BatchInv, PlanInv, Idle
<1>8. CASE Preview \/ Refuse \/ EditSite \/ Reprobe \/ SetFunctions \/ ScopeChanges \/ HiddenPolicy
  BY <1>1, <1>8 DEF Preview, Refuse, EditSite, Reprobe, SetFunctions, ScopeChanges, HiddenPolicy
<1>9. CASE OwnerAdds \/ OwnerRemoves \/ OwnerDisowns \/ OwnerFlattens \/ OwnerAlters
  BY <1>1, <1>9 DEF OwnerAdds, OwnerRemoves, OwnerDisowns, OwnerFlattens, OwnerAlters, OwnerEdit
<1>10. CASE UNCHANGED provisionVars
  BY <1>1, <1>10 DEF provisionVars
<1> QED
  BY <1>2, <1>3, <1>4, <1>5, <1>6, <1>7, <1>8, <1>9, <1>10 DEF ProvisionNext

LEMMA BindInit ==
    ProvisionInit => BindInv
BY DEF ProvisionInit, BindInv, BatchInv, PlanInv, TokenBinds, Planned, Idle

(* From the accepted preview to the end of the run, what is written is     *)
(* what the administrator was shown, although the plan is made again       *)
(* behind the device's gate: for any sites, devices, probes and edits.     *)
THEOREM ProvisionTokenBinds == ProvisionSpec => []TokenBinds
<1>1. BindInv => TokenBinds
  BY DEF BindInv
<1> QED  BY BindInit, BindStep, <1>1, PTL DEF ProvisionSpec

-----------------------------------------------------------------------------
(* ClaimsCover.                                                            *)

Plain(x) == x.ref[2][1] # "up"

CoverInv ==
    /\ ~Staged1 => \A x \in Owned(uci) : Plain(x) => x.ref \in DOMAIN claims \cup orphans
    /\ Staged1 => \A x \in Owned(uci) :
          Plain(x) => x.ref \in DOMAIN claims \cup orphans \cup Written(run.plan.ops)
    /\ run.pc = "armed" => \A x \in Owned(run.before) :
          Plain(x) => x.ref \in DOMAIN claims \cup orphans
    /\ run.pc = "planned" => Refs(Owned(uci)) \subseteq Refs(Owned(run.plan.seen))
    /\ Staged1 => \A x \in Owned(uci) :
          \/ x.ref \in Refs(run.plan.doc.sections)
          \/ x.ref \in Refs(Owned(run.plan.seen)) \ run.plan.ops.drop

ProvisionInv == BindInv /\ SectionInv /\ CoverInv

\* A section whose options, marker or list form are replaced is a section.
LEMMA SectionEdited ==
    ASSUME NEW x, IsSection(x), NEW v, NEW y
    PROVE  /\ y = [x EXCEPT !.opts = v] => IsSection(y) /\ y.own = x.own /\ y.ref = x.ref
           /\ y = [x EXCEPT !.own = FALSE] => IsSection(y) /\ ~y.own /\ y.ref = x.ref
           /\ y = [x EXCEPT !.flat = TRUE] => IsSection(y) /\ y.own = x.own /\ y.ref = x.ref
<1>1. y = [x EXCEPT !.opts = v] => IsSection(y) /\ y.own = x.own /\ y.ref = x.ref
  BY DEF IsSection
<1>2. y = [x EXCEPT !.own = FALSE] => IsSection(y) /\ ~y.own /\ y.ref = x.ref
  BY DEF IsSection
<1>3. y = [x EXCEPT !.flat = TRUE] => IsSection(y) /\ y.own = x.own /\ y.ref = x.ref
  BY DEF IsSection
<1> QED  BY <1>1, <1>2, <1>3

\* The router's owner never writes our marker.
LEMMA OwnerKeeps ==
    ASSUME Sections(uci), Unique(uci),
           OwnerAdds \/ OwnerRemoves \/ OwnerDisowns \/ OwnerFlattens \/ OwnerAlters
    PROVE  /\ Sections(uci') /\ Unique(uci')
           /\ Refs(Owned(uci')) \subseteq Refs(Owned(uci))
           /\ run.pc # "armed"
           /\ UNCHANGED <<run, claims, orphans>>
<1> USE DEF Sections, Owned, Refs, OwnerEdit, Unique
<1>1. CASE OwnerAdds
  BY <1>1, ProvisionAssumption DEF OwnerAdds
<1>2. CASE OwnerRemoves
  BY <1>2 DEF OwnerRemoves
<1>3. CASE OwnerDisowns
  <2>1. PICK x \in Owned(uci) : OwnerEdit((uci \ {x}) \cup {[x EXCEPT !.own = FALSE]})
    BY <1>3 DEF OwnerDisowns
  <2> DEFINE y == [x EXCEPT !.own = FALSE]
  <2>2. IsSection(y) /\ ~y.own /\ y.ref = x.ref
    <3>1. IsSection(x)
      OBVIOUS
    <3> QED  BY <3>1, SectionEdited DEF IsSection
  <2> HIDE DEF y
  <2>3. OwnerEdit((uci \ {x}) \cup {y})
    BY <2>1 DEF y
  <2> QED  BY <2>2, <2>3
<1>4. CASE OwnerFlattens
  <2>1. PICK x \in uci : OwnerEdit((uci \ {x}) \cup {[x EXCEPT !.flat = TRUE]})
    BY <1>4 DEF OwnerFlattens
  <2> DEFINE y == [x EXCEPT !.flat = TRUE]
  <2>2. IsSection(y) /\ y.own = x.own /\ y.ref = x.ref
    <3>1. IsSection(x)
      OBVIOUS
    <3> QED  BY <3>1, SectionEdited DEF IsSection
  <2> HIDE DEF y
  <2>3. OwnerEdit((uci \ {x}) \cup {y})
    BY <2>1 DEF y
  <2> QED  BY <2>2, <2>3
<1>5. CASE OwnerAlters
  <2>1. PICK x \in Owned(In(uci, "wireless")), t \in Tampers :
           OwnerEdit((uci \ {x}) \cup {[x EXCEPT !.opts = t ++ x.opts]})
    BY <1>5 DEF OwnerAlters
  <2> DEFINE y == [x EXCEPT !.opts = t ++ x.opts]
  <2>2. x \in uci /\ x.own
    BY DEF In
  <2>3. IsSection(y) /\ y.own = x.own /\ y.ref = x.ref
    <3>1. IsSection(x)
      BY <2>2
    <3> QED  BY <3>1, SectionEdited DEF IsSection
  <2> HIDE DEF y
  <2>4. OwnerEdit((uci \ {x}) \cup {y})
    BY <2>1 DEF y
  <2> QED  BY <2>2, <2>3, <2>4
<1> QED  BY <1>1, <1>2, <1>3, <1>4, <1>5

\* What the router holds once a batch is in place: what was left alone and
\* what was written, patched or not, which keeps its name and its marker.
LEMMA PatchedKeeps ==
    ASSUME NEW plan, NEW x, IsSection(x)
    PROVE  IsSection(Patched(plan, x)) /\ Patched(plan, x).ref = x.ref /\ Patched(plan, x).own = x.own
<1>1. CASE \E q \in plan.patch : q.ref = x.ref
  <2> DEFINE p == CHOOSE q \in plan.patch : q.ref = x.ref
             v == p.set ++ Except(x.opts, p.del)
  <2>1. Patched(plan, x) = [x EXCEPT !.opts = v]
    BY <1>1 DEF Patched
  <2> HIDE DEF v
  <2> QED  BY <2>1, SectionEdited
<1>2. CASE ~\E q \in plan.patch : q.ref = x.ref
  BY <1>2 DEF Patched
<1> QED  BY <1>1, <1>2

LEMMA StagedHolds ==
    ASSUME NEW plan, NEW u, Sections(u)
    PROVE  /\ Sections(Staged(plan, u))
           /\ \A x \in Owned(Staged(plan, u)) :
                \/ x.ref \in Written(plan)
                \/ x.ref \in Refs(Owned(u)) \ plan.drop
           /\ OneWrite(plan) /\ Unique(u) => Unique(Staged(plan, u))
           /\ \A x \in u : x.ref \notin Written(plan) \cup plan.drop => Patched(plan, x) \in Staged(plan, u)
           /\ Written(plan) \ plan.drop \subseteq Refs(Staged(plan, u))
<1> DEFINE value(o) == o.want.opts ++ Except(Held(u, o.want.ref), o.clear)
           sect(o) == [ref |-> o.want.ref, type |-> o.want.type, own |-> TRUE, flat |-> FALSE,
                       opts |-> value(o)]
           written == {sect(o) : o \in plan.add \cup plan.put}
           left == {x \in u : x.ref \notin Written(plan)}
           kept == {y \in left \cup written : y.ref \notin plan.drop}
<1>1. Staged(plan, u) = {Patched(plan, x) : x \in kept}
  BY DEF Staged
<1> HIDE DEF value
<1>0. \A o : IsSection(sect(o)) /\ sect(o).own /\ sect(o).ref = o.want.ref
  BY DEF IsSection
<1> HIDE DEF sect
<1>2. \A x \in written : IsSection(x) /\ x.own /\ x.ref \in Written(plan)
  BY <1>0 DEF Written
<1>3. \A x \in left : x \in u /\ IsSection(x) /\ x.ref \notin Written(plan)
  BY DEF Sections
<1>4. \A r \in Written(plan) : \E x \in written : x.ref = r
  BY <1>0 DEF Written
<1>5. OneWrite(plan) => Unique(written)
  BY <1>0 DEF OneWrite, Unique
<1> HIDE DEF written, left
<1>6. \A x \in kept : IsSection(x)
  BY <1>2, <1>3
<1>7. \A x \in kept : LET y == Patched(plan, x) IN IsSection(y) /\ y.ref = x.ref /\ y.own = x.own
  BY <1>6, PatchedKeeps
<1>8. Sections(Staged(plan, u))
  BY <1>1, <1>7 DEF Sections
<1>9. \A x \in Owned(Staged(plan, u)) : x.ref \in Written(plan) \/ x.ref \in Refs(Owned(u)) \ plan.drop
  BY <1>1, <1>2, <1>3, <1>7 DEF Owned, Refs
<1>10. ASSUME OneWrite(plan), Unique(u) PROVE Unique(Staged(plan, u))
  <2>1. Unique(left)
    BY <1>3, <1>10 DEF Unique
  <2>2. \A x \in left, y \in written : x.ref # y.ref
    BY <1>2, <1>3
  <2>3. Unique(kept)
    BY <1>5, <1>10, <2>1, <2>2 DEF Unique
  <2> QED  BY <1>1, <1>7, <2>3 DEF Unique
<1>11. \A x \in u : x.ref \notin Written(plan) \cup plan.drop => Patched(plan, x) \in Staged(plan, u)
  BY <1>1 DEF left
<1>12. Written(plan) \ plan.drop \subseteq Refs(Staged(plan, u))
  BY <1>1, <1>4, <1>7 DEF Refs
<1> QED  BY <1>8, <1>9, <1>10, <1>11, <1>12

LEMMA CoverInit ==
    ProvisionInit => SectionInv /\ CoverInv
<1> SUFFICES ASSUME ProvisionInit PROVE SectionInv /\ CoverInv
  OBVIOUS
<1>1. uci = Stock /\ run.pc = "idle"
  BY DEF ProvisionInit, Idle
<1> QED
  BY <1>1, ProvisionAssumption DEF SectionInv, CoverInv, Sections, Owned, Planned, Staged1

LEMMA CoverStep ==
    ASSUME ProvisionInv, BindInv', [ProvisionNext]_provisionVars PROVE SectionInv' /\ CoverInv'
<1> USE DEF Planned, Staged1
<1>0. BatchInv /\ PlanInv /\ SectionInv /\ CoverInv /\ BatchInv' /\ PlanInv'
  BY DEF ProvisionInv, BindInv
<1>1. CASE UNCHANGED <<uci, run, claims, orphans>>
  BY <1>0, <1>1 DEF SectionInv, CoverInv, Sections, Owned
<1>2. CASE Accept
  <2>1. run.pc = "idle" /\ run'.pc = "accepted" /\ UNCHANGED <<uci, claims, orphans>>
    BY <1>2 DEF Accept, Idle
  <2> QED  BY <1>0, <2>1 DEF SectionInv, CoverInv, Sections, Owned
<1>3. CASE ReadPlan
  <2>0. run.pc = "accepted" /\ UNCHANGED <<uci, claims, orphans>>
    BY <1>3 DEF ReadPlan
  <2>1. CASE ~(StillBound /\ Renderable)
    <3>1. run'.pc = "idle"
      BY <1>3, <2>1 DEF ReadPlan, Ended, Idle
    <3> QED  BY <1>0, <2>0, <3>1 DEF SectionInv, CoverInv, Sections, Owned
  <2>2. CASE StillBound /\ Renderable
    <3> DEFINE p == PlanDevice(run.bound.site, dev, caps, uci)
    <3>1. run'.pc = "planned" /\ run'.plan = p
      BY <1>3, <2>2 DEF ReadPlan
    <3>3. p = PlanDevice(run.bound.site, dev, caps, uci)
      OBVIOUS
    <3> HIDE DEF p
    <3>4. ~p.blocked
      BY <1>0, <3>1 DEF PlanInv
    <3>5. p.seen = uci /\ (Unique(uci) => OneWrite(p.ops))
      BY <3>3, <3>4, PlanShape
    <3>6. SectionInv'
      BY <1>0, <2>0, <3>1, <3>5 DEF SectionInv
    <3>7. CoverInv'
      BY <1>0, <2>0, <3>1, <3>5 DEF CoverInv, Refs
    <3> QED  BY <3>6, <3>7
  <2> QED  BY <2>1, <2>2
<1>4. CASE Stage
  <2>1. /\ run.pc = "planned" /\ run'.pc = "armed" /\ run'.plan = run.plan /\ run'.before = uci
        /\ uci' = Staged(run.plan.ops, uci) /\ UNCHANGED <<claims, orphans>>
    BY <1>4 DEF Stage
  <2> DEFINE ops == run.plan.ops
             seen == run.plan.seen
  <2>2. Sections(uci) /\ Sections(seen) /\ Unique(uci) /\ Unique(seen) /\ OneWrite(ops)
    BY <1>0, <2>1 DEF SectionInv
  <2>3. /\ Sections(uci') /\ Unique(uci')
        /\ \A x \in Owned(uci') : x.ref \in Written(ops) \/ x.ref \in Refs(Owned(uci)) \ ops.drop
    BY <2>1, <2>2, StagedHolds
  <2>4. SectionInv'
    BY <2>1, <2>2, <2>3 DEF SectionInv
  <2>5. \A x \in Owned(uci) : Plain(x) => x.ref \in DOMAIN claims \cup orphans
    BY <1>0, <2>1 DEF CoverInv
  <2>6. Refs(Owned(uci)) \subseteq Refs(Owned(seen)) /\ Written(ops) \subseteq Refs(run.plan.doc.sections)
    BY <1>0, <2>1 DEF CoverInv, PlanInv
  <2>7. \A x \in Owned(uci') : Plain(x) => x.ref \in DOMAIN claims \cup orphans \cup Written(ops)
    BY <2>3, <2>5 DEF Plain, Refs
  <2>8. \A x \in Owned(uci') :
           x.ref \in Refs(run.plan.doc.sections) \/ x.ref \in Refs(Owned(seen)) \ ops.drop
    BY <2>3, <2>6
  <2> QED  BY <2>1, <2>4, <2>5, <2>7, <2>8 DEF CoverInv
<1>5. CASE NothingToWrite
  <2>0. run.pc = "planned" /\ UNCHANGED <<uci, claims, orphans>> /\ run.plan.ops = NoPlan
    BY <1>5 DEF NothingToWrite
  <2>1. CASE Verified(run.plan.seen)
    <3>1. run'.pc = "confirmed" /\ run'.plan = run.plan /\ run'.before = run.plan.seen
      BY <1>5, <2>1 DEF NothingToWrite
    <3>2. SectionInv'
      BY <1>0, <2>0, <3>1 DEF SectionInv
    <3>3. run.plan.ops.drop = {}
      BY <2>0 DEF NoPlan
    <3> QED  BY <1>0, <2>0, <3>1, <3>2, <3>3 DEF CoverInv, Refs
  <2>2. CASE ~Verified(run.plan.seen)
    <3>1. run'.pc = "idle"
      BY <1>5, <2>2 DEF NothingToWrite, Ended, Idle
    <3> QED  BY <1>0, <2>0, <3>1 DEF SectionInv, CoverInv
  <2> QED  BY <2>1, <2>2
<1>6. CASE Confirm
  <2>1. run.pc = "armed" /\ run' = [run EXCEPT !.pc = "confirmed"] /\ UNCHANGED <<uci, claims, orphans>>
    BY <1>6 DEF Confirm
  <2>2. run = [pc |-> "armed", bound |-> run.bound, plan |-> run.plan,
               before |-> run.before, after |-> run.after]
    BY <1>0, <2>1 DEF BatchInv, Idle
  <2>3. run'.pc = "confirmed" /\ run'.plan = run.plan /\ run'.before = run.before
    BY <2>1, <2>2
  <2> QED  BY <1>0, <2>1, <2>3 DEF SectionInv, CoverInv
<1>7. CASE Revert \/ (Lost /\ uci' = run.before /\ UNCHANGED orphans)
  <2>1. run.pc = "armed" /\ uci' = run.before /\ run'.pc = "idle" /\ UNCHANGED <<claims, orphans>>
    BY <1>7 DEF Revert, Lost, Ended, Idle
  <2> QED  BY <1>0, <2>1 DEF SectionInv, CoverInv
<1>8. CASE StageFails
  <2>1. run.pc = "planned" /\ run'.pc = "idle" /\ UNCHANGED <<uci, claims, orphans>>
    BY <1>8 DEF StageFails, Ended, Idle
  <2> QED  BY <1>0, <2>1 DEF SectionInv, CoverInv
<1>9. CASE RecordFails \/ (Lost /\ UNCHANGED uci /\ orphans' = orphans \cup Written(run.plan.ops))
  <2>1. /\ run.pc \in {"armed", "confirmed"} /\ run'.pc = "idle" /\ UNCHANGED <<uci, claims>>
        /\ orphans' = orphans \cup Written(run.plan.ops)
    BY <1>9 DEF RecordFails, Lost, Ended, Idle
  <2> QED  BY <1>0, <2>1 DEF SectionInv, CoverInv
<1>10. CASE RecordOwned
  <2> DEFINE doc == run.plan.doc
             seen == run.plan.seen
             ops == run.plan.ops
             mine == {w \in doc.sections : \A x \in At(seen, w.ref) : x.own}
             kept == {ref \in DOMAIN claims : Preserved(doc, seen, ref)}
  <2>1. run.pc = "confirmed" /\ run'.pc = "idle" /\ UNCHANGED uci
    BY <1>10 DEF RecordOwned, Ended, Idle
  <2>2. DOMAIN claims' = kept \cup Refs(mine)
    BY <1>10 DEF RecordOwned, Claimed
  <2>3. orphans' = (orphans \cap Refs(Owned(uci))) \ DOMAIN claims'
    BY <1>10 DEF RecordOwned
  <2>4. ~NameTaken(doc, seen) /\ ops.drop = Prune(doc, seen) /\ Written(ops) \subseteq Refs(doc.sections)
    BY <1>0, <2>1 DEF PlanInv
  <2>5. ASSUME NEW x \in Owned(uci), Plain(x), x.ref \in Refs(doc.sections)
        PROVE  x.ref \in DOMAIN claims'
    <3>1. PICK w \in doc.sections : x.ref = w.ref
      BY <2>5 DEF Refs
    <3>2. \A y \in At(seen, w.ref) : y.own
      BY <2>4, <2>5, <3>1 DEF NameTaken, At, Plain
    <3> QED  BY <2>2, <3>1, <3>2 DEF Refs
  <2>6. ASSUME NEW x \in Owned(uci), Plain(x), x.ref \notin Refs(doc.sections)
        PROVE  x.ref \in DOMAIN claims' \cup orphans'
    <3>1. x.ref \in Refs(Owned(seen)) \ ops.drop
      BY <1>0, <2>1, <2>6 DEF CoverInv
    <3>2. x.ref[1] \in doc.blind \/ x.ref \in doc.retain
      BY <2>4, <2>6, <3>1 DEF Prune, Refs, Owned
    <3>3. x.ref \in DOMAIN claims \cup orphans
      BY <1>0, <2>1, <2>4, <2>6 DEF CoverInv
    <3>4. CASE x.ref \in DOMAIN claims
      BY <2>2, <2>6, <3>1, <3>2, <3>4 DEF Preserved
    <3>5. CASE x.ref \in orphans
      BY <2>3, <3>5 DEF Refs
    <3> QED  BY <3>3, <3>4, <3>5
  <2>7. \A x \in Owned(uci') : Plain(x) => x.ref \in DOMAIN claims' \cup orphans'
    BY <2>1, <2>5, <2>6 DEF Owned
  <2>8. SectionInv'
    BY <1>0, <2>1 DEF SectionInv
  <2> HIDE DEF doc, seen, ops, mine, kept
  <2> QED  BY <2>1, <2>7, <2>8 DEF CoverInv
<1>11. CASE Preview \/ Refuse \/ EditSite \/ Reprobe \/ SetFunctions \/ ScopeChanges \/ HiddenPolicy
  BY <1>1, <1>11 DEF Preview, Refuse, EditSite, Reprobe, SetFunctions, ScopeChanges, HiddenPolicy
<1>12. CASE OwnerAdds \/ OwnerRemoves \/ OwnerDisowns \/ OwnerFlattens \/ OwnerAlters
  <2>1. Sections(uci) /\ Unique(uci)
    BY <1>0 DEF SectionInv
  <2>2. /\ Sections(uci') /\ Unique(uci') /\ Refs(Owned(uci')) \subseteq Refs(Owned(uci))
        /\ run.pc # "armed" /\ UNCHANGED <<run, claims, orphans>>
    BY <1>12, <2>1, OwnerKeeps
  <2>3. \A x \in Owned(uci') : \E y \in Owned(uci) : y.ref = x.ref
    BY <2>2 DEF Refs
  <2>4. SectionInv'
    BY <1>0, <2>2 DEF SectionInv
  <2> QED  BY <1>0, <2>2, <2>3, <2>4 DEF CoverInv, Plain
<1>13. CASE UNCHANGED provisionVars
  BY <1>1, <1>13 DEF provisionVars
<1> QED
  <2>1. Lost => \/ Lost /\ UNCHANGED uci /\ orphans' = orphans \cup Written(run.plan.ops)
                \/ Lost /\ uci' = run.before /\ UNCHANGED orphans
    BY DEF Lost
  <2> QED
    BY <1>2, <1>3, <1>4, <1>5, <1>6, <1>7, <1>8, <1>9, <1>10, <1>11, <1>12, <1>13, <2>1 DEF ProvisionNext

(* Every section of ours on the router, but for a wireless station, is on  *)
(* record or among those of a run whose end is unknown: through            *)
(* confirmations, reverts, lost answers, failed ownership transactions and *)
(* the edits of the router's owner.                                        *)
THEOREM ProvisionClaimsCover == ProvisionSpec => []ClaimsCover
<1>1. ProvisionInit => ProvisionInv
  BY BindInit, CoverInit DEF ProvisionInv
<1>2. ProvisionInv /\ [ProvisionNext]_provisionVars => ProvisionInv'
  BY BindStep, CoverStep DEF ProvisionInv
<1>3. ProvisionInv => ClaimsCover
  BY DEF ProvisionInv, CoverInv, ClaimsCover, Plain, Idle, Staged1
<1> QED  BY <1>1, <1>2, <1>3, PTL DEF ProvisionSpec

-----------------------------------------------------------------------------
(* TouchesOnlyOurs.                                                        *)

\* While a plan waits to be staged, what it was made from stands still, but for
\* the router itself.
DocInv ==
    run.pc = "planned" => run.plan.doc = Render(site, dev, caps, run.plan.seen)

LEMMA DocStep ==
    ASSUME ProvisionInv, ProvisionInv', DocInv, [ProvisionNext]_provisionVars PROVE DocInv'
<1> USE DEF DocInv
<1>0. BatchInv /\ PlanInv /\ PlanInv'
  BY DEF ProvisionInv, BindInv
<1>1. CASE run' = run /\ (run.pc = "planned" => UNCHANGED <<site, dev, caps>>)
  BY <1>1
<1>2. CASE run'.pc # "planned"
  BY <1>2
<1>3. CASE ReadPlan
  <2>1. CASE ~(StillBound /\ Renderable)
    BY <1>2, <1>3, <2>1 DEF ReadPlan, Ended, Idle
  <2>2. CASE StillBound /\ Renderable
    <3> DEFINE p == PlanDevice(run.bound.site, dev, caps, uci)
    <3>1. run'.plan = p /\ run'.pc = "planned" /\ UNCHANGED <<site, dev, caps>>
      BY <1>3, <2>2 DEF ReadPlan
    <3>2. run.bound.site = site
      BY <2>2 DEF StillBound, Binding
    <3>3. p = PlanDevice(site, dev, caps, uci)
      BY <3>2
    <3> HIDE DEF p
    <3>4. ~p.blocked
      BY <1>0, <3>1 DEF PlanInv
    <3>5. p.seen = uci /\ p.doc = Render(site, dev, caps, uci)
      BY <3>3, <3>4, PlanShape
    <3> QED  BY <3>1, <3>5
  <2> QED  BY <2>1, <2>2
<1>4. CASE Accept \/ Stage \/ StageFails \/ NothingToWrite \/ Revert \/ Lost \/ RecordOwned \/ RecordFails
  BY <1>2, <1>4 DEF Accept, Stage, StageFails, NothingToWrite, Revert, Lost, RecordOwned, RecordFails, Ended, Idle
<1>5. CASE Confirm
  <2>1. run.pc = "armed" /\ run' = [run EXCEPT !.pc = "confirmed"]
    BY <1>5 DEF Confirm
  <2>2. run = [pc |-> "armed", bound |-> run.bound, plan |-> run.plan,
               before |-> run.before, after |-> run.after]
    BY <1>0, <2>1 DEF BatchInv, Idle
  <2>3. run'.pc = "confirmed"
    BY <2>1, <2>2
  <2> QED  BY <1>2, <2>3
<1>6. CASE Preview \/ Refuse \/ ScopeChanges \/ HiddenPolicy \/ UNCHANGED provisionVars
  BY <1>1, <1>6 DEF Preview, Refuse, ScopeChanges, HiddenPolicy, provisionVars
<1>7. CASE EditSite \/ Reprobe \/ SetFunctions
  BY <1>1, <1>7 DEF EditSite, Reprobe, SetFunctions, Idle
<1>8. CASE OwnerAdds \/ OwnerRemoves \/ OwnerDisowns \/ OwnerFlattens \/ OwnerAlters
  BY <1>1, <1>8 DEF OwnerAdds, OwnerRemoves, OwnerDisowns, OwnerFlattens, OwnerAlters, OwnerEdit
<1> QED
  BY <1>3, <1>4, <1>5, <1>6, <1>7, <1>8 DEF ProvisionNext

\* Only Stage arms the rollback.
LEMMA StagingIsStage ==
    ASSUME ProvisionInv, [ProvisionNext]_provisionVars, Staging
    PROVE  run.pc = "planned" /\ uci' = Staged(run.plan.ops, uci)
<1>1. run.pc = "planned" /\ run'.pc = "armed"
  BY DEF Staging
<1>2. CASE Stage
  BY <1>1, <1>2 DEF Stage
<1>3. CASE UNCHANGED run
  BY <1>1, <1>3
<1>4. CASE Accept \/ ReadPlan \/ StageFails \/ NothingToWrite \/ Revert \/ Lost \/ RecordOwned \/ RecordFails
  BY <1>1, <1>4 DEF Accept, ReadPlan, StageFails, NothingToWrite, Revert, Lost, RecordOwned, RecordFails, Ended, Idle
<1>5. CASE Confirm
  BY <1>1, <1>5 DEF Confirm
<1>6. CASE Preview \/ Refuse \/ ScopeChanges \/ HiddenPolicy \/ EditSite \/ Reprobe \/ SetFunctions \/ UNCHANGED provisionVars
  BY <1>3, <1>6 DEF Preview, Refuse, ScopeChanges, HiddenPolicy, EditSite, Reprobe, SetFunctions, provisionVars
<1>8. CASE OwnerAdds \/ OwnerRemoves \/ OwnerDisowns \/ OwnerFlattens \/ OwnerAlters
  BY <1>3, <1>8 DEF OwnerAdds, OwnerRemoves, OwnerDisowns, OwnerFlattens, OwnerAlters, OwnerEdit
<1> QED
  BY <1>2, <1>4, <1>5, <1>6, <1>8 DEF ProvisionNext

LEMMA PatchedOnlyIPv6 ==
    ASSUME NEW plan, NEW x, IsSection(x), PatchesIPv6(plan)
    PROVE  /\ Patched(plan, x).type = x.type
           /\ Except(x.opts, PatchedOptions) = Except(Patched(plan, x).opts, PatchedOptions)
<1>1. CASE \E q \in plan.patch : q.ref = x.ref
  <2> DEFINE p == CHOOSE q \in plan.patch : q.ref = x.ref
             v == p.set ++ Except(x.opts, p.del)
  <2>1. Patched(plan, x) = [x EXCEPT !.opts = v]
    BY <1>1 DEF Patched
  <2>2. DOMAIN p.set \subseteq PatchedOptions /\ p.del \subseteq PatchedOptions
    BY <1>1 DEF PatchesIPv6
  <2>3. DOMAIN v \ PatchedOptions = DOMAIN x.opts \ PatchedOptions
    BY <2>2 DEF ++, Except
  <2>4. \A k \in DOMAIN x.opts \ PatchedOptions : v[k] = x.opts[k]
    BY <2>2 DEF ++, Except
  <2> HIDE DEF v, p
  <2>5. Patched(plan, x).opts = v /\ Patched(plan, x).type = x.type
    BY <2>1, "opts" \in DOMAIN x DEF IsSection
  <2> QED  BY <2>3, <2>4, <2>5 DEF Except
<1>2. CASE ~\E q \in plan.patch : q.ref = x.ref
  BY <1>2 DEF Patched
<1> QED  BY <1>1, <1>2

LEMMA StagingKeepsForeign ==
    ASSUME ProvisionInv, [ProvisionNext]_provisionVars, Staging,
           NEW x \in uci \cap run.plan.seen, ~x.own, Plain(x)
    PROVE  \E y \in At(uci', x.ref) :
              /\ ~y.own /\ y.type = x.type
              /\ Except(x.opts, PatchedOptions) = Except(y.opts, PatchedOptions)
<1> DEFINE ops == run.plan.ops
           doc == run.plan.doc
           seen == run.plan.seen
           y == Patched(ops, x)
<1>1. run.pc = "planned" /\ uci' = Staged(ops, uci)
  BY StagingIsStage
<1>2. /\ Sections(uci) /\ Unique(seen) /\ ops.drop = Prune(doc, seen)
      /\ Written(ops) \subseteq Refs(doc.sections) /\ ~NameTaken(doc, seen) /\ PatchesIPv6(ops)
  BY <1>1 DEF ProvisionInv, BindInv, SectionInv, PlanInv, Planned
<1>3. x.ref \notin Written(ops)
  BY <1>2 DEF NameTaken, Refs, Plain
<1>4. x.ref \notin ops.drop
  BY <1>2 DEF Prune, Owned, Unique
<1>5. y \in uci'
  BY <1>1, <1>2, <1>3, <1>4, StagedHolds
<1>6. IsSection(x)
  BY <1>2 DEF Sections
<1>7. y.ref = x.ref /\ ~y.own
  BY <1>6, PatchedKeeps
<1>8. y.type = x.type /\ Except(x.opts, PatchedOptions) = Except(y.opts, PatchedOptions)
  BY <1>2, <1>6, PatchedOnlyIPv6
<1> HIDE DEF y
<1> QED  BY <1>5, <1>7, <1>8 DEF At

\* What the renderer leaves to a later probe.
LEMMA UnreadIsKept ==
    ASSUME NEW u, NEW ref, dev.wireless, caps.read,
           LET doc == Render(site, dev, caps, u)
           IN  /\ ref \notin Refs(doc.sections) /\ ref \notin doc.retain
               /\ run.plan.doc = doc
    PROVE  ref \notin StillAsked
<1> DEFINE wired == UNION {RenderNetwork(n, dev, caps, u) : n \in site.nets}
           zoned == wired \cup RenderZones(site, dev, caps, u)
           base == IF dev.routes
                   THEN zoned \cup RenderPolicies(site, dev, zoned) \cup RenderClients(site, zoned)
                   ELSE zoned
           air == RenderWireless(site, caps, base)
           doc == Render(site, dev, caps, u)
           there(id) == Available(NetOf(site, id), base)
           lost == WantsVLAN(site) /\ caps.bridge = "unread"
<1>1. doc.sections = base \cup air /\ doc.retain = Retained(site, dev, caps, base)
  BY DEF Render
<1>2. \A w \in air : w.ref[1] = "wireless"
  <2>1. \A w, b : RenderWifiIface(site, w, b).ref = <<"wireless", <<"wlan", w.id, b>>>>
    BY DEF RenderWifiIface, Want
  <2>2. \A x, w : RenderUplink(site, x, w).ref = <<"wireless", <<"up", x.id, x.band>>>>
    BY DEF RenderUplink, Want
  <2>3. \A m : RenderMesh(site, m).ref = <<"wireless", <<"mesh", m.id, m.band>>>>
    BY DEF RenderMesh, Want
  <2> DEFINE aps(w) == {RenderWifiIface(site, w, b) : b \in w.bands \cap Radios(caps)}
             ons == {x \in Published(site) : there(x.net)}
             ups == {y \in site.uplinks : /\ there(UplinkWLAN(site, y).net)
                                          /\ y.band \in Radios(caps)
                                          /\ caps.sta = "yes"}
             points == {y \in site.meshes : /\ there(y.net)
                                            /\ y.band \in Radios(caps)
                                            /\ caps.mesh = "yes"}
  <2>4. air = (UNION {aps(w) : w \in ons}) \cup {RenderUplink(site, x, UplinkWLAN(site, x)) : x \in ups}
                 \cup {RenderMesh(site, m) : m \in points}
    BY DEF RenderWireless
  <2> HIDE DEF air, ons, ups, points
  <2>5. ASSUME NEW w \in air PROVE w.ref[1] = "wireless"
    <3>1. CASE \E v \in ons : w \in aps(v)
      <4>1. PICK v \in ons : w \in aps(v)
        BY <3>1
      <4>2. PICK b \in v.bands \cap Radios(caps) : w = RenderWifiIface(site, v, b)
        BY <4>1
      <4> QED  BY <2>1, <4>2
    <3>2. CASE \E x \in ups : w = RenderUplink(site, x, UplinkWLAN(site, x))
      <4>1. PICK x \in ups : w = RenderUplink(site, x, UplinkWLAN(site, x))
        BY <3>2
      <4>2. w.ref = <<"wireless", <<"up", x.id, x.band>>>>
        BY <2>2, <4>1
      <4> QED  BY <4>2
    <3>3. CASE \E m \in points : w = RenderMesh(site, m)
      <4>1. PICK m \in points : w = RenderMesh(site, m)
        BY <3>3
      <4>2. w.ref = <<"wireless", <<"mesh", m.id, m.band>>>>
        BY <2>3, <4>1
      <4> QED  BY <4>2
    <3> HIDE DEF aps
    <3>4. w \in UNION {aps(v) : v \in ons} \/ w \in {RenderUplink(site, x, UplinkWLAN(site, x)) : x \in ups}
             \/ w \in {RenderMesh(site, m) : m \in points}
      BY <2>4, <2>5
    <3>5. \/ \E v \in ons : w \in aps(v)
          \/ \E x \in ups : w = RenderUplink(site, x, UplinkWLAN(site, x))
          \/ \E m \in points : w = RenderMesh(site, m)
      BY <3>4
    <3> QED  BY <3>1, <3>2, <3>3, <3>5
  <2> QED  BY <2>5
<1>3. Radios(caps) = caps.bands /\ ("network" \in Blind(site, dev, caps) <=> lost)
  BY DEF Radios, Blind
<1>4. run.plan.doc = doc
  OBVIOUS
<1> HIDE DEF wired, zoned, base, doc
<1>5. \A w \in air : w.ref \in Refs(doc.sections)
  BY <1>1 DEF Refs
<1>6. \A id : Reachable(id) => there(id) \/ lost
  <2>1. ASSUME NEW n, Available(n, base \cup air) PROVE Available(n, base)
    BY <1>2, <2>1 DEF Available, Refs
  <2> QED  BY <1>1, <1>4, <2>1 DEF Reachable
<1>7. ref \notin Refs(doc.sections) /\ ref \notin Retained(site, dev, caps, base)
  BY <1>1 DEF doc
<1> HIDE DEF air, there, lost
<1>8. ASSUME NEW w \in Published(site), NEW b \in w.bands \cap caps.bands, Reachable(w.net)
      PROVE  ref # <<"wireless", <<"wlan", w.id, b>>>>
  <2>1. CASE there(w.net)
    <3>1. RenderWifiIface(site, w, b) \in air
      BY <1>3, <1>8, <2>1 DEF air, there, RenderWireless
    <3>2. RenderWifiIface(site, w, b).ref = <<"wireless", <<"wlan", w.id, b>>>>
      BY DEF RenderWifiIface, Want
    <3> QED  BY <1>5, <1>7, <3>1, <3>2
  <2>2. CASE ~there(w.net)
    <3>1. lost
      BY <1>6, <1>8, <2>2
    <3> QED  BY <1>3, <1>7, <1>8, <2>2, <3>1 DEF there, Retained
  <2> QED  BY <2>1, <2>2
<1>9. ASSUME NEW m \in site.uplinks, caps.sta \in {"yes", "unknown"}, m.band \in caps.bands,
             Reachable(UplinkWLAN(site, m).net)
      PROVE  ref # <<"wireless", <<"up", m.id, m.band>>>>
  <2>1. CASE there(UplinkWLAN(site, m).net) /\ caps.sta = "yes"
    <3> DEFINE w == RenderUplink(site, m, UplinkWLAN(site, m))
    <3>1. w \in air
      BY <1>3, <1>9, <2>1 DEF air, there, RenderWireless
    <3>2. w.ref = <<"wireless", <<"up", m.id, m.band>>>>
      BY DEF RenderUplink, Want
    <3> QED  BY <1>5, <1>7, <3>1, <3>2
  <2>2. CASE ~there(UplinkWLAN(site, m).net) \/ caps.sta = "unknown"
    <3>1. IF there(UplinkWLAN(site, m).net) THEN caps.sta = "unknown" ELSE lost
      BY <1>6, <1>9, <2>2
    <3> QED  BY <1>3, <1>7, <1>9, <3>1 DEF there, Retained
  <2> QED  BY <1>9, <2>1, <2>2
<1>10. ASSUME NEW m \in site.meshes, caps.mesh \in {"yes", "unknown"}, m.band \in caps.bands,
             Reachable(m.net)
      PROVE  ref # <<"wireless", <<"mesh", m.id, m.band>>>>
  <2>1. CASE there(m.net) /\ caps.mesh = "yes"
    <3>1. RenderMesh(site, m) \in air
      BY <1>3, <1>10, <2>1 DEF air, there, RenderWireless
    <3>2. RenderMesh(site, m).ref = <<"wireless", <<"mesh", m.id, m.band>>>>
      BY DEF RenderMesh, Want
    <3> QED  BY <1>5, <1>7, <3>1, <3>2
  <2>2. CASE ~there(m.net) \/ caps.mesh = "unknown"
    <3>1. IF there(m.net) THEN caps.mesh = "unknown" ELSE lost
      BY <1>6, <1>10, <2>2
    <3> QED  BY <1>3, <1>7, <1>10, <3>1 DEF there, Retained
  <2> QED  BY <1>10, <2>1, <2>2
<1> QED
  BY <1>8, <1>9, <1>10 DEF StillAsked

LEMMA StagingKeepsUnread ==
    ASSUME ProvisionInv, DocInv, [ProvisionNext]_provisionVars, Staging,
           NEW x \in Owned(uci), At(uci', x.ref) = {}
    PROVE  /\ WantsVLAN(site) /\ caps.bridge = "unread"
                => x.ref[1] \notin {"network", "dhcp", "firewall"}
           /\ dev.wireless => caps.read \/ x.ref[1] # "wireless"
           /\ dev.wireless /\ caps.read => x.ref \notin StillAsked
<1> DEFINE ops == run.plan.ops
           doc == run.plan.doc
           seen == run.plan.seen
<1>1. run.pc = "planned" /\ uci' = Staged(ops, uci)
  BY StagingIsStage
<1>2. Sections(uci) /\ ops.drop = Prune(doc, seen) /\ doc = Render(site, dev, caps, seen)
  BY <1>1 DEF ProvisionInv, BindInv, SectionInv, PlanInv, Planned, DocInv
<1>3. x \in uci /\ IsSection(x)
  BY <1>2 DEF Sections, Owned
<1>4. x.ref \notin Refs(uci')
  BY DEF At, Refs
<1>5. x.ref \in ops.drop
  <2>1. CASE x.ref \in Written(ops)
    BY <1>1, <1>2, <1>4, <2>1, StagedHolds
  <2>2. CASE x.ref \notin Written(ops) \cup ops.drop
    <3>1. Patched(ops, x) \in uci'
      BY <1>1, <1>2, <1>3, <2>2, StagedHolds
    <3>2. Patched(ops, x).ref = x.ref
      BY <1>3, PatchedKeeps
    <3> QED  BY <1>4, <3>1, <3>2 DEF Refs
  <2> QED  BY <2>1, <2>2
<1>6. x.ref \notin Refs(doc.sections) /\ x.ref[1] \notin doc.blind /\ x.ref \notin doc.retain
  BY <1>2, <1>5 DEF Prune
<1>7. doc.blind = Blind(site, dev, caps)
  BY <1>2 DEF Render
<1>8. dev.wireless /\ caps.read => x.ref \notin StillAsked
  BY <1>2, <1>6, UnreadIsKept
<1> QED  BY <1>6, <1>7, <1>8 DEF Blind

(* Staging a batch keeps every section of the router's owner the plan saw, *)
(* but for the IPv6 options it patches and what a wireless station is      *)
(* written over, and deletes none of ours the render could not see enough  *)
(* to decide about.                                                        *)
THEOREM ProvisionTouchesOnlyOurs == ProvisionSpec => TouchesOnlyOurs
<1> DEFINE Ind == ProvisionInv /\ DocInv
<1>1. ProvisionInit => Ind
  BY BindInit, CoverInit DEF ProvisionInv, DocInv, ProvisionInit, Idle
<1>2. Ind /\ [ProvisionNext]_provisionVars => Ind'
  BY BindStep, CoverStep, DocStep DEF ProvisionInv
<1> DEFINE Spared == Staging => \A x \in uci \cap run.plan.seen : ~x.own /\ x.ref[2][1] # "up" =>
                     \E y \in At(uci', x.ref) :
                         /\ ~y.own /\ y.type = x.type
                         /\ Except(x.opts, PatchedOptions) = Except(y.opts, PatchedOptions)
           Unread == Staging => \A x \in Owned(uci) : At(uci', x.ref) = {} =>
                       /\ WantsVLAN(site) /\ caps.bridge = "unread"
                             => x.ref[1] \notin {"network", "dhcp", "firewall"}
                       /\ dev.wireless => caps.read \/ x.ref[1] # "wireless"
                       /\ dev.wireless /\ caps.read => x.ref \notin StillAsked
<1>3. Ind /\ [ProvisionNext]_provisionVars => [Spared]_provisionVars
  BY StagingKeepsForeign DEF Plain
<1>4. Ind /\ [ProvisionNext]_provisionVars => [Unread]_provisionVars
  BY StagingKeepsUnread
<1>5. ForeignKept <=> [][Spared]_provisionVars
  BY DEF ForeignKept
<1>6. IgnoranceKeeps <=> [][Unread]_provisionVars
  BY DEF IgnoranceKeeps
<1> HIDE DEF Ind, Spared, Unread
<1>7. ProvisionSpec => []Ind /\ [][ProvisionNext]_provisionVars
  BY <1>1, <1>2, PTL DEF ProvisionSpec
<1>8. []Ind /\ [][ProvisionNext]_provisionVars => [][Spared]_provisionVars /\ [][Unread]_provisionVars
  BY <1>3, <1>4, PTL
<1> QED  BY <1>5, <1>6, <1>7, <1>8 DEF TouchesOnlyOurs
=============================================================================
