-------------------------------- MODULE Fleet --------------------------------
(***************************************************************************)
(* The inventory id of a device over the routers that hold it one after    *)
(* the other (daemon/fleet.go, deleteDevice in daemon/adopt.go, Add and    *)
(* Remove of the collector, telemetry).  Deleting a row frees its number,  *)
(* SQLite gives it to the next router, and everything the process and the  *)
(* database keep under the number must have gone by then.                  *)
(*                                                                         *)
(* A poll is in flight between reading the router and the sink.  Every     *)
(* snapshot carries the router and the boot it was read from, as a ghost.  *)
(***************************************************************************)
EXTENDS Telemetry

CONSTANTS
    MaxTime,        \* bound: windows
    MaxPolls,       \* bound: polls
    MaxOutages,     \* bound: outages, of routers and of the controller
    MaxDeletes      \* bound: un-adoptions

ASSUME FleetAssumption == {MaxTime, MaxPolls, MaxOutages, MaxDeletes} \subseteq Nat

VARIABLES
    boot,       \* the restarts of each router and the window of the last one
    poller,     \* the target of the poller under the id, or NoRouter
    quiesced,   \* the poller is quiesced by a deletion
    snap,       \* the snapshot in flight
    sink,       \* sinkUp, sinkKnown, sinkFirmware and meshes: whose they are
    liveState,  \* lastClients, lastStations and lastPresence: whose they are
    aliases,    \* the topology ingestor's aliases: whose they are
    position,   \* the log ingestor's position in the router's log: whose it is
    cursor,     \* the durable row of that position: whose it is
    del,        \* the step of deleteDevice
    retrack,    \* the row Retrack has read and not yet tracked
    polls,      \* number of polls so far
    deletes,    \* number of deletions so far
    outages,    \* number of restarts so far
    revived,    \* ghost: Retrack tracked a row that had gone
    unswept     \* ghost: a sweep of orphaned rollups failed

ingested == <<aliases, position, cursor>>
control == <<boot, poller, quiesced, del, retrack, polls, deletes, outages, revived, unswept>>
fleet == <<control, snap, sink, liveState, ingested>>
telemetry == <<now, holder, series, ring, base, seen, batch, five, hour, tick, ticked, lifecycle, faults, spliced>>
fleetVars == <<telemetry, fleet>>

NoSnap == [r |-> NoRouter, at |-> 0, boot |-> 0, uptime |-> 0, kind |-> "none"]

FleetInit ==
    /\ TelemetryInit
    /\ boot = [r \in Routers |-> [n |-> 0, at |-> -1]]
    /\ poller = holder /\ quiesced = FALSE /\ snap = NoSnap
    /\ sink = NoRouter /\ liveState = NoRouter /\ aliases = NoRouter /\ position = NoRouter /\ cursor = NoRouter
    /\ del = "no" /\ retrack = NoRouter
    /\ polls = 0 /\ deletes = 0 /\ outages = 0 /\ revived = FALSE /\ unswept = FALSE

(* Time passes.  A poll times out, and a maintenance cycle, the locked part *)
(* of a deletion and a request end, long before a window has passed: of     *)
(* these only a poll is let across a boundary.                              *)
Advance ==
    /\ now < MaxTime /\ now' = now + 1
    /\ snap.kind # "none" => snap.at = now
    /\ tick = NoTick /\ lifecycle = "free" /\ retrack = NoRouter
    /\ UNCHANGED <<holder, ladder, memory, batch, tick, ticked, lifecycle, faults, spliced, fleet>>

(* A router starts again.  Before the first reading of a router a restart   *)
(* only changes the uptime that reading has, and is left out.               *)
Reboot(r) ==
    /\ r \in {seen.r, snap.r}
    /\ outages < MaxOutages /\ outages' = outages + 1
    /\ boot' = [boot EXCEPT ![r] = [n |-> @.n + 1, at |-> now]]
    /\ UNCHANGED <<telemetry, poller, quiesced, snap, sink, liveState, ingested, del, retrack, polls, deletes, revived, unswept>>

-----------------------------------------------------------------------------
(* registerDevice: the row and the poller under the lifecycle lock; Add    *)
(* replaces the target of a poller that is already there.                  *)
Register(r) ==
    /\ holder = NoRouter /\ LifecycleFree
    /\ holder' = r
    /\ poller' = r
    /\ UNCHANGED <<now, ladder, memory, batch, tick, ticked, lifecycle, faults, spliced,
                   boot, quiesced, snap, sink, liveState, ingested, del, retrack, polls, deletes, outages, revived, unswept>>

(* A poll: Connect looks the router up by its address, so one that is not  *)
(* in the inventory cannot be reached.                                     *)
Poll(kind) ==
    /\ poller # NoRouter /\ ~quiesced /\ snap.kind = "none"
    /\ polls < MaxPolls /\ polls' = polls + 1
    /\ kind # "failed" => holder = poller
    /\ snap' = [r |-> poller, at |-> now, boot |-> boot[poller].n, uptime |-> now - boot[poller].at, kind |-> kind]
    /\ UNCHANGED <<telemetry, boot, poller, quiesced, sink, liveState, ingested, del, retrack, deletes, outages, revived, unswept>>

(* The sink notes every full poll, answered or not, ... *)
NoteReachability(s) == sink' = s.r

(* ... reads the log page on from the position in memory, or else from the *)
(* durable one, and moves both once the page is stored, ...                *)
Position == IF position = NoRouter THEN cursor ELSE position
RecordLogs(s) == position' = s.r /\ cursor' = s.r

(* ... learns the interface addresses of a device of the inventory, or     *)
(* that they are unknown, ...                                              *)
UpdateAliases(s) == aliases' = s.r
RecordTopology(s) == IF holder = NoRouter THEN UNCHANGED aliases ELSE UpdateAliases(s)

(* ... and keeps the clients it saw. *)
RecordLive(s) == liveState' = s.r

(* emit: a full snapshot.  When last_seen cannot be written, the log page  *)
(* and the topology are left out.                                          *)
EmitFull ==
    /\ snap.kind = "full"
    /\ NoteReachability(snap)
    /\ \/ RecordLogs(snap) /\ RecordTopology(snap) /\ UNCHANGED faults
       \/ faults < MaxFaults /\ faults' = faults + 1 /\ UNCHANGED ingested
    /\ ObserveFull(snap)
    /\ RecordLive(snap)
    /\ snap' = NoSnap
    /\ UNCHANGED <<now, holder, ladder, batch, tick, ticked, lifecycle, control>>

EmitFailed ==
    /\ snap.kind = "failed"
    /\ NoteReachability(snap)
    /\ UpdateAliases(snap)
    /\ snap' = NoSnap
    /\ UNCHANGED <<telemetry, control, liveState, position, cursor>>

(* The auxiliary poll of each minute: the WAN and the log. *)
EmitAux ==
    /\ snap.kind = "aux"
    /\ ObserveWAN(snap)
    /\ RecordLogs(snap)
    /\ snap' = NoSnap
    /\ UNCHANGED <<now, holder, ladder, batch, tick, ticked, lifecycle, faults, control, sink, liveState, aliases>>

(* Retrack, after a change of the poll interval: it reads the row and      *)
(* tracks it without the lifecycle lock.  One that crosses no deletion     *)
(* finds the target it would set, so only the others are begun.            *)
RetrackReads ==
    /\ retrack = NoRouter /\ del = "quiesced"
    /\ retrack' = holder
    /\ UNCHANGED <<telemetry, boot, poller, quiesced, snap, sink, liveState, ingested, del, polls, deletes, outages, revived, unswept>>

RetrackAdds ==
    /\ retrack # NoRouter
    /\ poller' = retrack
    /\ revived' = (revived \/ holder # retrack)
    /\ retrack' = NoRouter
    /\ UNCHANGED <<telemetry, boot, quiesced, snap, sink, liveState, ingested, del, polls, deletes, outages, unswept>>

-----------------------------------------------------------------------------
(* deleteDevice quiesces the poller and waits for its cycle, ... *)
BeginDelete ==
    /\ del = "no" /\ holder # NoRouter
    /\ deletes < MaxDeletes /\ deletes' = deletes + 1
    /\ del' = "quiesced"
    /\ quiesced' = (poller # NoRouter)
    /\ UNCHANGED <<telemetry, boot, poller, snap, sink, liveState, ingested, retrack, polls, outages, revived, unswept>>

RemovePoller == poller' = NoRouter /\ quiesced' = FALSE

(* ... takes the lifecycle lock and deletes the row, and its series and    *)
(* log cursor with it, then stops the poller, after which nothing of it is emitted, ...    *)
CommitDelete ==
    /\ del = "quiesced" /\ snap.kind = "none" /\ LifecycleFree
    /\ lifecycle' = "delete"
    /\ holder' = NoRouter
    /\ series' = FALSE
    /\ cursor' = NoRouter
    /\ RemovePoller
    /\ del' = "removed"
    /\ UNCHANGED <<now, memory, batch, five, hour, tick, ticked, faults, spliced,
                   boot, snap, sink, liveState, aliases, position, retrack, polls, deletes, outages, revived, unswept>>

(* ... or fails and lets the poller go on, ... *)
RefuseDelete ==
    /\ del = "quiesced" /\ snap.kind = "none" /\ LifecycleFree /\ faults < MaxFaults
    /\ faults' = faults + 1
    /\ del' = "no" /\ quiesced' = FALSE
    /\ UNCHANGED <<now, holder, ladder, memory, batch, tick, ticked, lifecycle, spliced,
                   boot, poller, snap, sink, liveState, ingested, retrack, polls, deletes, outages, revived, unswept>>

(* ... forgets what the process keeps under the id, ... *)
PurgeDeviceState ==
    /\ del = "removed"
    /\ del' = "purged"
    /\ ForgetDevice
    /\ sink' = NoRouter /\ liveState' = NoRouter /\ aliases' = NoRouter /\ position' = NoRouter
    /\ UNCHANGED <<now, holder, ladder, batch, tick, ticked, lifecycle, faults, spliced,
                   cursor, boot, poller, quiesced, snap, retrack, polls, deletes, outages, revived, unswept>>

(* ... and sweeps the rollups of the series that are gone; a failure is only logged. *)
SweepDeleted ==
    /\ del = "purged"
    /\ SweepOrphans
    /\ del' = "no" /\ lifecycle' = "free"
    /\ UNCHANGED <<now, holder, series, memory, batch, tick, ticked, faults, spliced,
                   boot, poller, quiesced, snap, sink, liveState, ingested, retrack, polls, deletes, outages, revived, unswept>>

SweepFails ==
    /\ del = "purged" /\ faults < MaxFaults
    /\ faults' = faults + 1
    /\ unswept' = TRUE
    /\ del' = "no" /\ lifecycle' = "free"
    /\ UNCHANGED <<now, holder, ladder, memory, batch, tick, ticked, spliced,
                   boot, poller, quiesced, snap, sink, liveState, ingested, retrack, polls, deletes, outages, revived>>

(* The process ends at any point and a new one starts: StartCollector adds *)
(* the adopted devices and sweeps; a failure is only logged.  A shutdown   *)
(* that was asked for is a Flush and a WriteRollups before it.             *)
Restart ==
    /\ outages < MaxOutages /\ outages' = outages + 1
    /\ ForgetDevice
    /\ batch' = {} /\ tick' = NoTick /\ lifecycle' = "free"
    /\ sink' = NoRouter /\ liveState' = NoRouter /\ aliases' = NoRouter /\ position' = NoRouter /\ snap' = NoSnap
    /\ poller' = holder /\ quiesced' = FALSE
    /\ del' = "no" /\ retrack' = NoRouter /\ revived' = FALSE
    /\ \/ SweepOrphans /\ UNCHANGED <<faults, unswept>>
       \/ /\ faults < MaxFaults /\ faults' = faults + 1
          /\ unswept' = (unswept \/ (~series /\ five \cup hour # {}))
          /\ UNCHANGED <<five, hour>>
    /\ UNCHANGED <<now, holder, series, ticked, spliced, cursor, boot, polls, deletes>>

-----------------------------------------------------------------------------
FleetNext ==
    \/ Advance
    \/ \E r \in Routers : Reboot(r)
    \/ \E r \in Routers : Register(r)
    \/ \E kind \in {"full", "failed", "aux"} : Poll(kind)
    \/ EmitFull
    \/ EmitFailed
    \/ EmitAux
    \/ RetrackReads
    \/ RetrackAdds
    \/ BeginDelete
    \/ CommitDelete
    \/ RefuseDelete
    \/ PurgeDeviceState
    \/ SweepDeleted
    \/ SweepFails
    \/ Restart
    \/ Flush /\ UNCHANGED fleet
    \/ WriteRollups /\ UNCHANGED fleet
    \/ LoseRollups /\ UNCHANGED fleet
    \/ FoldHourly /\ UNCHANGED fleet
    \/ EndTickEarly /\ UNCHANGED fleet
    \/ Prune /\ UNCHANGED fleet

FleetSpec == FleetInit /\ [][FleetNext]_fleetVars

-----------------------------------------------------------------------------
(***************************************************************************)
(* Whatever is kept under the id is the present holder's: the samples and  *)
(* the baselines, the reachability, the live state, the position in the    *)
(* log that the next page is read from, and the rows that QuerySeries      *)
(* returns for it, whatever was in flight, drained or only half deleted    *)
(* when the last router left.  Excepted is what the code lets through: a   *)
(* Retrack that revived a deletion, and a sweep that failed.               *)
(***************************************************************************)
OwnData ==
    (holder # NoRouter /\ ~revived) =>
        /\ \A i \in DOMAIN ring : ring[i].r = holder
        /\ {base.r, seen.r, sink, liveState, aliases, Position} \subseteq {holder, NoRouter}
        /\ series /\ ~unswept => \A x \in five \cup hour : x.of = {holder}

(***************************************************************************)
(* No rate is measured between counters of two routers or of two boots of  *)
(* one router, however long the polls failed in between (observeUptime,    *)
(* rate and ForgetDevice).  Excepted is a router that starts twice within  *)
(* the tolerance of observeUptime.                                         *)
(***************************************************************************)
NoSplicedRate == ~spliced

(***************************************************************************)
(* A five-minute row goes only when its hour counts at least what the rows *)
(* of that hour do, through late samples, failed folds and restarts.       *)
(***************************************************************************)
PrunedIsFolded ==
    [][\A x \in five : (series' /\ \A y \in five' : y.w # x.w) =>
          \E y \in hour : y.h = HourOf(x.w)
                          /\ y.cnt >= CountOf({z \in five : HourOf(z.w) = HourOf(x.w)})]_fleetVars

(***************************************************************************)
(* The count of an hourly row never falls while the series lives and the   *)
(* hour is retained, although the fold visits the last hour again after    *)
(* its five-minute rows have been replaced by those of late samples.       *)
(***************************************************************************)
HourNeverShrinks ==
    [][\A y \in hour : (series' /\ y.h * HourLen >= now - Hourly) =>
          \E z \in hour' : z.h = y.h /\ z.cnt >= y.cnt]_fleetVars

(***************************************************************************)
(* Retention loses detail and never history.                               *)
(***************************************************************************)
HistoryIsKept == PrunedIsFolded /\ HourNeverShrinks
=============================================================================
