------------------------------ MODULE Telemetry ------------------------------
(***************************************************************************)
(* Telemetry of one inventory id (internal/telemetry, store/rollup.go):    *)
(* the raw samples in RAM, the baselines that turn counters into rates,    *)
(* the five-minute rows, the hourly rows, and the maintenance tick that    *)
(* moves the former into the latter.                                       *)
(*                                                                         *)
(* Time is counted in rollup windows, and one series stands for all of the *)
(* device's.  With one device and one series SQLite gives every new series *)
(* row the number of the one that was deleted, which is the worst case:    *)
(* rollup rows that outlive their series belong to the next one.           *)
(* Samples and rows carry, as a ghost, the routers they were read from.    *)
(***************************************************************************)
EXTENDS Integers, Sequences, FiniteSets, SequencesExt, FiniteSetsExt

CONSTANTS
    Routers,        \* the routers that may hold the id one after the other
    NoRouter,       \* no router
    HourLen,        \* windows in an hour
    FiveMinute,     \* Retention.FiveMinute, in windows
    Hourly,         \* Retention.Hourly, in windows
    IdleWindows,    \* Options.IdleWindows
    Capacity,       \* Options.Capacity
    MaxFaults       \* bound: failed database writes

(* The default retentions are 14 and 396 days: an hour row outlives its     *)
(* five-minute rows, the alignment of the cut included.                    *)
ASSUME TelemetryAssumption ==
    /\ HourLen \in Nat \ {0} /\ Capacity \in Nat \ {0}
    /\ FiveMinute \in Nat /\ Hourly \in Nat
    /\ FiveMinute >= HourLen /\ Hourly >= FiveMinute + (HourLen - 1)
    /\ IdleWindows \in Nat \ {0} /\ MaxFaults \in Nat
    /\ NoRouter \notin Routers

VARIABLES
    now,        \* the current window
    holder,     \* the router whose row has the id, or NoRouter
    series,     \* TRUE while the device has its series row
    ring,       \* Store.series: the samples, oldest first
    base,       \* Store.counters: the reading the next rate is measured from
    seen,       \* Store.reboots: the last uptime and when it was read
    batch,      \* the windows a flush has drained and not yet written
    five,       \* rollup_5m
    hour,       \* rollup_1h
    tick,       \* the maintenance cycle: its next stage and the time it began
    ticked,     \* the window of the last cycle
    lifecycle,  \* who holds telemetryLifecycle: "free", "flush" or "delete"
    faults,     \* number of failed writes so far
    spliced     \* ghost: a rate was measured between two boots or two routers

ladder == <<series, five, hour>>
memory == <<ring, base, seen>>

NoBase == [r |-> NoRouter, boot |-> 0, uptime |-> 0, at |-> 0]
NoTick == [next |-> "none", at |-> 0]

HourOf(w) == w \div HourLen
CountOf(rows) == MapThenSumSet(LAMBDA x : x.cnt, rows)

-----------------------------------------------------------------------------
(* Appends a sample; at capacity the oldest is overwritten. *)
Sampled(s) ==
    LET all == Append(ring, [r |-> s.r, w |-> s.at])
    IN  IF Len(all) > Capacity THEN Tail(all) ELSE all

(* observeUptime: the uptime advanced by less than the time that passed. *)
WentBackwards(s) == seen # NoBase /\ s.uptime < seen.uptime
Rebooted(s) == seen # NoBase /\ s.uptime < seen.uptime + (s.at - seen.at)

(* rate: the baseline it is measured from; without one it only rebases. *)
MeasuredFrom(s) == IF Rebooted(s) THEN NoBase ELSE base

(* Observe of a full snapshot: uptime first, then the gauge and the rate.  *)
(* A router that starts again within a window of its last start is beyond  *)
(* the tolerance.                                                          *)
ObserveFull(s) ==
    LET b == MeasuredFrom(s)
    IN  /\ ring' = Sampled(s)
        /\ seen' = [r |-> s.r, boot |-> s.boot, uptime |-> s.uptime, at |-> s.at]
        /\ base' = seen'
        /\ spliced' = (spliced \/ (b # NoBase /\ <<b.r, b.boot>> # <<s.r, s.boot>>
                                    /\ ~(b.r = s.r /\ b.uptime = 0)))

(* Observe of a WAN-only snapshot: it carries no uptime and no counters. *)
ObserveWAN(s) == ring' = Sampled(s) /\ UNCHANGED <<base, seen, spliced>>

(* ForgetDevice. *)
ForgetDevice == ring' = <<>> /\ base' = NoBase /\ seen' = NoBase

-----------------------------------------------------------------------------
(* expireStale, and the retirement of a series that produced nothing. *)
Expired(b) == IF b.at < now - IdleWindows THEN NoBase ELSE b
Aging == {Expired(base)} \cup (IF ring = <<>> THEN {NoBase} ELSE {})

(* drain: the rows of the windows that have completely elapsed. *)
Completed == {i \in DOMAIN ring : ring[i].w < now}
Drained ==
    {[w |-> w, cnt |-> Cardinality({i \in Completed : ring[i].w = w}),
      of |-> {ring[i].r : i \in {k \in Completed : ring[k].w = w}}] : w \in {ring[i].w : i \in Completed}}

(* The lifecycle lock must be free. *)
LifecycleUnguarded == TRUE
LifecycleFree == lifecycle = "free"

(* What drain keeps, in its order: the elements of s at the indices K. *)
Kept(s, K) ==
    [k \in 1..Cardinality(K) |-> s[CHOOSE i \in K : Cardinality({h \in K : h <= i}) = k]]

(* Tick: Flush under the lifecycle lock, which it keeps until the rows are written. *)
Flush ==
    /\ tick = NoTick /\ ticked < now /\ LifecycleFree
    /\ lifecycle' = "flush"
    /\ tick' = [next |-> "write", at |-> now]
    /\ ticked' = now
    /\ batch' = Drained
    /\ ring' = Kept(ring, DOMAIN ring \ Completed)
    /\ base' \in Aging
    /\ UNCHANGED <<now, holder, seen, ladder, faults, spliced>>

Upserted(rows, new) == {x \in rows : \A y \in new : y.w # x.w} \cup new

(* WriteRollups in one transaction: the series row is created only while   *)
(* the device exists; without it the rows are dropped.                     *)
WriteRollups ==
    /\ tick.next = "write"
    /\ lifecycle' = "free" /\ batch' = {}
    /\ tick' = [tick EXCEPT !.next = "fold"]
    /\ IF batch = {} \/ (holder = NoRouter /\ ~series) THEN UNCHANGED <<series, five>>
       ELSE series' = TRUE /\ five' = Upserted(five, batch)
    /\ UNCHANGED <<now, holder, memory, hour, ticked, faults, spliced>>

(* The write fails: the window is lost. *)
LoseRollups ==
    /\ tick.next = "write" /\ batch # {} /\ faults < MaxFaults
    /\ faults' = faults + 1
    /\ lifecycle' = "free" /\ batch' = {}
    /\ tick' = [tick EXCEPT !.next = "fold"]
    /\ UNCHANGED <<now, holder, memory, ladder, ticked, spliced>>

(* FoldHourly starts again at the last hour that was folded. *)
FloorAfter == IF hour = {} THEN 0 ELSE Max({y.h : y \in hour}) + 1
Floor == IF hour = {} THEN 0 ELSE Max({y.h : y \in hour})

(* The upsert keeps an hour that counts more. *)
MayReplaceAlways(x, y) == TRUE
MayReplace(x, y) == x.cnt >= y.cnt

Folded ==
    LET rows == {x \in five : HourOf(x.w) >= Floor /\ HourOf(x.w) < HourOf(tick.at)}
        In(h) == {x \in rows : HourOf(x.w) = h}
        new == {[h |-> h, cnt |-> CountOf(In(h)), of |-> UNION {x.of : x \in In(h)}] : h \in {HourOf(x.w) : x \in rows}}
    IN  {y \in hour : \A x \in new : x.h = y.h => ~MayReplace(x, y)}
        \cup {x \in new : \A y \in hour : x.h = y.h => MayReplace(x, y)}

FoldHourly ==
    /\ tick.next = "fold"
    /\ tick' = [tick EXCEPT !.next = "prune"]
    /\ hour' = Folded
    /\ UNCHANGED <<now, holder, series, memory, batch, five, ticked, lifecycle, faults, spliced>>

(* A failed fold ends the cycle before it prunes; so does a failed prune. *)
EndTickEarly ==
    /\ tick.next \in {"fold", "prune"} /\ faults < MaxFaults
    /\ faults' = faults + 1
    /\ tick' = NoTick
    /\ UNCHANGED <<now, holder, memory, batch, ladder, ticked, lifecycle, spliced>>

(* Prune: the five-minute cut is aligned down to an hour, and a series     *)
(* without rows goes.                                                      *)
Cut(t) == HourOf(t - FiveMinute) * HourLen

Prune ==
    /\ tick.next = "prune"
    /\ tick' = NoTick
    /\ five' = {x \in five : x.w >= Cut(tick.at)}
    /\ hour' = {y \in hour : y.h * HourLen >= tick.at - Hourly}
    /\ series' = (series /\ (five' # {} \/ hour' # {}))
    /\ UNCHANGED <<now, holder, memory, batch, ticked, lifecycle, faults, spliced>>

(* SweepOrphans: the rows whose series is gone. *)
SweepOrphans == IF series THEN UNCHANGED <<five, hour>> ELSE five' = {} /\ hour' = {}

TelemetryInit ==
    /\ now = 0 /\ holder \in Routers /\ series = FALSE
    /\ ring = <<>> /\ base = NoBase /\ seen = NoBase
    /\ batch = {} /\ five = {} /\ hour = {}
    /\ tick = NoTick /\ ticked = 0
    /\ lifecycle = "free" /\ faults = 0 /\ spliced = FALSE
=============================================================================
