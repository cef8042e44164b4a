----------------------------- MODULE Admission -----------------------------
(***************************************************************************)
(* Admission of work and the shutdown that drains it: the operation gate,  *)
(* the request gate and the site mutex of internal/api/admission.go, the   *)
(* apply barrier of internal/daemon/apply_barrier.go, the confirmation of  *)
(* a restore, the resumption of router writes, and shutdownLifecycle of    *)
(* internal/daemon/daemon.go, which may close the database only when none  *)
(* of the work that was admitted still uses it.                            *)
(*                                                                         *)
(* A counter whose release is wrapped in sync.Once is the set of those who *)
(* have begun and not released.  A wait with a deadline is a step that     *)
(* looks, a step that makes the channel, and one that is woken or expires. *)
(***************************************************************************)
EXTENDS Naturals, FiniteSets

CONSTANTS
    Handlers,     \* goroutines of net/http
    Background,   \* detached goroutines: automatic re-probes, neighbour nudges
    TasksOf,      \* what each handler may be asked to do
    None

Tasks == {"mutate", "apply", "job", "live", "confirm", "resume"}

ASSUME TasksAssumption == TasksOf \in [Handlers -> SUBSET Tasks]
ASSUME OwnersAssumption ==
    /\ None \notin Handlers
    /\ {"job", "loop"} \cap (Handlers \cup Background) = {}
    /\ Handlers \cap Background = {}

VARIABLES
    ops,      \* operationGate: closed, exclusive, suppressed, leases, idle
    reqs,     \* requestGate: closed, active, idle
    applies,  \* applyBarrier: active, idle
    site,     \* who holds siteMu
    task, at, \* each handler's request and its place in the handler
    jobs,     \* the job managers and the restore manager
    conns,    \* Hub.conns
    bg,       \* detached goroutines that hold a lease
    loop,     \* the neighbour reconciler
    poll,     \* the collector, and samples it left in the ring
    fence,    \* router-write suppression on disk, in the daemon, in the server
    restore,  \* the restore marker and restoreRestartAccepted
    sd,       \* shutdownLifecycle and its local variables
    data,     \* the database and keyring, the log, the process lock
    late      \* history: handlers queued on siteMu when admission closed

vars == <<ops, reqs, applies, site, task, at, jobs, conns, bg, loop, poll,
          fence, restore, sd, data, late>>
gates  == <<ops, reqs, applies>>
worker == <<jobs, conns, bg, loop, poll>>
ending == <<sd, data>>

Kinds == {"apply", "backup", "restore_prepare", "capability", "neighbour_reconcile"}
operationWritesRouter(kind) == kind \in {"apply", "capability", "neighbour_reconcile"}
KindOf == [apply |-> "apply", job |-> "backup", confirm |-> "restore_prepare"]
Lease(owner, kind) == [owner |-> owner, kind |-> kind]

-----------------------------------------------------------------------------
(* The gates                                                               *)

Signal(idle, empty) == IF empty /\ idle = "open" THEN "closed" ELSE idle

MayBeginClosed(kind) ==
    /\ ~ops.exclusive
    /\ ~(ops.suppressed /\ operationWritesRouter(kind))

(* operationGate.begin *)
MayBegin(kind) ==
    /\ ~ops.closed
    /\ ~ops.exclusive
    /\ ~(ops.suppressed /\ operationWritesRouter(kind))

Begin(owner, kind) == ops' = [ops EXCEPT !.leases = @ \cup {Lease(owner, kind)}]

(* the function begin returns *)
Release(owner, kind) ==
    LET left == ops.leases \ {Lease(owner, kind)}
    IN  ops' = [ops EXCEPT !.leases = left,
                           !.idle = Signal(@, left = {} /\ ~ops.exclusive)]

(* the function upgrade and beginExclusive return *)
ReleaseExclusive ==
    ops' = [ops EXCEPT !.exclusive = FALSE, !.idle = Signal(@, ops.leases = {})]

MayUpgradeBusy(owner, kind) ==
    /\ ~ops.closed /\ ~ops.exclusive /\ ~ops.suppressed
    /\ Lease(owner, kind) \in ops.leases

(* operationGate.upgrade *)
MayUpgrade(owner, kind) ==
    /\ ~ops.closed /\ ~ops.exclusive /\ ~ops.suppressed
    /\ ops.leases = {Lease(owner, kind)}

Upgrade(owner, kind) ==
    ops' = [ops EXCEPT !.exclusive = TRUE, !.leases = @ \ {Lease(owner, kind)}]

Busy(g) ==
    CASE g = "applies"    -> applies.active # {}
      [] g = "operations" -> ops.exclusive \/ ops.leases # {}
      [] g = "requests"   -> reqs.active # {}

Goto(h, place) == at' = [at EXCEPT ![h] = place]

(* What a handler's deferred calls do first: the lease, if it holds one. *)
Unwind(h) == IF task[h] = "apply" THEN "release" ELSE "leave"

-----------------------------------------------------------------------------
(* Requests                                                                *)

Admit(h, t) ==
    /\ at[h] = "idle" /\ t \in TasksOf[h]
    /\ ~reqs.closed
    /\ reqs' = [reqs EXCEPT !.active = @ \cup {h}]
    /\ task' = [task EXCEPT ![h] = t]
    /\ Goto(h, "admitted")
    /\ UNCHANGED <<ops, applies, site, worker, fence, restore, ending, late>>

(* beginOperation in a handler: refused, it answers and returns *)
BeginOperation(h) ==
    /\ \/ at[h] = "admitted" /\ task[h] \in {"apply", "job"}
       \/ at[h] = "confirming"
    /\ \/ MayBegin(KindOf[task[h]]) /\ Begin(h, KindOf[task[h]]) /\ Goto(h, "leased")
       \/ /\ ~MayBegin(KindOf[task[h]])
          /\ Goto(h, IF task[h] = "confirm" THEN "finish" ELSE "leave")
          /\ UNCHANGED ops
    /\ UNCHANGED <<reqs, applies, site, task, worker, fence, restore, ending, late>>

Queued(h) ==
    \/ task[h] = "mutate" /\ at[h] = "admitted"
    \/ task[h] = "apply" /\ at[h] = "leased"

(* LockContext: the three arms of its select, and the check after the token *)
LockSite(h) ==
    /\ Queued(h) /\ site = None
    /\ site' = h
    /\ Goto(h, "holding")
    /\ UNCHANGED <<gates, task, worker, fence, restore, ending, late>>

LockCancelled(h) ==
    /\ Queued(h)
    /\ Goto(h, Unwind(h))
    /\ UNCHANGED <<gates, site, task, worker, fence, restore, ending, late>>

CheckNothing(h) ==
    /\ at[h] = "holding"
    /\ Goto(h, "working")
    /\ UNCHANGED <<gates, site, task, worker, fence, restore, ending, late>>

LockStopped(h) == reqs.closed /\ LockCancelled(h)

CheckStopping(h) ==
    /\ at[h] = "holding"
    /\ IF reqs.closed
         THEN Goto(h, Unwind(h)) /\ site' = None
         ELSE Goto(h, "working") /\ UNCHANGED site
    /\ UNCHANGED <<gates, task, worker, fence, restore, ending, late>>

TrackApply(h) ==
    /\ at[h] = "working" /\ task[h] = "apply"
    /\ applies' = [applies EXCEPT !.active = @ \cup {h}]
    /\ Goto(h, "applying")
    /\ UNCHANGED <<ops, reqs, site, task, worker, fence, restore, ending, late>>

EndApplySilently(h) ==
    /\ at[h] = "applying"
    /\ applies' = [applies EXCEPT !.active = @ \ {h}]
    /\ Goto(h, "recording")
    /\ UNCHANGED <<ops, reqs, site, task, worker, fence, restore, ending, late>>

(* The deferred end(); the terminal receipt is written after it. *)
EndApply(h) ==
    /\ at[h] = "applying"
    /\ applies' = [active |-> applies.active \ {h},
                   idle |-> Signal(applies.idle, applies.active = {h})]
    /\ Goto(h, "recording")
    /\ UNCHANGED <<ops, reqs, site, task, worker, fence, restore, ending, late>>

UnlockSite(h) ==
    /\ at[h] = "recording" \/ at[h] = "working"
    /\ site' = None
    /\ Goto(h, Unwind(h))
    /\ UNCHANGED <<gates, task, worker, fence, restore, ending, late>>

ReleaseOperation(h) ==
    /\ at[h] = "release"
    /\ Release(h, KindOf[task[h]])
    /\ Goto(h, IF task[h] = "confirm" THEN "finish" ELSE "leave")
    /\ UNCHANGED <<reqs, applies, site, task, worker, fence, restore, ending, late>>

(* the deferred done() of admitRequests *)
Leave(h) ==
    /\ at[h] = "leave"
    /\ reqs' = [reqs EXCEPT !.active = @ \ {h},
                            !.idle = Signal(@, reqs.active = {h})]
    /\ Goto(h, "idle")
    /\ task' = [task EXCEPT ![h] = "mutate"]
    /\ late' = late \ {h}
    /\ UNCHANGED <<ops, applies, site, worker, fence, restore, ending>>

-----------------------------------------------------------------------------
(* Jobs: the lease is handed to the goroutine that runs the job            *)

StartJob(h) ==
    /\ at[h] = "leased" /\ task[h] = "job"
    /\ IF jobs.closing \/ jobs.running # "no"
         THEN Goto(h, "release") /\ UNCHANGED <<ops, jobs>>
         ELSE /\ Goto(h, "leave")
              /\ jobs' = [jobs EXCEPT !.running = "run"]
              /\ ops' = [ops EXCEPT !.leases =
                           (@ \ {Lease(h, "backup")}) \cup {Lease("job", "backup")}]
    /\ UNCHANGED <<reqs, applies, site, task, conns, bg, loop, poll, fence, restore, ending, late>>

(* complete() and, in an outer defer, running-- *)
CompleteJob ==
    /\ jobs.running = "run"
    /\ Release("job", "backup")
    /\ jobs' = [jobs EXCEPT !.running = "done"]
    /\ UNCHANGED <<reqs, applies, site, task, at, conns, bg, loop, poll, fence, restore, ending, late>>

EndJob ==
    /\ jobs.running = "done"
    /\ jobs' = [jobs EXCEPT !.running = "no"]
    /\ UNCHANGED <<gates, site, task, at, conns, bg, loop, poll, fence, restore, ending, late>>

-----------------------------------------------------------------------------
(* Live clients: net/http forgets a connection once it is hijacked         *)

UpgradeLive(h) ==
    /\ at[h] = "admitted" /\ task[h] = "live"
    /\ \E ok \in BOOLEAN : Goto(h, IF ok THEN "hijacked" ELSE "leave")
    /\ UNCHANGED <<gates, site, task, worker, fence, restore, ending, late>>

RegisterLive(h) ==
    /\ at[h] = "hijacked"
    /\ conns' = conns \cup {h}
    /\ Goto(h, "live")
    /\ UNCHANGED <<gates, site, task, jobs, bg, loop, poll, fence, restore, ending, late>>

(* the peer goes away *)
EndLive(h) ==
    /\ at[h] = "live"
    /\ conns' = conns \ {h}
    /\ Goto(h, "leave")
    /\ UNCHANGED <<gates, site, task, jobs, bg, loop, poll, fence, restore, ending, late>>

(* Hub.Close closed the socket under the reader *)
DropLive(h) == h \notin conns /\ EndLive(h)

-----------------------------------------------------------------------------
(* Background work                                                         *)

StartBackground(b) ==
    /\ b \notin bg /\ MayBegin("capability")
    /\ Begin(b, "capability")
    /\ bg' = bg \cup {b}
    /\ UNCHANGED <<reqs, applies, site, task, at, jobs, conns, loop, poll, fence, restore, ending, late>>

EndBackground(b) ==
    /\ b \in bg
    /\ Release(b, "capability")
    /\ bg' = bg \ {b}
    /\ UNCHANGED <<reqs, applies, site, task, at, jobs, conns, loop, poll, fence, restore, ending, late>>

(* DistributeNeighbours holds its lease from the first read to the last write *)
BeginCycle ==
    /\ loop.state = "sleep" /\ MayBegin("neighbour_reconcile")
    /\ Begin("loop", "neighbour_reconcile")
    /\ loop' = [loop EXCEPT !.state = "cycle"]
    /\ UNCHANGED <<reqs, applies, site, task, at, jobs, conns, bg, poll, fence, restore, ending, late>>

EndCycle ==
    /\ loop.state = "cycle"
    /\ Release("loop", "neighbour_reconcile")
    /\ loop' = [loop EXCEPT !.state = "sleep"]
    /\ UNCHANGED <<reqs, applies, site, task, at, jobs, conns, bg, poll, fence, restore, ending, late>>

ExitLoop ==
    /\ loop.state = "sleep" /\ loop.cancelled
    /\ loop' = [loop EXCEPT !.state = "off"]
    /\ UNCHANGED <<gates, site, task, at, jobs, conns, bg, poll, fence, restore, ending, late>>

(* A poll writes to the database and leaves its samples in the ring.  Stop
   cancels the pollers before it waits for them. *)
Poll ==
    /\ poll.state = "idle" /\ sd.stage # "collector"
    /\ poll' = [poll EXCEPT !.state = "polling"]
    /\ UNCHANGED <<gates, site, task, at, jobs, conns, bg, loop, fence, restore, ending, late>>

EndPoll ==
    /\ poll.state = "polling"
    /\ poll' = [state |-> "idle", unflushed |-> TRUE]
    /\ UNCHANGED <<gates, site, task, at, jobs, conns, bg, loop, fence, restore, ending, late>>

-----------------------------------------------------------------------------
(* handleConfirmRestore                                                    *)

BeginConfirmation(h) ==
    /\ at[h] = "admitted" /\ task[h] = "confirm"
    /\ IF fence.server \/ jobs.restoresClosed \/ jobs.confirming # None
         THEN Goto(h, "leave") /\ UNCHANGED jobs
         ELSE Goto(h, "confirming") /\ jobs' = [jobs EXCEPT !.confirming = h]
    /\ UNCHANGED <<gates, site, task, conns, bg, loop, poll, fence, restore, ending, late>>

Prepare(h) ==
    /\ at[h] = "leased" /\ task[h] = "confirm"
    /\ \E ok \in BOOLEAN : Goto(h, IF ok THEN "prepared" ELSE "release")
    /\ UNCHANGED <<gates, site, task, worker, fence, restore, ending, late>>

UpgradeToExclusive(h) ==
    /\ at[h] = "prepared"
    /\ IF MayUpgrade(h, "restore_prepare")
         THEN Upgrade(h, "restore_prepare") /\ Goto(h, "exclusive")
         ELSE Goto(h, "release") /\ UNCHANGED ops
    /\ UNCHANGED <<reqs, applies, site, task, worker, fence, restore, ending, late>>

(* The audit row, then CreateIntent, which a marker in place refuses.  The
   marker may be retained although the call failed. *)
CreateIntent(h) ==
    /\ at[h] = "exclusive"
    /\ \/ Goto(h, "releaseExclusive") /\ UNCHANGED restore
       \/ /\ restore.marker = "none"
          /\ restore' = [restore EXCEPT !.marker = "intent"]
          /\ \E ok \in BOOLEAN : Goto(h, IF ok THEN "intent" ELSE "releaseExclusive")
    /\ UNCHANGED <<gates, site, task, worker, fence, ending, late>>

CloseOperations == ops' = [ops EXCEPT !.closed = TRUE]
CloseRequests ==
    /\ reqs' = [reqs EXCEPT !.closed = TRUE]
    /\ late' = IF reqs.closed THEN late ELSE {h \in Handlers : Queued(h)}

ConfirmClosesOperations(h) ==
    /\ at[h] = "intent"
    /\ CloseOperations
    /\ Goto(h, "closing")
    /\ UNCHANGED <<reqs, applies, site, task, worker, fence, restore, ending, late>>

ConfirmClosesRequests(h) ==
    /\ at[h] = "closing"
    /\ CloseRequests
    /\ Goto(h, "answer")
    /\ UNCHANGED <<ops, applies, site, task, worker, fence, restore, ending>>

(* the 202 answer, then RequestRestoreRestart *)
RequestRestart(h) ==
    /\ at[h] = "answer"
    /\ restore' = [restore EXCEPT !.accepted = TRUE]
    /\ Goto(h, "releaseExclusive")
    /\ UNCHANGED <<gates, site, task, worker, fence, ending, late>>

EndExclusive(h) ==
    /\ at[h] = "releaseExclusive"
    /\ ReleaseExclusive
    /\ Goto(h, "finish")
    /\ UNCHANGED <<reqs, applies, site, task, worker, fence, restore, ending, late>>

FinishConfirmation(h) ==
    /\ at[h] = "finish"
    /\ jobs' = [jobs EXCEPT !.confirming = None]
    /\ Goto(h, "leave")
    /\ UNCHANGED <<gates, site, task, conns, bg, loop, poll, fence, restore, ending, late>>

ResumeInMemoryOnly(h) ==
    /\ at[h] = "admitted" /\ task[h] = "resume"
    /\ Goto(h, IF fence.server THEN "resumeDaemon" ELSE "leave")
    /\ UNCHANGED <<gates, site, task, worker, fence, restore, ending, late>>

-----------------------------------------------------------------------------
(* handleResumeRouterWrites: the copies of the fence fall one by one       *)

ResumeOnDisk(h) ==
    /\ at[h] = "admitted" /\ task[h] = "resume"
    /\ \/ Goto(h, "leave") /\ UNCHANGED fence
       \/ /\ fence.server /\ fence.disk
          /\ fence' = [fence EXCEPT !.disk = FALSE]
          /\ Goto(h, "resumeDaemon")
    /\ UNCHANGED <<gates, site, task, worker, restore, ending, late>>

ResumeInDaemon(h) ==
    /\ at[h] = "resumeDaemon"
    /\ fence' = [fence EXCEPT !.daemon = FALSE]
    /\ Goto(h, "resumeServer")
    /\ UNCHANGED <<gates, site, task, worker, restore, ending, late>>

ResumeInServer(h) ==
    /\ at[h] = "resumeServer"
    /\ fence' = [fence EXCEPT !.server = FALSE]
    /\ Goto(h, "resumeGate")
    /\ UNCHANGED <<gates, site, task, worker, restore, ending, late>>

ResumeInGate(h) ==
    /\ at[h] = "resumeGate"
    /\ ops' = [ops EXCEPT !.suppressed = FALSE]
    /\ Goto(h, "resumed")
    /\ UNCHANGED <<reqs, applies, site, task, worker, fence, restore, ending, late>>

(* RouterWritesResumed: startNeighbourAfterResume *)
StartNeighbourReconciler(h) ==
    /\ at[h] = "resumed"
    /\ loop' = IF fence.daemon \/ loop.owned THEN loop
               ELSE [state |-> "sleep", owned |-> TRUE, cancelled |-> FALSE]
    /\ Goto(h, "leave")
    /\ UNCHANGED <<gates, site, task, jobs, conns, bg, poll, fence, restore, ending, late>>

-----------------------------------------------------------------------------
(* shutdownLifecycle.  appliesDrained, jobsDrained, operationsDrained and  *)
(* requestsDrained fall only together with both other flags, so that       *)
(* lifecycleDrained and ownershipDrained stand for them.                   *)

Step(from, to) == sd.stage = from /\ sd' = [sd EXCEPT !.stage = to]
Failed(from, to) ==
    /\ sd.stage = from
    /\ sd' = [sd EXCEPT !.stage = to, !.life = FALSE, !.own = FALSE, !.errs = TRUE]
handler == <<site, task, at>>

(* Serve: a signal or the server's own end, or the restart request *)
BeginShutdown ==
    /\ Step("serve", "closeOps")
    /\ UNCHANGED <<gates, handler, worker, fence, restore, data, late>>

RestartShutdown ==
    /\ restore.accepted
    /\ Step("serve", "closeOps")
    /\ UNCHANGED <<gates, handler, worker, fence, restore, data, late>>

CloseAdmission ==
    \/ /\ Step("closeOps", "closeReqs")
       /\ CloseOperations
       /\ UNCHANGED <<reqs, applies, handler, worker, fence, restore, data, late>>
    \/ /\ Step("closeReqs", "http")
       /\ CloseRequests
       /\ UNCHANGED <<ops, applies, handler, worker, fence, restore, data>>

HttpServes(h) == at[h] # "idle" /\ at[h] \notin {"hijacked", "live"}

ShutdownHttp ==
    /\ \/ Step("http", "jobs") /\ \A h \in Handlers : ~HttpServes(h)
       \/ /\ sd.stage = "http"
          /\ \E h \in Handlers : HttpServes(h)
          /\ sd' = [sd EXCEPT !.stage = "jobs", !.life = FALSE, !.errs = TRUE]
    /\ UNCHANGED <<gates, handler, worker, fence, restore, data, late>>

(* CloseJobs: the job managers, then the restore manager, on one deadline *)
CloseJobs ==
    \/ /\ Step("jobs", "jobsWait")
       /\ jobs' = [jobs EXCEPT !.closing = TRUE]
       /\ UNCHANGED <<gates, handler, conns, bg, loop, poll, fence, restore, data, late>>
    \/ /\ \/ Step("jobsWait", "restores") /\ jobs.running = "no"
          \/ Failed("jobsWait", "restores") /\ jobs.running # "no"
       /\ UNCHANGED <<gates, handler, worker, fence, restore, data, late>>
    \/ /\ Step("restores", "restoresWait")
       /\ jobs' = [jobs EXCEPT !.restoresClosed = TRUE]
       /\ UNCHANGED <<gates, handler, conns, bg, loop, poll, fence, restore, data, late>>
    \/ /\ \/ Step("restoresWait", "hub") /\ jobs.confirming = None
          \/ Failed("restoresWait", "hub")
       /\ UNCHANGED <<gates, handler, worker, fence, restore, data, late>>

CloseHub ==
    /\ Step("hub", "neighbour")
    /\ conns' = {}
    /\ UNCHANGED <<gates, handler, jobs, bg, loop, poll, fence, restore, data, late>>

StopNeighbourReconciler ==
    \/ /\ Step("neighbour", IF loop.owned THEN "neighbourWait" ELSE "collector")
       /\ loop' = [loop EXCEPT !.cancelled = loop.owned, !.owned = FALSE]
       /\ UNCHANGED <<gates, handler, jobs, conns, bg, poll, fence, restore, data, late>>
    \/ /\ \/ Step("neighbourWait", "collector") /\ loop.state = "off"
          \/ Failed("neighbourWait", "collector")
       /\ UNCHANGED <<gates, handler, worker, fence, restore, data, late>>

(* Collector.Stop waits for the pollers without a deadline. *)
StopCollector ==
    /\ Step("collector", "cascade")
    /\ poll.state = "idle"
    /\ poll' = [poll EXCEPT !.state = "stopped"]
    /\ UNCHANGED <<gates, handler, jobs, conns, bg, loop, fence, restore, data, late>>

StopMaintainerQuietly ==
    /\ \/ Step("maintainer", "applies") /\ poll' = [poll EXCEPT !.unflushed = FALSE]
       \/ Step("maintainer", "applies") /\ UNCHANGED poll
    /\ UNCHANGED <<gates, handler, jobs, conns, bg, loop, fence, restore, data, late>>

StopCascadeEvents ==
    /\ Step("cascade", "maintainer") \/ Failed("cascade", "maintainer")
    /\ UNCHANGED <<gates, handler, worker, fence, restore, data, late>>

StopMaintainer ==
    /\ \/ Step("maintainer", "applies") /\ poll' = [poll EXCEPT !.unflushed = FALSE]
       \/ Failed("maintainer", "applies") /\ UNCHANGED poll
    /\ UNCHANGED <<gates, handler, jobs, conns, bg, loop, fence, restore, data, late>>

After == [applies |-> "operations", operations |-> "requests", requests |-> "decide"]
Arm == [applies |-> "armApplies", operations |-> "armOperations", requests |-> "armRequests"]
Await == [applies |-> "awaitApplies", operations |-> "awaitOperations",
          requests |-> "awaitRequests"]
Drains == DOMAIN After

SetIdle(g, i) ==
    /\ applies' = IF g = "applies" THEN [applies EXCEPT !.idle = i] ELSE applies
    /\ ops' = IF g = "operations" THEN [ops EXCEPT !.idle = i] ELSE ops
    /\ reqs' = IF g = "requests" THEN [reqs EXCEPT !.idle = i] ELSE reqs

Idle(g) == CASE g = "applies"    -> applies.idle
             [] g = "operations" -> ops.idle
             [] g = "requests"   -> reqs.idle

(* inFlight, ActiveOperations, ActiveRequests: nothing active, no wait *)
LookAtGate(g) ==
    /\ Step(g, IF Busy(g) THEN Arm[g] ELSE After[g])
    /\ UNCHANGED <<gates, handler, worker, fence, restore, data, late>>

(* wait, under the lock *)
ArmGate(g) ==
    /\ IF Busy(g) THEN Step(Arm[g], Await[g]) /\ SetIdle(g, "open")
                  ELSE Step(Arm[g], After[g]) /\ UNCHANGED gates
    /\ UNCHANGED <<handler, worker, fence, restore, data, late>>

AwaitForever(g) ==
    /\ Idle(g) = "closed" /\ Step(Await[g], After[g]) /\ SetIdle(g, "none")
    /\ UNCHANGED <<handler, worker, fence, restore, data, late>>

DecideByMarker ==
    /\ sd.stage = "decide"
    /\ sd' = [sd EXCEPT !.stage = "close", !.promote = sd.life /\ restore.marker = "intent"]
    /\ UNCHANGED <<gates, handler, worker, fence, restore, data, late>>

(* wait's select: the channel was closed (and is garbage now), or the timer fires *)
AwaitGate(g) ==
    /\ \/ Idle(g) = "closed" /\ Step(Await[g], After[g]) /\ SetIdle(g, "none")
       \/ Failed(Await[g], After[g]) /\ UNCHANGED gates
    /\ UNCHANGED <<handler, worker, fence, restore, data, late>>

Decide ==
    /\ sd.stage = "decide"
    /\ \/ sd' = [sd EXCEPT !.stage = "close",
                    !.promote = sd.life /\ restore.accepted /\ restore.marker = "intent"]
       \/ /\ sd.life /\ restore.accepted      \* the marker cannot be read
          /\ sd' = [sd EXCEPT !.stage = "close", !.errs = TRUE]
    /\ UNCHANGED <<gates, handler, worker, fence, restore, data, late>>

(* checkpoint, close the store, close the keys: each may fail, all are tried *)
CloseStore ==
    /\ sd.stage = "close"
    /\ IF sd.life
         THEN \E ok \in BOOLEAN :
                /\ data' = [data EXCEPT !.store = "closed"]
                /\ sd' = [sd EXCEPT !.stage = IF sd.promote /\ ok THEN "mark" ELSE "release",
                                    !.pair = ok, !.errs = @ \/ ~ok]
         ELSE sd' = [sd EXCEPT !.stage = "release"] /\ UNCHANGED data
    /\ UNCHANGED <<gates, handler, worker, fence, restore, late>>

MarkRestoreClean ==
    /\ sd.stage = "mark"
    /\ \/ restore' = [restore EXCEPT !.marker = "clean"] /\ sd' = [sd EXCEPT !.stage = "release"]
       \/ sd' = [sd EXCEPT !.stage = "release", !.errs = TRUE] /\ UNCHANGED restore
    /\ UNCHANGED <<gates, handler, worker, fence, data, late>>

(* the controller log, and the process lock *)
ReleaseOwnership ==
    /\ Step("release", "done")
    /\ data' = [data EXCEPT !.log = IF sd.life THEN "closed" ELSE @,
                             !.lock = IF sd.own /\ (sd.pair \/ ~sd.life) THEN "free" ELSE @]
    /\ UNCHANGED <<gates, handler, worker, fence, restore, late>>

Shutdown ==
    \/ CloseAdmission \/ ShutdownHttp \/ CloseJobs \/ CloseHub
    \/ StopNeighbourReconciler \/ StopCollector \/ StopCascadeEvents \/ StopMaintainer
    \/ \E g \in Drains : LookAtGate(g) \/ ArmGate(g) \/ AwaitGate(g)
    \/ Decide \/ CloseStore \/ MarkRestoreClean \/ ReleaseOwnership

-----------------------------------------------------------------------------
(* open: a restored controller starts behind its fence, without the loop   *)
Init ==
    \E fenced \in BOOLEAN :
      /\ ops = [closed |-> FALSE, exclusive |-> FALSE, suppressed |-> fenced,
                leases |-> {}, idle |-> "none"]
      /\ reqs = [closed |-> FALSE, active |-> {}, idle |-> "none"]
      /\ applies = [active |-> {}, idle |-> "none"]
      /\ site = None
      /\ task = [h \in Handlers |-> "mutate"]
      /\ at = [h \in Handlers |-> "idle"]
      /\ jobs = [closing |-> FALSE, running |-> "no", restoresClosed |-> FALSE,
                 confirming |-> None]
      /\ conns = {}
      /\ bg = {}
      /\ loop = [state |-> IF fenced THEN "off" ELSE "sleep",
                 owned |-> ~fenced, cancelled |-> FALSE]
      /\ poll = [state |-> "idle", unflushed |-> FALSE]
      /\ fence = [disk |-> fenced, daemon |-> fenced, server |-> fenced]
      /\ restore = [marker |-> "none", accepted |-> FALSE]
      /\ sd = [stage |-> "serve", life |-> TRUE, own |-> TRUE, promote |-> FALSE,
               errs |-> FALSE, pair |-> FALSE]
      /\ data = [store |-> "open", log |-> "open", lock |-> "held"]
      /\ late = {}

HandlerStep(h) ==
    \/ BeginOperation(h) \/ LockSite(h) \/ LockStopped(h) \/ CheckStopping(h)
    \/ TrackApply(h) \/ EndApply(h) \/ UnlockSite(h) \/ ReleaseOperation(h) \/ Leave(h)
    \/ StartJob(h) \/ UpgradeLive(h) \/ RegisterLive(h) \/ DropLive(h)
    \/ BeginConfirmation(h) \/ Prepare(h) \/ UpgradeToExclusive(h) \/ CreateIntent(h)
    \/ ConfirmClosesOperations(h) \/ ConfirmClosesRequests(h) \/ RequestRestart(h)
    \/ EndExclusive(h) \/ FinishConfirmation(h)
    \/ ResumeOnDisk(h) \/ ResumeInDaemon(h) \/ ResumeInServer(h) \/ ResumeInGate(h)
    \/ StartNeighbourReconciler(h)

Next ==
    \/ \E h \in Handlers : HandlerStep(h) \/ LockCancelled(h) \/ EndLive(h)
    \/ \E h \in Handlers, t \in Tasks : Admit(h, t)
    \/ \E b \in Background : StartBackground(b) \/ EndBackground(b)
    \/ CompleteJob \/ EndJob \/ BeginCycle \/ EndCycle \/ ExitLoop \/ Poll \/ EndPoll
    \/ BeginShutdown \/ RestartShutdown \/ Shutdown

Spec == Init /\ [][Next]_vars

(* The main goroutine runs, its timers fire, and a poll has a timeout.  Nothing
   is assumed of handlers and jobs: they may hang for ever. *)
Fairness == WF_vars(EndPoll) /\ WF_vars(RestartShutdown) /\ WF_vars(Shutdown)

FairSpec == Spec /\ Fairness

-----------------------------------------------------------------------------
(* Properties                                                              *)

Places == {"idle", "admitted", "leased", "holding", "working", "applying",
    "recording", "release", "leave", "hijacked", "live", "confirming", "prepared",
    "exclusive", "intent", "closing", "answer", "releaseExclusive", "finish",
    "resumeDaemon", "resumeServer", "resumeGate", "resumed"}
Stages == {"serve", "closeOps", "closeReqs", "http", "jobs", "jobsWait", "restores",
    "restoresWait", "hub", "neighbour", "neighbourWait", "collector", "cascade",
    "maintainer", "applies", "armApplies", "awaitApplies", "operations",
    "armOperations", "awaitOperations", "requests", "armRequests", "awaitRequests",
    "decide", "close", "mark", "release", "done"}
Owners == Handlers \cup Background \cup {"job", "loop"}
Channel == {"none", "open", "closed"}

(* The gates, managers and workers hold what their Go types allow. *)
TypeOK ==
    /\ ops \in [closed : BOOLEAN, exclusive : BOOLEAN, suppressed : BOOLEAN,
                leases : SUBSET [owner : Owners, kind : Kinds], idle : Channel]
    /\ reqs \in [closed : BOOLEAN, active : SUBSET Handlers, idle : Channel]
    /\ applies \in [active : SUBSET Handlers, idle : Channel]
    /\ site \in Handlers \cup {None}
    /\ task \in [Handlers -> Tasks] /\ at \in [Handlers -> Places]
    /\ jobs \in [closing : BOOLEAN, running : {"no", "run", "done"},
                 restoresClosed : BOOLEAN, confirming : Handlers \cup {None}]
    /\ conns \in SUBSET Handlers /\ bg \in SUBSET Background /\ late \in SUBSET Handlers
    /\ loop \in [state : {"off", "sleep", "cycle"}, owned : BOOLEAN, cancelled : BOOLEAN]
    /\ poll \in [state : {"idle", "polling", "stopped"}, unflushed : BOOLEAN]
    /\ fence \in [disk : BOOLEAN, daemon : BOOLEAN, server : BOOLEAN]
    /\ restore \in [marker : {"none", "intent", "clean"}, accepted : BOOLEAN]
    /\ sd \in [stage : Stages, life : BOOLEAN, own : BOOLEAN, promote : BOOLEAN,
               errs : BOOLEAN, pair : BOOLEAN]
    /\ data \in [store : {"open", "closed"}, log : {"open", "closed"},
                 lock : {"held", "free"}]

(* Somebody is between a read and a write of the database. *)
Users ==
    \/ \E h \in Handlers : at[h] # "idle"
    \/ bg # {}
    \/ jobs.running = "run"
    \/ loop.state = "cycle"
    \/ poll.state = "polling"

(* shutdownLifecycle closes the database and the keyring, and releases the process
   lock to another controller, only when no accepted request, job, poll, re-probe
   or reconcile is under way, whatever timed out before, a forced HTTP close
   included, and although the apply barrier itself refuses nobody. *)
GivenUpAlone == data.store = "closed" \/ data.lock = "free" => ~Users

(* Serve's comment: a nil return means a clean shutdown.  Nothing is left open or
   unflushed, and an accepted restore has been promoted. *)
CleanExit ==
    sd.stage = "done" /\ ~sd.errs =>
        /\ data = [store |-> "closed", log |-> "closed", lock |-> "free"]
        /\ ~poll.unflushed
        /\ (restore.accepted => restore.marker = "clean")

(* A waiter's channel is open only while somebody is left who will close it: no
   release slips between the look and the wait of a drain. *)
NoLostWakeup == \A g \in Drains : Idle(g) = "open" => Busy(g)

(* The shutdown: nobody is left behind, nothing is left open, no drain sleeps on. *)
ShutdownIsClean == TypeOK /\ GivenUpAlone /\ CleanExit /\ NoLostWakeup

(* From the exclusive lease on, and after an accepted restore until the process
   ends, no operation and no apply runs, although the lease is given back first. *)
NothingBesideRestore ==
    ops.exclusive \/ restore.accepted => ops.leases = {} /\ applies.active = {}

(* While the fence of a restored controller is on disk nobody holds a lease that
   writes to a router: the gate opens last. *)
FencedWritesNothing ==
    fence.disk => \A l \in ops.leases : ~operationWritesRouter(l.kind)

(* A restore is promoted only after the owner was answered, everything was drained
   and flushed, and the pair was closed without an error. *)
PromotionIsEarned ==
    restore.marker = "clean" =>
        restore.accepted /\ sd.pair /\ data.store = "closed" /\ ~Users /\ ~poll.unflushed

(* The restore: alone with its data, fenced from the routers, and promoted only at
   the end of a clean shutdown. *)
RestoreIsAlone == NothingBesideRestore /\ FencedWritesNothing /\ PromotionIsEarned

(* A site mutation that was still queued when admission closed never starts, even
   when the mutex and the stop signal become ready together. *)
LateNeverMutates == \A h \in late : at[h] \notin {"working", "applying", "recording"}

(* A shutdown that has begun, or that an accepted restore asks for, ends. *)
ShutdownEnds == (sd.stage # "serve" \/ restore.accepted) ~> (sd.stage = "done")
=============================================================================
