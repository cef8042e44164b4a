# oonfeeWRT in TLA+

oonfeeWRT is a controller for a fleet of stock OpenWrt routers: one Go daemon
with one SQLite database, which polls the routers over ubus, keeps a site model
(the desired state), and writes the difference to the routers through rpcd's
`uci.apply` with a rollback timer. The routers keep no controller state. What
makes it hard is what happens between two steps: a router that answers late or
never, a browser that retries, a controller that crashes after a write and
before its receipt, a database that is replaced under a running system.

This directory holds TLA+ models of the parts that carry that logic, the TLC
runs that check them on small instances, and TLAPS proofs of the properties
that matter most, for instances of any size. `PROJECT.json` maps every
definition to the lines it models.

## The system

### Components, their state and how they interact

| part | state | operations | hard behaviour |
|---|---|---|---|
| per-device gate (`daemon/device_operation.go`) | map of heap entries: users, generation, one-element channel | acquire, done, invalidate | ids are reused by SQLite; waiters outlive the row they asked for |
| apply receipts (`store/apply.go`, `api/apply_operation.go`, `daemon/provision.go`) | `apply_operations`, `apply_operation_devices` | begin, run, device boundary, device receipt, finish, interrupt, recover | replays, partial store failures, crash between write and receipt |
| apply engine (`applyengine`, `ubus`) | a session's staged delta, rpcd's armed rollback, the engine's clock | preflight, snapshot, stage, verify, apply, health, confirm, await revert, discard | lost requests and answers, two clocks, session loss, rpcd restart |
| admission and shutdown (`api/admission.go`, `daemon/apply_barrier.go`, `daemon/daemon.go`) | operation, exclusive and suppression counters, request gate, apply barrier | begin, upgrade, exclusive, suppress, close, wait | shutdown racing with admitted work; a restore may only be promoted after a full drain |
| offline restore swap (`restoreswap`, `daemon/restore_lifecycle.go`) | marker, canonical pair, prepared pair, rollback pair, safety artifact, suppression and receipt files | intent, mark clean, apply, restore old, clean up, record | a crash at every rename; never a mixed database and keyring |
| provisioning (`render`, `reconcile`, `daemon/provision.go`, `daemon/preview_binding.go`) | the router's UCI and what its daemons loaded, the ownership record, a token over plan, site and devices | preview, plan three times, stage, health, confirm, record | a plan that changed after it was shown; sections the owner of the router wrote; a probe that could not see |
| adoption (`adoption`, `daemon/adopt.go`) | device row, ACL file and login on the router | adopt, un-adopt | a failure half way; the router and the database disagree |
| capability ledger (`daemon/lldp_capability.go`, `store/capability_install.go`) | the row of what was there and what was added; packages, service and file on the router | install, configure, remove | a command cut short on the router, a crash between the command and the row, an operator who uses the router too |
| collector (`collector`) | per router: target, session, cached interface and radio lists, quiesce count, back-off | poll, quiesce, release, add, refresh access, rediscover | answers to questions asked before an apply; overlapping applies |
| telemetry and inventory (`telemetry`, `store/rollup.go`, `daemon/fleet.go`) | ring of samples, counter baselines, rollups, and every cache keyed by device id | observe, flush, fold, prune, track, retrack, delete, sweep | deletion racing with a flush or a poll in flight; reused ids; late samples |
| site model (`model`, `store/site.go`, `store/policy.go`, `api/site.go`, `api/policy.go`) | networks, zones, sets, policies, clients, WLANs, groups, meshes, uplinks, overrides | save and delete of each, with validation; ageing of observations | an edit that breaks what another row relies on; evidence that ages |
| auth and accounts (`api/auth.go`, `api/accounts.go`, `store/admin.go`) | account rows, session table, throttle | set up, sign in, manage, change password | concurrent first set-up, last owner, sign-in across a revocation |
| backup and restore jobs (`api/backups.go`, `api/restores.go`, `controllerrestore`) | job, upload and preview histories; files | export, upload, preview, confirm, cancel, prune, close | cancellation at the last step, retention against use, crash between two files |
| events, alerts | condition heads, rule state | ingest, compact, evaluate | duplicated or reordered edges (not modelled) |

The HTTP handlers run concurrently. `siteMu` serialises the ones that edit or
apply the site; the per-device gate serialises everything that writes to one
router; `telemetryLifecycle` covers adoption and deletion of a row. A fleet
apply holds `siteMu` and goes through the gate device by device; for each one
the engine stages, applies and confirms, and the receipts record how far it
came. Receipts and the restore marker are what survives a crash.

### What correct means, per component

* **Gate:** one destructive operation per router at a time; an operation that
  waited never reaches the router that took over the id; no waiter is stranded.
* **Receipts:** no receipt ever denies a write that happened; an operation runs
  at most once; a terminal receipt never changes; everything ends.
* **Engine:** `applied` is permanent, `reverted` is gone, an error never leaves
  a change that nobody will undo; only what was planned is applied.
* **Restore swap:** the pair that is served is the old one or the new one and
  never half of each; nothing of the old pair is destroyed before the new one
  was validated; a restored controller writes to no router until its owner says
  so; a crash anywhere is recovered by the next start.
* **Admission:** the database is closed only when nothing uses it.
* **Capability ledger:** a router without a row has nothing of the controller's
  left on it; a removal takes only what the controller installed; no edit of the
  operator's is lost.
* **Provisioning:** what is written is what was shown; nothing the router's owner
  wrote is touched; what could not be seen is not pruned; a second plan is empty;
  un-adoption finds every section that is there.
* **Site model:** the stored site can always be rendered, enforcement can always
  be taken back, no passphrase comes back from an earlier mode.
* **Collector:** an apply never shares the router with a poll; a cached answer
  and a session never outlive what they were true of.
* **Telemetry and inventory:** data under an id is its present holder's; no rate
  spans two boots; retention never deletes what is not folded.
* **Accounts:** an enabled owner remains; no session outlives its rights.
* **Jobs:** a cancelled job is not completed; only previewed bytes are restored;
  every file is accounted for.

## Plan

1. `DeviceGate`, `ApplyReceipts` and `CapabilityLedger` with proofs. *Done.*
2. `ApplyEngine`; `AtomicRestore` and `RestoreSwap`, its refinement; `Admission`.
   *Done, with proofs.*
3. `Accounts`; `Provision` (preview, render, plan, apply, record); `SiteModel`;
   `Collector`; `BackupJobs` within `RecoveryJobs`; `Telemetry` within `Fleet`.
   *Done, with proofs.*
4. The router's side of adoption; condition edges and alerts; key rotation.

Every safety property the runs check is also a theorem, but for `ApplyIsComplete`.
A theorem worth having next is that one, for the sites `SiteModel` accepts.

## Modules

### DeviceGate

One variable per field of `deviceOperation`; entries are heap objects with
addresses (`Op`), because the map holds a pointer and every waiter keeps its
own. `acquire` is split where the code unlocks `g.mu` or blocks: `Join` (under
the lock), `Admit` / `AbandonWait` (the select), `CheckContext`,
`CheckGeneration`. `done` is `Drain` and `Leave`. Callers are the bound apply
(it captured the row before it waited and compares the MAC after), un-adopt
(which deletes the row, moves the generation and purges, under
`telemetryLifecycle`) and the operations that carry only an id. `RegisterDevice`
gives a freed id to another router. `joined` and `deletedSince` are history.

### ApplyReceipts

`opState`, `opWrite`, `devState`, `devWrite` are the columns of the two tables.
A handler goes `begin -> created -> locked -> preflight -> fleet -> device ->
applying -> written -> record -> ... -> finish`, with `reject` and `interrupt`
for the error paths; every store transaction is one action, and for each there
is the action in which it fails. `wrote` is the ground truth the receipts are
compared with. `Crash` loses everything but the tables, `Restart` is
`RecoverApplyOperations`.

### ApplyEngine

One device, runs of `Engine.Apply` one after the other or overlapping the armed
rollback of the previous one. The device follows `tools/mock_ubus.py`: sessions
with their own delta, login that reuses a session while a rollback is armed, the
watchdog that restores the files and the delta. Every RPC may be lost before or
after it was served. A failed chunk of the staging does not stop the batch: the
later ones are sent all the same, and any of what is left may be staged before the
run discards it (`StageFails`). Time is in ticks; the device's timer and the engine's wait
start at different moments. The health check returns any verdict.

### AtomicRestore and RestoreSwap

A file is the lineage of its content (`Base`, or the restore that wrote it), and
the code's digest comparisons are comparisons of lineage. The variables are the
files a restart finds: the canonical database and keyring, the rollback and
prepared directories, the marker, safety artifacts, the suppression file, the
applied receipt and the audit rows. `Plan` is `applyReady` from the first rename
to the last marker write; each of its steps is skipped, done, done with a failed
fsync, or fails and runs `restoreOld` (`Unpublish`, `Unpark`, `UndoMarker`,
`UndoDone`). `finishCleanup`, `AbortUnclean`, the sweep of orphans and
`recordAppliedRestore` follow in the order of `reconcileRestoreStartup`. `Crash`
may happen between any two steps and loses `process`. Events are pruned while the
controller serves, and also at start-up before the restore's audit row is written
(`PruneEvents`). A member of the new pair
may equal the old one byte for byte, which the code treats apart.

`AtomicRestore` has one `Commit`: pair and fence change together while nothing
is served. The refinement mapping makes the "cleanup" marker the commit point:
before it the controller's pair is what the marker calls old, wherever the files
are.

Not in it: files that somebody else edits, a changed passphrase, two processes
at once (the process lock excludes them).

### Admission

`ops`, `reqs` and `applies` are the operation gate, the request gate and the
apply barrier. The code counts; the model keeps the set of those counted, which
is the same because every release is wrapped in `sync.Once`. A drain is three
steps, as in the code: look at the counter (`LookAtGate`), make the channel under
the lock (`ArmGate`), be woken or expire (`AwaitGate`). Handlers go through
`Admit`, the operation lease, `siteMu` (`LockSite` takes the token,
`CheckStopping` is the second look at the stop signal), the apply barrier, and
back out through their deferred calls in order. The other tasks of a handler are
a job whose lease passes to its goroutine (`StartJob` stands for speed test,
diagnostics and backup), a live client, the confirmation of a restore up to
`RequestRestart`, and the resumption of router writes through its four places:
disk, daemon, server, gate. Beside them run the detached re-probes, the
neighbour reconciler and the collector. `sd` is `shutdownLifecycle` with its
local flags, one stage per call it makes; `life` and `own` are
`lifecycleDrained` and `ownershipDrained`, and the other drained flags fall only
together with them. `late` is history: who was queued on `siteMu` when admission
closed.

Five operation kinds stand for the ten of the code, which treats them apart only
by `operationWritesRouter`. Goroutines may still step after the last stage: a
superset of the code, where the process exits soon.

### CapabilityLedger

The optional LLDP package of one router: the row of
`device_capability_installs` and what it is about, the packages, the service and
the configuration file on the router. `siteMu` and the gate admit one request at
a time, so one `op` is in progress, and its steps are the store statements and
the SSH commands of the handler in their order; each statement carries the
states its WHERE clause names. `InstallCut`, `ConfigureCut`, `RestoreFailed` and
`RemoveCut` are commands that got part of the way on the router, or all of it
with the answer lost. `InstallFailed` records what a failed installation added all
the same, which may fail by itself. `MarkError` is the error path; `Abandon` ends a request
with the row as it is, which is a crash, or the request's deadline after which
the marking statement fails too. The `plan_` requests only read, and a refused
request changes nothing: neither is an action. The plan hash is taken to match.

The package manager is external and follows `apk`: a package brings what it
requires, a removal is refused for what others require and takes along the
libraries that came with it. The router's package manager does not change. The
operator edits the file at any moment and runs the package manager between
requests. Ownership is by name in the code, so beside a row he installs only his
own tools and what was there before. A list of interfaces is written by deleting
it and adding the ports: a command cut short leaves the old list, an empty one or
the new one, which is enough for the properties. `before`, `ours`, `user` and
`userSvc` are history: what was installed when the row began, what the controller
installed since, and the file and the service as the operator alone would have
them.

### Accounts

`row` is the `admins` table, `sess` the session table, `throttle` the failures of
one address. A request is one record in `req`, and its steps are split where the
handler leaves a lock or derives a hash: a sign-in verifies (`LoginVerify`), makes
its session, compares the account again (`LoginRecheck`) and may raise the cost of
the hash (`Rehash`); an account change is the transaction (`Manage`) and the
revocation of sessions (`DropSessions`). Every transaction carries the condition of
its SQL, the count of remaining owners included. `GiveUp` is a request that ends
early. Cookies, the CSRF token and the same-origin check keep no state.

`NoStaleSession` has one exception, `Overtaken`. `handleSetup` makes its session
without reading the account again, as `handleLogin` does, so a session of first-run
setup may be made for an account that was changed, and its sessions revoked, after
the insert. `born` is history: the account as it was when that session was made. The
exception holds only for an account that disagreed then, and only until something
other than an enabling happens to it, which revokes this session like any other;
every other session of setup is held to the rule from the start. Without the
exception TLC finds the session in nine steps: the insert, a sign-in, a new password,
its revocation, then the session of setup.

### Provision

One router. `site`, `dev`, `caps` and `claims` are rows; `uci` is the router's
configuration as a set of sections with name, type, marker and the options the
control depends on; `live` and `nft` are what its daemons have loaded, which the
health checks compare with the document. The renderers are operators: one per
kind of section, with the conflicts that block it and the sections it retains or
declares itself blind to. `Patches` are the options written into sections that are
not ours: those of the LAN, and of `wan` and `wan6` for a delegated prefix, over PPP
too; a section of another type, a static IPv6 address, and two networks that patch
one section are conflicts. A document that names a section twice is refused
(`Ambiguous`, `Doc.Validate`). `Plan` and `Prune` compare a document with what was
read; `Staged` is the batch in its order, sections written, options patched, sections
deleted; an option that was flattened is deleted before its list is set (`Flattened`,
`Cleared`). An apply plans when it is previewed (`Preview`), when it is accepted
(`Accept`) and behind the gate (`ReadPlan`), and compares the three; then `Stage`,
`Confirm`, `Revert` or `Lost`, and `RecordOwned`, which ends in an error when only its
audit row cannot be written, or `RecordFails`, when the ownership cannot. Between any two
steps an administrator edits the site or the device's functions, a probe sees
more or less than before, and the router's owner adds, removes, disowns, flattens
or alters a section. `ApplyEngine` is what happens inside `Stage` to `Confirm`;
`ApplyReceipts` is the order of several routers.

`IgnoranceKeeps` says which of our wireless sections must stay as what the site asks
for on the bands that answer (`StillAsked`) over a network that is there or could not
be looked for (`Reachable`), and not by what the render retained.

Two exceptions are written into the properties, because the code makes them. The
station of a wireless uplink is appended without looking its name up among
foreign sections, so `ForeignKept` and `ClaimsCover` leave its section out. And a
section the owner adds between the reading of the plan and the staging is written
over: ubus offers no conditional write, and `ForeignKept` speaks of sections the
plan saw. Further, seen and not claimed: station and mesh sections manage no
option; a router whose radio list is unread may have networks pruned under WLANs
it retains (`NothingDangles` excepts it); drift reports no option that the owner
added among those a section manages but does not write; an apply that does not
touch the firewall says nothing of whether it is loaded.

### SiteModel

`site` holds the policy half (networks, zones, sets, rules, clients), the other
variables the wireless half, the devices and the gateway's observations. Each
handler is one action, because `siteMu` serialises them, with its validation and
its foreign keys; identifiers are reused as SQLite reuses row ids. `SiteSpec` begins with a site nobody has edited; the run adds
sites in use. `Adopt`,
`Unadopt`, `UpsertClients`, `ObservationAges` and `PruneClients` change the
evidence the validations rest on. `CompileObjects` is what the Object Manager
offers. A zone's name is mapped to its truncated firewall identifier, which two
zones may share.

Seen and not claimed: an override has no reference to its WLAN, so a WLAN with a
reused id inherits one; an override that enables a WLAN the site disables has no
effect; drafts for a whole network are not checked for MAC scope, and securing
clients towards an active managed zone yields a draft with equal zones that no
save accepts (`DraftsSave` speaks of clients and of single drafts); an uplink may
become invalid by a later edit and is refused when the site is rendered.

### Collector

One poller. `cycle` is the poll in flight with the target, session and questions
it left with; `Send`, `RouterReads`, `Finish` (or `Fail`) and `Emit` are its
steps, so that anything may happen between a question and the use of its answer.
`held` and `quiesce` are the callers of `Quiesce` and the counter; `Release` may be
called twice. `Apply` reconfigures the radios, whose interfaces come up one by one
(`InterfacesAppear`) while `Rediscover` and the second look after
`SettleDelayPasses` read them. `Add` replaces the target, `RefreshAccess` the
grants. `row`, `grants`, `live` and `config` are the world outside.

`cutShort` and `crossed` are history for two exceptions the code makes: a poll
that left before the settle delay and returned after it counts as the second
look, and an access refresh or a change of functions cancels it; a login that is
in flight while `Add` replaces the target stores a session of the old one. A
`Remove` during such a login leaves the session on the router until it expires.

### BackupJobs and RecoveryJobs

`BackupJobs` is `backupManager`: history, active job, and the worker's steps with
the set of files it holds at each (`Files`). `Picked` is what a retention pass keeps, in its order. `RecoveryJobs` extends it with
`restoreManager`: uploads, previews, the confirmation up to the intent, the hash
slots they share, expiry, eviction, failing removals and `CloseJobs`; `disk` is
all files, `Crash` keeps only those, and `Restart` recognises or refuses each name.
`Rewrite` is an upload whose bytes are changed, and changed back, under the
manager. A removal may unlink an upload's file and still fail, on the directory's sync:
the upload then stays listed without its file until the next pruning, and a preview of
it fails. `ReferencedStays` therefore claims an upload's file from the moment a preview
verified it (`HasVerified`). The look at the cancellation before the lock and the
decision under it are two steps (`CheckPreview`, `CompletePreview`); `Abort` takes the
removals of a run that failed and the pruning that follows, each of which may fail, as
one. What becomes of an intent is `RestoreSwap`; the leases of a confirmation
are in `Admission`.

Seen and not claimed: the copy `BackupTo` stages beside the database is recognised
by no start-up, so a crash leaves it for ever (`FilesAccounted` excepts it); every
prune ends by making room for one more, so one upload or preview fewer than the
limit is kept, and an upload may be evicted before its own request has answered; a
snapshot whose removal failed is not tried again in the same process.

### Telemetry and Fleet

`Telemetry` is the sample ring, the counter baselines, `observeUptime`, the flush
into five-minute rows, the fold into hours and the pruning, for one series of one
device id; `Kept` is what a drain leaves in the ring, in its order. Time is counted in
windows, so that the cut of the hourly rows is the start of a window where the code
takes the time itself. `Fleet` adds who holds the id: routers that
register, are polled, are deleted step by step (`BeginDelete`, `CommitDelete`,
`PurgeDeviceState`, `SweepDeleted`) and replaced, the poller that `Track` and
`Retrack` start, and every cache keyed by the id, as the router whose data it holds:
reachability, live clients, topology aliases, log position and its durable cursor.
`Restart` loses memory; `Reboot` resets a router's counters.

Exceptions written into the properties: `Retrack` reads the row and tracks it
without lock or gate, so one that crosses a deletion leaves a poller for a router
that has gone (`revived`); a failed sweep at a deletion or at start-up is only logged, and the
next series may inherit its rollups through a reused id (`unswept`); a router that
starts twice within the tolerance of `observeUptime` is not noticed. Seen and not
claimed: after a restart of the controller a router that was down comes back
without a `device.reachable` event. A jump of the controller's clock is not
modelled.

## Runs

| run | instance | shows |
|---|---|---|
| `gate` | 2 goroutines, 1 id, 2 routers, 2 entries | exclusion, the fence; every waiter returns |
| `receipts` | 2 operations, 1 device, 2 handlers, 1 request | receipts never deny a write, an operation runs once, rows agree; every operation ends |
| `engine` | 2 options in 2 files, 2 runs that may overlap | the outcome is true of the device, verification is never early, only the whole plan is applied; every run returns |
| `restore_swap` | 2 restores, all faults | no pair lost or mixed, fence, safety artifact and audit kept; refines `AtomicRestore`; an accepted restore is served |
| `admission` | 2 handlers, 1 re-probe, all tasks | the database and the lock are given up alone, a restore is promoted only when earned, the fence holds, shutdown ends |
| `capability` | 2 libraries, 1 tool, 1 port | nothing is left behind, edits survive |
| `accounts` | 2 accounts, 2 tokens, 2 requests, 2 account changes | an owner remains; no stale session, but for one that setup makes after a change |
| `provision` | 4 sites, 2 sets of functions, 3 probes, 4 foreign sections, 2 edits | the token binds, only ours is touched, applies are complete, every marked section is on record |
| `site` | 2 ids per table, 3 steps, from an empty site and from sites in use | the stored site stays whole, edits stay possible, no dormant key |
| `collector` | 2 callers, 2 radio shapes, 2 targets, 2 outside changes | quiesce is a boundary; caches and sessions are current |
| `jobs` | 2 exports, 2 uploads, 2 previews, 4 requests, 1 fault | cancellation holds, the confirmed is the previewed, files are accounted for |
| `fleet` | 2 routers for 1 id, 4 windows, 3 polls, 1 deletion, 1 outage, 1 failed write | data is its holder's, no spliced rate, history is kept |

Some properties are conjunctions of named parts, each with its own comment and its
own mutant: `OutcomeIsTrue`, `NoPairIsLost`, `RestoredIsReviewed`,
`ShutdownIsClean`, `RestoreIsAlone`, `TouchesOnlyOurs`, `ApplyIsComplete`,
`SiteIsWhole`, `EditsStayPossible`, `CacheIsCurrent`, `ConfirmedIsSeen`,
`HistoryIsKept`. Four of them contain the module's type invariant; the gate's, the
receipts' and the ledger's type invariants are theorems.

Bounds. One device id is enough for the gate: entries of different ids share
nothing, and two routers contending for the one id give the reuse. Two
goroutines are a holder or deleter and a waiter; the proofs below cover any
number of them. `MaxGeneration` bounds
deletions of one entry; two let a waiter be overtaken twice. In the receipts two
handlers replay the same operation while the other runs; one device keeps the
liveness check small, and the proofs below cover fleets of any size. In the engine, a window of two ticks
separates before, at and after the timer; the budget is exactly window, grace
and one RPC, the smallest that the code accepts. `MaxRuns` and `MaxRestarts`
stop the model. `RevertedIsGone` and `StagedWhatWeAsked` speak of the first run: the
rollback that a lost apply left armed also puts back its delta, into a session the
next run shares, between that run's check and its apply. Two restores are a
restore over a restored pair, with an earlier safety artifact and an earlier
audit row; a retention of one makes their artifacts compete. Whether a directory's
fsync can fail after its rename took effect is chosen at the start of a behaviour
(`syncFaults`): the invariants hold either way, the refinement and the liveness are
claimed where it cannot.
In `admission` one handler applies and the other does any other task, because
two tasks of one kind meet in `siteMu` or in the job manager, where the second
waits or is refused; the one re-probe stands for all lease holders that are not
handlers. In `capability` one library may be required by the package, by the
operator's tool, by both or by neither, and a second one lets the feed change
what the package requires between two attempts; the proofs cover any number.

In `accounts` two requests are every pair of a sign-in, set-up or change and the
change that overtakes it. In `provision` the sites differ in every kind of section
(networks with and without VLAN, WLANs, a mesh, an uplink, a rule, a route, a port
forward, client policy, one that does not validate), and two edits let the plan
change after the preview and again after the acceptance. In `site` three steps are
a row, a row that relies on it, and the edit that breaks the reliance; the sites in
use start with both rows there, so that three more steps follow. In `collector` two
outside changes let an apply follow the replacement of a target, and the passes at
which sources lapse recur without a bound. In `jobs` a history limit of one and a
restore limit of two make each new entry compete with one in use; four requests are
an upload, its preview, its confirmation and a rival. In `fleet` an hour is two
windows and retention two and three, so that folding and pruning happen within four
windows; the bound on outages is shared by router reboots and a controller restart.
A router reboots only after it was read once, because before that nothing is
remembered of it.

Deadlock checking is off in the runs whose bounds end their behaviours (`engine`,
`provision`, `site`, `collector`, `jobs`, `fleet`) and in `admission`, where the
process exits.

Fairness. Goroutines take their steps because each operation runs under a
timeout (`WF`). Go channels queue blocked senders, so a waiter whose channel is
free again and again gets it: `SF` on `Admit` and on `LockSite`. A crashed
controller is restarted by its service manager (`WF` on `Restart`, and on `Start` within `Recover`). An accepted restore
stops the controller by itself (`WF` on its `Shutdown`), and start-up is one
goroutine that blocks on nothing but files (`WF` on `Recover`). Liveness of the
restore is claimed from the moment faults stop (`quiet`). The shutdown
is the main goroutine, its timers fire and a poll has a timeout (`WF` on
`Shutdown`, `RestartShutdown` and `EndPoll`); handlers and jobs may hang for
ever, and the shutdown ends nevertheless. Nothing is assumed of routers: lost messages are never forced to arrive.

## Proofs

Eight modules hold the proofs, and four of them have two parts: the `Provision` part
of `ApplyReceiptsProofs`, the `SiteModel` part of `CapabilityLedgerProofs`, the `Fleet`
part of `CollectorProofs` and the `RecoveryJobs` part of `DeviceGateProofs` follow
their first components and share nothing with them but the library's facts.

`DeviceGateProofs` proves `TypeOK`, `MutualExclusion`, `EntriesCounted`,
`WorksOnJoinedRouter` and `FenceExact` for all sets of goroutines, ids, routers
and addresses, from the assumption that goroutines are finitely many and `None`
is none of them. The inductive invariant adds what the code relies on without
saying so: two ids never share an entry; the token is set exactly while some
goroutine holds it; a goroutine's generation is the entry's unless the row was
deleted since it joined; a deletion in progress holds `telemetryLifecycle`, so
no row can appear between the commit and the invalidation. `EntriesCounted`
(an entry's count is the number of goroutines that refer to it) needs cardinality
of the set of references, by the library's finite-set facts.

`ApplyReceiptsProofs` proves every safety property of the receipts, the action
property `TerminalIsForever` included, for any number of operations, devices and
requests; the only assumption is that `None` is none of them. The invariant
(`IndInv`, checked by TLC first) adds who owns an operation: an unfinished one
has at most one owning request, whose place says how far the row is (`OwnInv`);
what the rows say about each other (`RowInv`); that a request past the boundary
has its device row applying and that the fallback it would answer with is
honest (`RunInv`); and that a refused operation has nobody left to run it
(`RefuseInv`). Without the last one `RefusalIsFinal` is not inductive: a refusal
could be followed by the write of a request that is still under way.

`CapabilityLedgerProofs` proves every property of the capability ledger, the
action property `RemovesOnlyOurs` included, for any libraries, tools and ports;
`CapabilityAssumption` says that these are disjoint and that the package ships
with a list of none of the router's ports. The invariant says what the row and
the router have to do with each other while they disagree: the row describes the
router as it was (`RowInv`), the applied file is the recorded one with other
ports (`FileInv`), and what a request remembers of its reads is still true when
it acts on it (`OpInv`). That a completed row names everything the controller
added is the point of the check for unexpected packages at the end of an
installation, and without it neither a clean removal nor a removal of nothing
else could be concluded.

`ApplyEngineProofs` proves the safety properties of the engine for any options,
files, plans, windows and numbers of runs and restarts. `BaseInv` ties the device
to the run: from the moment an apply is served the router runs what was written
or, once the timer is gone, what was there before, and it keeps the first for
good exactly when a confirm was served. `TimeInv` ties the two clocks: the
device's timer and the engine's age together never exceed the window and one
request. That is where `EngineConstants` needs `RpcTimeout <= Grace`, and the code
has it with equality: `DefaultRevertGrace` and ubus' `defaultTimeout` are both 15 s.
`FirstInv` follows the delta of a first run through lost sessions. It, and with it
`StagedWhatWeAsked` and the claim of `reverted` in `OutcomeIsTrue`, is stated under
`OneBatchPerFile`: `Batch` packs by bytes, a plan below its limit is a single batch,
and a larger one that splits a file is the first disagreement listed below. TLC
evaluates the hypothesis on the instance of the run. `ApplyEngineOutcomeHolds`
is the part of `OutcomeIsTrue` that needs no hypothesis.

`RestoreSwapProofs` proves `NoPairIsLost` and `RestoredIsReviewed` for any number of
restores, crashes and failed file operations and any retention, and that every
step of `RestoreSwap` is a step of `AtomicRestore` or a stutter. `StepInv` and
`PlaceInv` say which marker there can be at each place of the process. `PairInv`
carries the contents: a pair that no step has moved is whole, and so is the one
the marker names, in the stage, the rollback directory or in place, at each rank
of the marker. `ReviewInv` and `AuditInv` follow fence, receipt and audit record
through a second restore: what it took over had been reviewed and audited, since
nothing is prepared behind a fence. The assumption `NoneIsNoPair` says that no
pair and no receipt is `None`. In the refinement `CreateIntent` is `Confirm`, the
last marker write is `Commit`, opening the pair and clearing its receipt is `Serve`,
`ResumeRouterWrites` is `Resume`, and a shutdown, a crash, a refusal to start and a
finished rollback are `Stop`; all else stutters.

`AdmissionProofs` proves `ShutdownIsClean`, `RestoreIsAlone` and `LateNeverMutates`
for any handlers, tasks and background goroutines; `OwnersAssumption` says that
their names differ. `LeaseInv` and `ActiveInv` say that who is at work is in the
set that its gate counts, so that an empty gate means nobody. `StageInv` says what
`shutdownLifecycle` may rely on at each of its stages: a gate that was closed
before it was drained stays empty, unless a drain expired, and then ownership is
given up for good. `CloseInv` follows the flags from the decision to the exit;
`AloneInv` and `FenceInv` tie the exclusive lease, the marker and the fence to
where a confirmation or a resumption stands; `WakeInv` says that a drain's channel
exists only on a closed gate and is closed when it empties. The apply barrier
refuses nobody, so what its drain saw is not kept: that no apply outlives the
store follows from its operation and its request instead.

`AccountsProofs` proves `OwnerRemains` and `NoStaleSession` for any accounts,
passwords, tokens and concurrent requests. That an owner's request leaves an owner
behind is the guard of the statements (`LastOwner`); what the invariant adds is why
the guard suffices: every request and every live session names an account
(`ReqInv`, `SessInv`), a row is missing, a tombstone or complete (`RowInv`), and
setup is open exactly while there is no row at all (`FirstInv`), so that an actor
found enabled inside the transaction means that the first account exists and no
second setup can succeed. For `NoStaleSession`, whose statement has the exception
of `Overtaken`, `SeenInv` says that the account setup goes on with was inserted, and
that the row a sign-in has read is the present one or an earlier one of an account since deleted or
changed, and that the same hash means the same version: every derivation has a salt
of its own, which only grows in the model (`SaltInv`). `TokInv` says that at the
recheck the session this sign-in made, if it is still live, has the account, role
and version it was made with.

`CollectorProofs` proves `QuiesceIsBoundary`, `CacheIsCurrent` and `SessionIsCurrent`
for any callers, interfaces and targets; `CollectorAssumption` says that callers
are finitely many, which `BoundInv` needs because `p.quiesce` is the number of
those between `Quiesce` and their first release. That no cycle runs while it is
positive is what the rest is built on: an apply or an access refresh never happens
under a poll in flight, so that what the poll was told (`LookInv` of the interfaces,
`FreqInv` of the frequencies, `GrantInv` of the session's grants) is still so when
it is filed.

The `Provision` part of `ApplyReceiptsProofs` proves `TokenBinds`, `ClaimsCover` and
`TouchesOnlyOurs` for any sites, devices, probes and sections, whatever the renderers
make of them. `ProvisionAssumption` says that neither the stock configuration nor the
router's owner writes our marker, and that the stock configuration names each section
once. `BindInv` says what a run is bound to and that its batch is made from that plan
alone. `SectionInv` says that a package names each section once, on the router and in
what a plan has seen, and that a batch writes each at most once (`OneWrite`, which is
what `Ambiguous` refuses): otherwise "the section of that name" means nothing.
`CoverInv` follows every section of ours from the write to the record: while the
rollback is armed the record and the batch cover the router, and the record alone
covers what a revert would bring back. `DocInv` adds that a planned batch deletes
exactly what `Prune` says of a document whose silences the run still knows
(`blind`, `retain`).

The `SiteModel` part of `CapabilityLedgerProofs` proves `SiteIsWhole`, `NoDormantKey`
and `EditsStayPossible` for any networks, rules, sets, groups, clients and devices,
from the empty site; `SiteAssumption` gives the shape of what requests can carry and
the gateway among the devices. `SiteInv` is `SiteIsWhole` and the shape of the rows
(`SiteShape`): a rule's identifier is within the bound, its fields are those of its
kind, and networks are finitely many, so that the number of those that hold an address
says which one it is. Each
edit is checked by the handler against the whole site; what the proof adds is that the
steps beside it, an aged or pruned observation, an un-adoption, a poll, leave what a
stored policy rests on. `EditsStayPossible` needs that the identifier a draft gets is
above every stored one (`NextIdAbove`, from well-founded induction).

The `Fleet` part of `CollectorProofs` proves `OwnData`, `NoSplicedRate` and
`HistoryIsKept` for any routers, polls, deletions, restarts, sizes of ring, hour and
retention. `FleetOwn` lists who may own what at each step of `deleteDevice`: between
the deletion of the row and the purge the process still holds the last router's data,
and `telemetryLifecycle` keeps everybody else out. `FleetClocks` orders the baseline,
the reading in flight and the router's restarts, so that an uptime that advanced less
than the clock betrays every boot in between. For `HistoryIsKept`, `FleetTicks` says
that no sample is older than the window before the last cycle, because a poll crosses
one boundary at most; hence what a flush drains is not older than the newest hour
(`FleetRows`), and an hour before the newest is complete: it counts at least the rows
it still has (`FleetLadder`). That is why `FoldHourly` may begin at the newest hour and
`Prune` may delete what it does. `TelemetryAssumption` asks that an hour is retained
as long as its five-minute rows, the alignment of the cut included; the defaults are
396 and 14 days. Sums are over finite sets: `CountIsNat` shows that the sum the fold
operator chooses exists, by induction over a set of numbers.

The `RecoveryJobs` part of `DeviceGateProofs` proves `CancelHolds`, `ConfirmedIsSeen`
and `FilesAccounted` for any jobs, uploads, previews, limits and faults. `FilesNamed`
keeps every name on disk among those a start-up knows. `BackupInv` and `RestoreInv` say
whose each file is at every step of a worker, a receiving request, an inspection and
a confirmation, so that a file whose owner is done has been published, removed or is
known to be stuck; that retention never takes what is at work or referenced; and that
an accepted cancellation has stopped its context before the job can complete.

Only model-checked are the liveness properties, which under fairness are beyond the
prover (`EveryWaiterReturns`, `EveryOperationEnds`, `EveryRunReturns`,
`AcceptedIsServed`, `ShutdownEnds`), and `ApplyIsComplete`: that planning again finds
nothing to do is not to be expected of arbitrary sites, and a theorem would need all of
what `SiteModel` guarantees of a stored site, in the vocabulary of the renderers. No module declares a recursive operator.

## Disagreements met while modelling

Places where the code does something else than a comment, a document or a message
of the repository says. No property claims them, or one names the exception.

* `internal/applyengine/engine.go:431`: `verifyStaged` "checks the device staged what
  we asked" (line 420) by asking whether each file has some staged change. When
  `Batch` splits the changes of one file and the session dies between the chunks,
  the second is resent on a new session, the first is lost, and the check passes.
  The `engine` run sends one batch per file (`OneBatchPerFile`), where this cannot
  happen, and the theorems about `StagedWhatWeAsked` and the whole of `OutcomeIsTrue`
  have it as a hypothesis.
* The same engine, a second apply within the window of one whose answer was lost: the
  expiring rollback puts the first delta back into the session both share, and the
  second run applies it, or reports `reverted` of a router that still runs it.
* `internal/restoreswap/apply.go:157`: `docs/ROADMAP.md:737-738` says that start-up
  "rolls back the raw pair on failure". When the "cleanup" marker is in place and only
  the directory's fsync fails, `restoreOld` moves the pair back under that marker; a
  crash before it rewrites the marker leaves files that `finishCleanup` refuses at
  every later start.
* `internal/api/live.go:134`: `Hub.Close` "drops every connection" (line 340), and the
  shutdown relies on it (`internal/daemon/daemon.go:463`). It leaves no closed flag:
  a websocket hijacked but not yet registered joins afterwards, nobody closes it, and
  the request drain runs into its deadline.
* `internal/daemon/lldp_capability.go:111`: a configuration cut short on the router, or
  a second one recorded and never run, leaves a file that is neither the recorded nor
  the applied one. Every later request is refused with "changed outside the
  controller" (line 668), and un-adoption refuses a device with a record
  (`internal/daemon/adopt.go:351`).
* `internal/api/auth.go:705`: `RehashAdminPassword` "upgrades Argon2 parameters after a
  successful login" (`internal/store/admin.go:396`) without the old hash in its
  condition. A reset between the comparison and the write is lost: the old password
  opens the account again.
* `internal/api/auth.go:801-817`: "Changing an account's password ends all sessions for
  that account. Disabling, deleting, or changing a role also updates/revokes affected
  sessions" (`docs/concepts/permissions.md:97-98`). `handleSetup` inserts the owner and
  then makes its session without the second look of `handleLogin` (lines 683-698). When
  other requests sign in as the new owner in between and change its password, or create
  a second owner who disables, demotes or deletes it, the session of setup comes after
  the revocation and outlives it, with the owner's role, until the account's next change.
* `internal/reconcile/policy_health.go:217`: a network with DHCPv4 off and an IPv6
  policy renders a `dhcp` section without a range, on purpose
  (`internal/render/network.go:315`); the runtime checks of DHCP require a range and
  revert every apply of such a site.
* `internal/store/rollup.go:61-63`: the "aggregate for a completed window is idempotent
  by construction". A sample that arrives after its window was flushed makes the next
  flush replace the row by the late samples alone.

## Not modelled

* Adoption on the router (ACL file, login, undoing them), condition edges, cascade
  grouping and event compaction, alert rules, key rotation: left on the plan.
* The diagnostics job manager: the shape of `BackupJobs`.
* Counter arithmetic (wrap, ratio, score), WAN probes, retention of events, scans and
  topology, the length of a poll interval: data behind the control that is modelled.
* Parsing, topology inference, encryption and archive formats: data transformations
  without control. SQL schema and migrations: each is one transaction. Read-only
  projections of observations, the user interface, packaging.

`PROJECT.json` gives the reason for each part.
