--------------------------- MODULE AdmissionProofs ---------------------------
(***************************************************************************)
(* ShutdownIsClean, RestoreIsAlone and LateNeverMutates of Admission, for  *)
(* any handlers, background goroutines and tasks.                          *)
(*                                                                         *)
(* Two facts carry them.  LeaseInv and ActiveInv: who is at work is in the *)
(* set its gate counts, so that an empty gate means nobody.  StageInv: a   *)
(* gate that was closed before it was drained stays empty, so that what    *)
(* shutdownLifecycle saw in its drains still holds when it closes the      *)
(* store, unless a drain expired and it gave up ownership.                 *)
(***************************************************************************)
EXTENDS Admission, TLAPS

Alone == {"exclusive", "intent", "closing", "answer", "releaseExclusive"}
Resuming == {"resumeDaemon", "resumeServer", "resumeGate", "resumed"}
Leased == {"leased", "holding", "working", "applying", "recording", "release"}

\* Which request can be where.
TaskInv == \A h \in Handlers :
    /\ at[h] \in {"applying", "recording"} => task[h] = "apply"
    /\ at[h] \in {"holding", "working"} => task[h] \in {"mutate", "apply"}
    /\ at[h] \in {"leased", "release"} => task[h] \in {"apply", "job", "confirm"}
    /\ at[h] \in {"confirming", "prepared", "finish"} \cup Alone => task[h] = "confirm"

\* Who has begun an operation is in the gate.
LeaseInv ==
    /\ \A h \in Handlers :
          /\ task[h] = "apply" /\ at[h] \in Leased => Lease(h, "apply") \in ops.leases
          /\ task[h] = "job" /\ at[h] \in {"leased", "release"} => Lease(h, "backup") \in ops.leases
          /\ task[h] = "confirm" /\ at[h] \in {"leased", "prepared", "release"} =>
                Lease(h, "restore_prepare") \in ops.leases
    /\ \A b \in bg : Lease(b, "capability") \in ops.leases
    /\ jobs.running = "run" => Lease("job", "backup") \in ops.leases
    /\ loop.state = "cycle" => Lease("loop", "neighbour_reconcile") \in ops.leases

ActiveInv == \A h \in Handlers :
    /\ at[h] # "idle" => h \in reqs.active
    /\ h \in applies.active => at[h] = "applying"

AloneInv ==
    /\ \A h \in Handlers :
          /\ at[h] \in Alone => ops.exclusive
          /\ at[h] \in {"closing", "answer"} => ops.closed
          /\ at[h] \in {"intent", "closing", "answer"} => restore.marker # "none"
    /\ \A h, k \in Handlers : at[h] \in Alone /\ at[k] \in Alone => h = k
    /\ restore.accepted => ops.closed /\ restore.marker # "none"

FenceInv ==
    /\ fence.disk => ops.suppressed
    /\ \A h \in Handlers : at[h] \in Resuming => ~fence.disk

\* A channel is made for a gate that is closed and busy, and closed when it is empty.
WakeInv ==
    /\ ops.idle # "none" => ops.closed
    /\ ops.idle = "closed" => ~ops.exclusive /\ ops.leases = {}
    /\ reqs.idle # "none" => reqs.closed
    /\ reqs.idle = "closed" => reqs.active = {}
    /\ ops.idle = "open" => ops.exclusive \/ ops.leases # {}
    /\ reqs.idle = "open" => reqs.active # {}
    /\ applies.idle = "open" => applies.active # {}

LateInv == late # {} => reqs.closed

Decided == {"close", "mark", "release", "done"}
Drained == {"decide"} \cup Decided
OpsDrained == {"requests", "armRequests", "awaitRequests"} \cup Drained
Flushed == {"applies", "armApplies", "awaitApplies", "operations", "armOperations",
            "awaitOperations"} \cup OpsDrained
Stopped == {"cascade", "maintainer"} \cup Flushed

StageInv ==
    /\ sd.stage \notin {"serve", "closeOps"} => ops.closed
    /\ sd.stage \notin {"serve", "closeOps", "closeReqs"} => reqs.closed
    /\ sd.errs \/ sd.life
    /\ sd.life => sd.own
    /\ sd.stage \in Stopped => poll.state = "stopped"
    /\ sd.stage \in Flushed /\ sd.life => ~poll.unflushed
    /\ sd.stage \in OpsDrained /\ sd.own => ~ops.exclusive /\ ops.leases = {}
    /\ sd.stage \in Drained /\ sd.own => reqs.active = {}

CloseInv ==
    /\ data.store = "closed" => sd.stage \in {"mark", "release", "done"} /\ sd.life
    /\ data.lock = "free" => sd.stage = "done" /\ sd.own
    /\ restore.marker = "clean" =>
          /\ sd.stage \in {"release", "done"} /\ sd.life /\ restore.accepted /\ sd.pair
          /\ data.store = "closed"
    /\ sd.promote => restore.accepted /\ sd.life /\ restore.marker # "none"
    /\ sd.promote => sd.stage \in Decided
    /\ sd.stage = "mark" => sd.promote /\ sd.pair /\ data.store = "closed"
    /\ sd.stage \in {"release", "done"} /\ ~sd.errs => sd.pair /\ data.store = "closed"
    /\ sd.stage \in {"close", "mark"} /\ ~sd.errs /\ restore.accepted => sd.promote
    /\ sd.stage \in {"release", "done"} /\ ~sd.errs /\ restore.accepted => restore.marker = "clean"
    /\ sd.stage = "done" /\ ~sd.errs => data.log = "closed" /\ data.lock = "free"

IndInv ==
    /\ TypeOK /\ TaskInv /\ LeaseInv /\ ActiveInv /\ AloneInv /\ FenceInv
    /\ NothingBesideRestore /\ FencedWritesNothing
    /\ WakeInv /\ LateInv /\ LateNeverMutates /\ StageInv /\ CloseInv

-----------------------------------------------------------------------------
LEMMA LeaseDistinct ==
    \A a, b, k, l : Lease(a, k) = Lease(b, l) <=> a = b /\ k = l
BY DEF Lease

LEMMA KindsOfTasks ==
    KindOf["apply"] = "apply" /\ KindOf["job"] = "backup" /\ KindOf["confirm"] = "restore_prepare"
BY DEF KindOf

LEMMA LeaseType ==
    ASSUME NEW o \in Owners, NEW k \in Kinds
    PROVE  Lease(o, k) \in [owner : Owners, kind : Kinds]
BY DEF Lease

LEMMA LeaseKind == \A o, k : Lease(o, k).kind = k
BY DEF Lease

LEMMA InitInv == Init => IndInv
<1> SUFFICES ASSUME Init PROVE IndInv
  OBVIOUS
<1> PICK fenced \in BOOLEAN :
      /\ ops = [closed |-> FALSE, exclusive |-> FALSE, suppressed |-> fenced,
                leases |-> {}, idle |-> "none"]
      /\ reqs = [closed |-> FALSE, active |-> {}, idle |-> "none"]
      /\ applies = [active |-> {}, idle |-> "none"]
      /\ site = None
      /\ task = [h \in Handlers |-> "mutate"]
      /\ at = [h \in Handlers |-> "idle"]
      /\ jobs = [closing |-> FALSE, running |-> "no", restoresClosed |-> FALSE,
                 confirming |-> None]
      /\ conns = {}
      /\ bg = {}
      /\ loop = [state |-> IF fenced THEN "off" ELSE "sleep",
                 owned |-> ~fenced, cancelled |-> FALSE]
      /\ poll = [state |-> "idle", unflushed |-> FALSE]
      /\ fence = [disk |-> fenced, daemon |-> fenced, server |-> fenced]
      /\ restore = [marker |-> "none", accepted |-> FALSE]
      /\ sd = [stage |-> "serve", life |-> TRUE, own |-> TRUE, promote |-> FALSE,
               errs |-> FALSE, pair |-> FALSE]
      /\ data = [store |-> "open", log |-> "open", lock |-> "held"]
      /\ late = {}
  BY Zenon DEF Init
<1>1. TypeOK
  <2>1. loop \in [state : {"off", "sleep", "cycle"}, owned : BOOLEAN, cancelled : BOOLEAN]
    OBVIOUS
  <2>2. ops \in [closed : BOOLEAN, exclusive : BOOLEAN, suppressed : BOOLEAN,
                 leases : SUBSET [owner : Owners, kind : Kinds], idle : Channel]
    BY DEF Channel
  <2>3. sd \in [stage : Stages, life : BOOLEAN, own : BOOLEAN, promote : BOOLEAN,
                errs : BOOLEAN, pair : BOOLEAN]
    BY DEF Stages
  <2>4. task \in [Handlers -> Tasks] /\ at \in [Handlers -> Places]
    BY DEF Tasks, Places
  <2> QED  BY <2>1, <2>2, <2>3, <2>4 DEF TypeOK, Channel
<1>2. \A h \in Handlers : at[h] = "idle"
  OBVIOUS
<1>3. TaskInv /\ LeaseInv /\ ActiveInv /\ AloneInv /\ FenceInv
  BY <1>2 DEF TaskInv, LeaseInv, ActiveInv, AloneInv, FenceInv, Alone, Resuming, Leased
<1>4. /\ NothingBesideRestore /\ FencedWritesNothing /\ WakeInv /\ LateInv /\ LateNeverMutates
  BY DEF NothingBesideRestore, FencedWritesNothing, WakeInv, LateInv, LateNeverMutates
<1>5. StageInv /\ CloseInv
  BY DEF StageInv, CloseInv, Stopped, Flushed, OpsDrained, Drained, Decided
<1> QED  BY <1>1, <1>3, <1>4, <1>5 DEF IndInv

-----------------------------------------------------------------------------
(* Steps of a handler that leave the gates alone.                          *)

\* The handler goes to a place that its task allows and that needs no more than
\* it had.
LEMMA MoveFrame ==
    ASSUME IndInv, NEW h \in Handlers, NEW p \in Places,
           at' = [at EXCEPT ![h] = p],
           UNCHANGED <<ops, reqs, applies, task, bg, poll, fence, restore, sd, data, late>>,
           jobs'.running = jobs.running, loop'.state \in {loop.state, "sleep"},
           TypeOK',
           at[h] \notin {"idle", "applying"},
           p \notin Alone \ {"releaseExclusive"}, p \notin Resuming,
           p = "releaseExclusive" => at[h] \in Alone,
           p \notin {"applying", "recording"},
           p \in {"holding", "working"} => task[h] \in {"mutate", "apply"},
           p \in {"leased", "release"} => task[h] \in {"apply", "job", "confirm"},
           p \in {"confirming", "prepared", "finish"} => task[h] = "confirm",
           p \in Leased \cup {"prepared"} => at[h] \in Leased \cup {"prepared"} \/ task[h] = "mutate",
           p = "working" => ~reqs.closed
    PROVE  IndInv'
<1> USE DEF IndInv
<1>0. at \in [Handlers -> Places]
  BY DEF TypeOK
<1>1. at'[h] = p /\ \A k \in Handlers : k # h => at'[k] = at[k]
  BY <1>0
<1>2. TaskInv'
  BY <1>1 DEF TaskInv, Alone
<1>3. LeaseInv'
  BY <1>1 DEF LeaseInv, TaskInv, Leased
<1>4. ActiveInv'
  BY <1>1 DEF ActiveInv
<1>5. AloneInv'
  BY <1>1 DEF AloneInv, Alone
<1>6. FenceInv' /\ FencedWritesNothing' /\ NothingBesideRestore'
  BY <1>1 DEF FenceInv, FencedWritesNothing, NothingBesideRestore
<1>7. WakeInv' /\ LateInv'
  BY DEF WakeInv, LateInv
<1>8. LateNeverMutates'
  BY <1>1 DEF LateNeverMutates, LateInv
<1>9. StageInv' /\ CloseInv'
  BY DEF StageInv, CloseInv
<1> QED  BY <1>2, <1>3, <1>4, <1>5, <1>6, <1>7, <1>8, <1>9

JobsType == [closing : BOOLEAN, running : {"no", "run", "done"},
             restoresClosed : BOOLEAN, confirming : Handlers \cup {None}]
LoopType == [state : {"off", "sleep", "cycle"}, owned : BOOLEAN, cancelled : BOOLEAN]
PollType == [state : {"idle", "polling", "stopped"}, unflushed : BOOLEAN]

LEMMA MoveType ==
    ASSUME TypeOK, NEW h \in Handlers, NEW p \in Places,
           at' = [at EXCEPT ![h] = p],
           UNCHANGED <<ops, reqs, applies, task, bg, poll, fence, restore, sd, data, late>>,
           site' \in Handlers \cup {None}, jobs' \in JobsType, loop' \in LoopType,
           conns' \in SUBSET Handlers
    PROVE  TypeOK'
<1>1. at' \in [Handlers -> Places]
  BY DEF TypeOK
<1> QED  BY <1>1 DEF TypeOK, JobsType, LoopType

Moves(h) == LockSite(h) \/ LockCancelled(h) \/ CheckStopping(h) \/ UnlockSite(h)
            \/ UpgradeLive(h) \/ Prepare(h) \/ RegisterLive(h) \/ EndLive(h)
            \/ BeginConfirmation(h) \/ FinishConfirmation(h) \/ StartNeighbourReconciler(h)

LEMMA MoveStep ==
    ASSUME IndInv, NEW h \in Handlers, Moves(h) PROVE IndInv'
<1> USE DEF IndInv
<1>1. CASE LockSite(h) \/ LockCancelled(h) \/ CheckStopping(h) \/ UnlockSite(h)
  <2>1. /\ UNCHANGED <<ops, reqs, applies, task, bg, poll, fence, restore, sd, data, late>>
        /\ UNCHANGED <<jobs, loop, conns>> /\ site' \in {site, None, h}
    BY <1>1 DEF LockSite, LockCancelled, CheckStopping, UnlockSite, gates, worker, ending
  <2>2. PICK p \in {"holding", "working", "release", "leave"} :
          /\ at' = [at EXCEPT ![h] = p]
          /\ p = "holding" => Queued(h)
          /\ p = "working" => at[h] = "holding" /\ ~reqs.closed
          /\ p = "release" => task[h] = "apply" /\ (Queued(h) \/ at[h] \in {"holding", "working", "recording"})
          /\ Queued(h) \/ at[h] \in {"holding", "working", "recording"}
    BY <1>1 DEF LockSite, LockCancelled, CheckStopping, UnlockSite, Goto, Unwind
  <2>3. p \in Places
    BY DEF Places
  <2>4. TypeOK'
    BY <2>1, <2>2, <2>3, MoveType DEF TypeOK, JobsType, LoopType
  <2>5. /\ at[h] \notin {"idle", "applying"}
        /\ p \in {"holding", "working"} => task[h] \in {"mutate", "apply"}
        /\ p \in Leased => at[h] \in Leased \/ task[h] = "mutate"
    BY <2>2 DEF Queued, TaskInv, Leased
  <2> QED  BY <2>1, <2>2, <2>3, <2>4, <2>5, MoveFrame DEF Alone, Resuming
<1>2. CASE UpgradeLive(h) \/ Prepare(h) \/ RegisterLive(h) \/ EndLive(h)
  <2>1. /\ UNCHANGED <<ops, reqs, applies, task, bg, poll, fence, restore, sd, data, late>>
        /\ UNCHANGED <<jobs, loop, site>> /\ conns' \in {conns, conns \cup {h}, conns \ {h}}
    BY <1>2 DEF UpgradeLive, Prepare, RegisterLive, EndLive, gates, worker, ending
  <2>2. PICK p \in {"hijacked", "leave", "live", "prepared", "release"} :
          /\ at' = [at EXCEPT ![h] = p]
          /\ p \in {"prepared", "release"} => at[h] = "leased" /\ task[h] = "confirm"
          /\ at[h] \in {"admitted", "leased", "hijacked", "live"}
    BY <1>2 DEF UpgradeLive, Prepare, RegisterLive, EndLive, Goto
  <2>3. p \in Places
    BY DEF Places
  <2>4. TypeOK'
    BY <2>1, <2>2, <2>3, MoveType DEF TypeOK, JobsType, LoopType
  <2> QED  BY <2>1, <2>2, <2>3, <2>4, MoveFrame DEF Alone, Resuming, Leased
<1>3. CASE BeginConfirmation(h) \/ FinishConfirmation(h)
  <2>1. /\ UNCHANGED <<ops, reqs, applies, task, bg, poll, fence, restore, sd, data, late>>
        /\ UNCHANGED <<conns, loop, site>>
        /\ \/ UNCHANGED jobs
           \/ jobs' = [jobs EXCEPT !.confirming = h]
           \/ jobs' = [jobs EXCEPT !.confirming = None]
    BY <1>3 DEF BeginConfirmation, FinishConfirmation, gates, worker, ending
  <2>2. PICK p \in {"confirming", "leave"} :
          /\ at' = [at EXCEPT ![h] = p]
          /\ p = "confirming" => task[h] = "confirm"
          /\ at[h] \in {"admitted", "finish"}
    BY <1>3 DEF BeginConfirmation, FinishConfirmation, Goto
  <2>3. p \in Places
    BY DEF Places
  <2>4. jobs' \in JobsType /\ jobs'.running = jobs.running
    BY <2>1 DEF TypeOK, JobsType
  <2>5. TypeOK'
    BY <2>1, <2>2, <2>3, <2>4, MoveType DEF TypeOK, LoopType
  <2> QED  BY <2>1, <2>2, <2>3, <2>4, <2>5, MoveFrame DEF Alone, Resuming, Leased
<1>4. CASE StartNeighbourReconciler(h)
  <2>1. /\ UNCHANGED <<ops, reqs, applies, task, bg, poll, fence, restore, sd, data, late>>
        /\ UNCHANGED <<jobs, conns, site>> /\ at[h] = "resumed"
        /\ at' = [at EXCEPT ![h] = "leave"]
        /\ loop' \in {loop, [state |-> "sleep", owned |-> TRUE, cancelled |-> FALSE]}
    BY <1>4 DEF StartNeighbourReconciler, gates, ending, Goto
  <2>2. loop' \in LoopType /\ loop'.state \in {loop.state, "sleep"} /\ "leave" \in Places
    <3> DEFINE new == [state |-> "sleep", owned |-> TRUE, cancelled |-> FALSE]
    <3>1. new \in LoopType /\ new.state = "sleep"
      BY DEF LoopType
    <3>2. loop \in LoopType /\ "leave" \in Places
      BY DEF TypeOK, LoopType, Places
    <3> HIDE DEF new
    <3>3. loop' = loop \/ loop' = new
      BY <2>1 DEF new
    <3> QED  BY <3>1, <3>2, <3>3
  <2>3. TypeOK'
    BY <2>1, <2>2, MoveType DEF TypeOK, JobsType
  <2> QED  BY <2>1, <2>2, <2>3, MoveFrame DEF Alone, Resuming, Leased
<1> QED  BY <1>1, <1>2, <1>3, <1>4 DEF Moves

-----------------------------------------------------------------------------
(* Steps of a handler through a gate.                                      *)

\* The other parts of the state, when a handler moves and a gate changes.
Aside == <<site, jobs, conns, bg, loop, poll, fence, restore, sd, data>>

LEMMA AdmitStep ==
    ASSUME IndInv, NEW h \in Handlers, NEW t \in Tasks, Admit(h, t) PROVE IndInv'
<1> USE DEF IndInv
<1>1. /\ UNCHANGED <<ops, applies, late>> /\ UNCHANGED Aside
      /\ at[h] = "idle" /\ ~reqs.closed
      /\ reqs' = [reqs EXCEPT !.active = @ \cup {h}]
      /\ task' = [task EXCEPT ![h] = t] /\ at' = [at EXCEPT ![h] = "admitted"]
  BY DEF Admit, Goto, Aside, worker, ending
<1>2. /\ at'[h] = "admitted" /\ task'[h] = t
      /\ \A k \in Handlers : k # h => at'[k] = at[k] /\ task'[k] = task[k]
      /\ reqs'.active = reqs.active \cup {h} /\ reqs'.closed = reqs.closed
      /\ reqs'.idle = reqs.idle
  BY <1>1 DEF TypeOK
<1>3. TypeOK'
  <2>1. reqs' \in [closed : BOOLEAN, active : SUBSET Handlers, idle : Channel]
    BY <1>1 DEF TypeOK
  <2>2. task' \in [Handlers -> Tasks] /\ at' \in [Handlers -> Places]
    BY <1>1 DEF TypeOK, Places
  <2> QED  BY <1>1, <2>1, <2>2 DEF TypeOK, Aside
<1>4. TaskInv' /\ LeaseInv' /\ ActiveInv'
  BY <1>1, <1>2 DEF TaskInv, LeaseInv, ActiveInv, Alone, Leased, Aside
<1>5. AloneInv' /\ FenceInv' /\ FencedWritesNothing' /\ NothingBesideRestore'
  BY <1>1, <1>2 DEF AloneInv, FenceInv, FencedWritesNothing, NothingBesideRestore, Alone, Resuming, Aside
<1>6. WakeInv' /\ LateInv' /\ LateNeverMutates'
  BY <1>1, <1>2 DEF WakeInv, LateInv, LateNeverMutates
<1>7. StageInv' /\ CloseInv'
  BY <1>1, <1>2 DEF StageInv, CloseInv, Aside, Drained, Decided
<1> QED  BY <1>3, <1>4, <1>5, <1>6, <1>7

\* begin: another owner's leases stay, and an open gate was not drained.
LEMMA BeginFrame ==
    ASSUME IndInv, NEW o \in Owners, NEW k \in Kinds, MayBegin(k), Begin(o, k)
    PROVE  /\ ops' \in [closed : BOOLEAN, exclusive : BOOLEAN, suppressed : BOOLEAN,
                        leases : SUBSET [owner : Owners, kind : Kinds], idle : Channel]
           /\ ops'.leases = ops.leases \cup {Lease(o, k)}
           /\ ops'.closed = ops.closed /\ ops'.exclusive = ops.exclusive
           /\ ops'.suppressed = ops.suppressed /\ ops'.idle = ops.idle
           /\ ~ops.closed /\ ~ops.exclusive /\ ops.idle = "none"
           /\ UNCHANGED fence => FencedWritesNothing'
<1>1. Lease(o, k) \in [owner : Owners, kind : Kinds]
  BY LeaseType
<1>2. ops' = [ops EXCEPT !.leases = @ \cup {Lease(o, k)}]
  BY DEF Begin
<1>3. /\ ops \in [closed : BOOLEAN, exclusive : BOOLEAN, suppressed : BOOLEAN,
                  leases : SUBSET [owner : Owners, kind : Kinds], idle : Channel]
      /\ ~ops.closed /\ ~ops.exclusive /\ (ops.suppressed => ~operationWritesRouter(k))
      /\ ops.idle = "none"
  BY DEF IndInv, TypeOK, MayBegin, WakeInv
<1>4. /\ ops' \in [closed : BOOLEAN, exclusive : BOOLEAN, suppressed : BOOLEAN,
                   leases : SUBSET [owner : Owners, kind : Kinds], idle : Channel]
      /\ ops'.leases = ops.leases \cup {Lease(o, k)}
      /\ ops'.closed = ops.closed /\ ops'.exclusive = ops.exclusive
      /\ ops'.suppressed = ops.suppressed /\ ops'.idle = ops.idle
  BY <1>1, <1>2, <1>3
<1>5. ASSUME UNCHANGED fence PROVE FencedWritesNothing'
  BY <1>3, <1>4, <1>5, LeaseKind DEF IndInv, FenceInv, FencedWritesNothing
<1> QED  BY <1>3, <1>4, <1>5

\* The release of one lease: it is gone, the others stay, and a waiter is woken
\* by the last.
LEMMA ReleaseFrame ==
    ASSUME IndInv, NEW o \in Owners, NEW k \in Kinds, Release(o, k)
    PROVE  /\ ops' \in [closed : BOOLEAN, exclusive : BOOLEAN, suppressed : BOOLEAN,
                        leases : SUBSET [owner : Owners, kind : Kinds], idle : Channel]
           /\ ops'.leases = ops.leases \ {Lease(o, k)}
           /\ ops'.closed = ops.closed /\ ops'.exclusive = ops.exclusive
           /\ ops'.suppressed = ops.suppressed
           /\ ops'.idle # "none" => ops.closed
           /\ ops'.idle = "closed" => ~ops.exclusive /\ ops'.leases = {}
           /\ ops'.idle = "open" => ops.exclusive \/ ops'.leases # {}
           /\ UNCHANGED fence => FencedWritesNothing'
<1> DEFINE left == ops.leases \ {Lease(o, k)}
<1>1. ops' = [ops EXCEPT !.leases = left, !.idle = Signal(@, left = {} /\ ~ops.exclusive)]
  BY DEF Release
<1>2. ops \in [closed : BOOLEAN, exclusive : BOOLEAN, suppressed : BOOLEAN,
               leases : SUBSET [owner : Owners, kind : Kinds], idle : Channel]
  BY DEF IndInv, TypeOK
<1>3. left \in SUBSET [owner : Owners, kind : Kinds] /\ left \subseteq ops.leases
  BY <1>2
<1>4. /\ Signal(ops.idle, left = {} /\ ~ops.exclusive) \in Channel
      /\ Signal(ops.idle, left = {} /\ ~ops.exclusive) # "none" => ops.closed
      /\ Signal(ops.idle, left = {} /\ ~ops.exclusive) = "closed" => ~ops.exclusive /\ left = {}
      /\ Signal(ops.idle, left = {} /\ ~ops.exclusive) = "open" => ops.exclusive \/ left # {}
  <2>1. ops.idle \in Channel
    BY <1>2
  <2>2. ops.idle = "closed" => ~ops.exclusive /\ left = {}
    BY <1>3 DEF IndInv, WakeInv
  <2>3. ops.idle # "none" => ops.closed
    BY DEF IndInv, WakeInv
  <2> QED  BY <2>1, <2>2, <2>3 DEF Signal, Channel
<1> HIDE DEF left
<1>5. /\ ops' \in [closed : BOOLEAN, exclusive : BOOLEAN, suppressed : BOOLEAN,
                   leases : SUBSET [owner : Owners, kind : Kinds], idle : Channel]
      /\ ops'.leases = left /\ ops'.idle = Signal(ops.idle, left = {} /\ ~ops.exclusive)
      /\ ops'.closed = ops.closed /\ ops'.exclusive = ops.exclusive
      /\ ops'.suppressed = ops.suppressed
  BY <1>1, <1>2, <1>3, <1>4
<1>6. ASSUME UNCHANGED fence PROVE FencedWritesNothing'
  BY <1>3, <1>5, <1>6 DEF IndInv, FencedWritesNothing
<1> QED  BY <1>4, <1>5, <1>6 DEF left

LEMMA OwnersApart ==
    ASSUME NEW h \in Handlers
    PROVE  h # "job" /\ h # "loop" /\ h \notin Background /\ h \in Owners
BY OwnersAssumption DEF Owners

\* While anybody is in the operation gate nothing has been drained or upgraded.
LEMMA BusyGate ==
    ASSUME IndInv, ops.leases # {}
    PROVE  /\ ~ops.exclusive /\ ~restore.accepted /\ ops.idle # "closed"
           /\ ~(sd.stage \in OpsDrained /\ sd.own)
BY DEF IndInv, NothingBesideRestore, WakeInv, StageInv

LEMMA OpenGate ==
    ASSUME IndInv, ~ops.closed
    PROVE  ~restore.accepted /\ sd.stage \notin OpsDrained
<1>1. sd.stage \in {"serve", "closeOps"} /\ ~restore.accepted
  BY DEF IndInv, StageInv, AloneInv
<1> QED  BY <1>1 DEF OpsDrained, Drained, Decided

LEMMA BeginOperationStep ==
    ASSUME IndInv, NEW h \in Handlers, BeginOperation(h) PROVE IndInv'
<1> USE DEF IndInv
<1>1. /\ UNCHANGED <<reqs, applies, task, late>> /\ UNCHANGED Aside
      /\ (at[h] = "admitted" /\ task[h] \in {"apply", "job"}) \/ at[h] = "confirming"
  BY DEF BeginOperation, Aside, worker, ending
<1>2. task[h] \in {"apply", "job", "confirm"} /\ (at[h] = "confirming" => task[h] = "confirm")
  BY <1>1 DEF TaskInv, Alone
<1>3. CASE UNCHANGED ops /\ Goto(h, IF task[h] = "confirm" THEN "finish" ELSE "leave")
  <2>1. PICK p \in {"finish", "leave"} :
          at' = [at EXCEPT ![h] = p] /\ (p = "finish" => task[h] = "confirm")
    BY <1>3 DEF Goto
  <2>2. p \in Places
    BY DEF Places
  <2>3. TypeOK'
    BY <1>1, <1>3, <2>1, <2>2, MoveType DEF TypeOK, JobsType, LoopType, Aside
  <2> QED  BY <1>1, <1>3, <2>1, <2>2, <2>3, MoveFrame DEF Alone, Resuming, Leased, Aside
<1>4. CASE MayBegin(KindOf[task[h]]) /\ Begin(h, KindOf[task[h]]) /\ Goto(h, "leased")
  <2>1. PICK k \in Kinds : /\ k = KindOf[task[h]]
                           /\ task[h] = "apply" => k = "apply"
                           /\ task[h] = "job" => k = "backup"
                           /\ task[h] = "confirm" => k = "restore_prepare"
    BY <1>2, KindsOfTasks DEF Kinds
  <2>2. /\ ops' \in [closed : BOOLEAN, exclusive : BOOLEAN, suppressed : BOOLEAN,
                     leases : SUBSET [owner : Owners, kind : Kinds], idle : Channel]
        /\ ops'.leases = ops.leases \cup {Lease(h, k)}
        /\ ops'.closed = ops.closed /\ ops'.exclusive = ops.exclusive
        /\ ops'.suppressed = ops.suppressed /\ ops'.idle = ops.idle
        /\ ~ops.closed /\ ~ops.exclusive /\ ops.idle = "none"
        /\ FencedWritesNothing'
    BY <1>1, <1>4, <2>1, OwnersApart, BeginFrame DEF Aside
  <2>3. at'[h] = "leased" /\ \A j \in Handlers : j # h => at'[j] = at[j]
    BY <1>4 DEF Goto, TypeOK
  <2>4. TypeOK'
    <3>1. at' \in [Handlers -> Places]
      BY <1>4 DEF Goto, TypeOK, Places
    <3> QED  BY <1>1, <2>2, <3>1 DEF TypeOK, Aside
  <2>5. TaskInv' /\ ActiveInv'
    BY <1>1, <1>2, <2>3 DEF TaskInv, ActiveInv, Alone
  <2>6. LeaseInv'
    BY <1>1, <1>2, <2>1, <2>2, <2>3 DEF LeaseInv, Aside
  <2>7. AloneInv' /\ FenceInv' /\ NothingBesideRestore'
    BY <1>1, <2>2, <2>3, OpenGate
       DEF AloneInv, FenceInv, NothingBesideRestore, Alone, Resuming, Aside
  <2>8. WakeInv' /\ LateInv' /\ LateNeverMutates'
    <3>1. late \subseteq Handlers
      BY DEF TypeOK
    <3> QED  BY <1>1, <2>2, <2>3, <3>1 DEF WakeInv, LateInv, LateNeverMutates
  <2>9. StageInv' /\ CloseInv'
    BY <1>1, <2>2, OpenGate DEF StageInv, CloseInv, Aside
  <2> QED  BY <2>2, <2>4, <2>5, <2>6, <2>7, <2>8, <2>9
<1> QED  BY <1>3, <1>4 DEF BeginOperation

LEMMA ReleaseOperationStep ==
    ASSUME IndInv, NEW h \in Handlers, ReleaseOperation(h) PROVE IndInv'
<1> USE DEF IndInv
<1>1. /\ UNCHANGED <<reqs, applies, task, late>> /\ UNCHANGED Aside
      /\ at[h] = "release" /\ Release(h, KindOf[task[h]])
  BY DEF ReleaseOperation, Aside, worker, ending
<1>2. task[h] \in {"apply", "job", "confirm"}
  BY <1>1 DEF TaskInv
<1>3. PICK p \in {"finish", "leave"} :
        at' = [at EXCEPT ![h] = p] /\ (p = "finish" => task[h] = "confirm")
  BY DEF ReleaseOperation, Goto
<1>4. PICK k \in Kinds : k = KindOf[task[h]]
  BY <1>2, KindsOfTasks DEF Kinds
<1>5. /\ ops' \in [closed : BOOLEAN, exclusive : BOOLEAN, suppressed : BOOLEAN,
                   leases : SUBSET [owner : Owners, kind : Kinds], idle : Channel]
      /\ ops'.leases = ops.leases \ {Lease(h, k)}
      /\ ops'.closed = ops.closed /\ ops'.exclusive = ops.exclusive
      /\ ops'.suppressed = ops.suppressed
      /\ ops'.idle # "none" => ops.closed
      /\ ops'.idle = "closed" => ~ops.exclusive /\ ops'.leases = {}
      /\ ops'.idle = "open" => ops.exclusive \/ ops'.leases # {}
      /\ FencedWritesNothing'
  BY <1>1, <1>4, OwnersApart, ReleaseFrame DEF Aside
<1>6. at'[h] = p /\ \A j \in Handlers : j # h => at'[j] = at[j]
  BY <1>3 DEF TypeOK
<1>7. TypeOK'
  <2>1. at' \in [Handlers -> Places]
    BY <1>3 DEF TypeOK, Places
  <2> QED  BY <1>1, <1>5, <2>1 DEF TypeOK, Aside
<1>8. TaskInv' /\ ActiveInv'
  BY <1>1, <1>3, <1>6 DEF TaskInv, ActiveInv, Alone
<1>9. LeaseInv'
  <2>1. bg \subseteq Background
    BY DEF TypeOK
  <2> QED  BY <1>1, <1>3, <1>5, <1>6, <2>1, LeaseDistinct, OwnersApart DEF LeaseInv, Leased, Aside
<1>10. AloneInv' /\ FenceInv' /\ NothingBesideRestore'
  BY <1>1, <1>3, <1>5, <1>6 DEF AloneInv, FenceInv, NothingBesideRestore, Alone, Resuming, Aside
<1>11. WakeInv' /\ LateInv' /\ LateNeverMutates'
  BY <1>1, <1>3, <1>5, <1>6 DEF WakeInv, LateInv, LateNeverMutates
<1>12. StageInv' /\ CloseInv'
  BY <1>1, <1>5 DEF StageInv, CloseInv, Aside
<1> QED  BY <1>5, <1>7, <1>8, <1>9, <1>10, <1>11, <1>12

LEMMA TrackApplyStep ==
    ASSUME IndInv, NEW h \in Handlers, TrackApply(h) PROVE IndInv'
<1> USE DEF IndInv
<1>1. /\ UNCHANGED <<ops, reqs, task, late>> /\ UNCHANGED Aside
      /\ at[h] = "working" /\ task[h] = "apply"
      /\ applies' = [applies EXCEPT !.active = @ \cup {h}]
      /\ at' = [at EXCEPT ![h] = "applying"]
  BY DEF TrackApply, Goto, Aside, worker, ending
<1>2. /\ at'[h] = "applying" /\ \A j \in Handlers : j # h => at'[j] = at[j]
      /\ applies'.active = applies.active \cup {h} /\ applies'.idle = applies.idle
  BY <1>1 DEF TypeOK
<1>3. TypeOK'
  <2>1. at' \in [Handlers -> Places] /\ applies' \in [active : SUBSET Handlers, idle : Channel]
    BY <1>1 DEF TypeOK, Places
  <2> QED  BY <1>1, <2>1 DEF TypeOK, Aside
<1>4. ops.leases # {}
  BY <1>1 DEF LeaseInv, Leased
<1>5. TaskInv' /\ ActiveInv' /\ LeaseInv'
  BY <1>1, <1>2 DEF TaskInv, ActiveInv, LeaseInv, Alone, Leased, Aside
<1>6. AloneInv' /\ FenceInv' /\ FencedWritesNothing' /\ NothingBesideRestore'
  BY <1>1, <1>2, <1>4, BusyGate
     DEF AloneInv, FenceInv, FencedWritesNothing, NothingBesideRestore, Alone, Resuming, Aside
<1>7. WakeInv' /\ LateInv' /\ LateNeverMutates'
  BY <1>1, <1>2 DEF WakeInv, LateInv, LateNeverMutates
<1>8. StageInv' /\ CloseInv'
  BY <1>1 DEF StageInv, CloseInv, Aside
<1> QED  BY <1>3, <1>5, <1>6, <1>7, <1>8

LEMMA EndApplyStep ==
    ASSUME IndInv, NEW h \in Handlers, EndApply(h) PROVE IndInv'
<1> USE DEF IndInv
<1>1. /\ UNCHANGED <<ops, reqs, task, late>> /\ UNCHANGED Aside
      /\ at[h] = "applying" /\ at' = [at EXCEPT ![h] = "recording"]
      /\ applies' = [active |-> applies.active \ {h},
                     idle |-> Signal(applies.idle, applies.active = {h})]
  BY DEF EndApply, Goto, Aside, worker, ending
<1>2. /\ at'[h] = "recording" /\ \A j \in Handlers : j # h => at'[j] = at[j]
      /\ applies'.active = applies.active \ {h}
      /\ applies'.idle = Signal(applies.idle, applies.active = {h})
  BY <1>1 DEF TypeOK
<1>3. TypeOK'
  <2>1. at' \in [Handlers -> Places]
    BY <1>1 DEF TypeOK, Places
  <2>2. Signal(applies.idle, applies.active = {h}) \in Channel
    BY DEF Signal, TypeOK, Channel
  <2>3. applies' \in [active : SUBSET Handlers, idle : Channel]
    BY <1>1, <2>2 DEF TypeOK
  <2> QED  BY <1>1, <2>1, <2>3 DEF TypeOK, Aside
<1>4. TaskInv' /\ ActiveInv' /\ LeaseInv'
  BY <1>1, <1>2 DEF TaskInv, ActiveInv, LeaseInv, Alone, Leased, Aside
<1>5. AloneInv' /\ FenceInv' /\ FencedWritesNothing' /\ NothingBesideRestore'
  BY <1>1, <1>2
     DEF AloneInv, FenceInv, FencedWritesNothing, NothingBesideRestore, Alone, Resuming, Aside
<1>6. applies'.idle = "open" => applies'.active # {}
  <2>1. applies'.idle = "open" => applies.idle = "open" /\ applies.active # {h}
    BY <1>2 DEF Signal
  <2> QED  BY <1>2, <2>1 DEF WakeInv
<1>7. WakeInv' /\ LateInv' /\ LateNeverMutates'
  BY <1>1, <1>2, <1>6 DEF WakeInv, LateInv, LateNeverMutates
<1>8. StageInv' /\ CloseInv'
  BY <1>1 DEF StageInv, CloseInv, Aside
<1> QED  BY <1>3, <1>4, <1>5, <1>7, <1>8

LEMMA LeaveStep ==
    ASSUME IndInv, NEW h \in Handlers, Leave(h) PROVE IndInv'
<1> USE DEF IndInv
<1>1. /\ UNCHANGED <<ops, applies>> /\ UNCHANGED Aside
      /\ at[h] = "leave" /\ at' = [at EXCEPT ![h] = "idle"]
      /\ task' = [task EXCEPT ![h] = "mutate"] /\ late' = late \ {h}
      /\ reqs' = [reqs EXCEPT !.active = @ \ {h}, !.idle = Signal(@, reqs.active = {h})]
  BY DEF Leave, Goto, Aside, worker, ending
<1>2. /\ at'[h] = "idle" /\ \A j \in Handlers : j # h => at'[j] = at[j] /\ task'[j] = task[j]
      /\ reqs'.active = reqs.active \ {h} /\ reqs'.closed = reqs.closed
      /\ reqs'.idle = Signal(reqs.idle, reqs.active = {h})
      /\ Signal(reqs.idle, reqs.active = {h}) \in Channel
  BY <1>1 DEF TypeOK, Signal, Channel
<1>3. TypeOK'
  <2>1. at' \in [Handlers -> Places] /\ task' \in [Handlers -> Tasks]
    BY <1>1 DEF TypeOK, Places, Tasks
  <2>2. reqs' \in [closed : BOOLEAN, active : SUBSET Handlers, idle : Channel]
    BY <1>1, <1>2 DEF TypeOK
  <2>3. late' \in SUBSET Handlers
    BY <1>1 DEF TypeOK
  <2>4. /\ UNCHANGED <<ops, applies, site, jobs, conns, bg, loop, poll, fence, restore, sd, data>>
    BY <1>1 DEF Aside
  <2> QED  BY <2>1, <2>2, <2>3, <2>4 DEF TypeOK
<1>4. TaskInv' /\ ActiveInv' /\ LeaseInv'
  BY <1>1, <1>2 DEF TaskInv, ActiveInv, LeaseInv, Alone, Leased, Aside
<1>5. AloneInv' /\ FenceInv' /\ FencedWritesNothing' /\ NothingBesideRestore'
  BY <1>1, <1>2
     DEF AloneInv, FenceInv, FencedWritesNothing, NothingBesideRestore, Alone, Resuming, Aside
<1>6. /\ reqs'.idle # "none" => reqs.closed
      /\ reqs'.idle = "closed" => reqs'.active = {}
      /\ reqs'.idle = "open" => reqs'.active # {}
  <2>1. /\ reqs'.idle = "open" => reqs.idle = "open" /\ reqs.active # {h}
        /\ reqs'.idle = "closed" => reqs.idle = "closed" \/ reqs.active = {h}
        /\ reqs'.idle # "none" => reqs.idle # "none"
    BY <1>2 DEF Signal
  <2> QED  BY <1>2, <2>1 DEF WakeInv
<1>7. WakeInv' /\ LateInv' /\ LateNeverMutates'
  BY <1>1, <1>2, <1>6 DEF WakeInv, LateInv, LateNeverMutates
<1>8. StageInv' /\ CloseInv'
  BY <1>1, <1>2 DEF StageInv, CloseInv, Aside
<1> QED  BY <1>3, <1>4, <1>5, <1>7, <1>8

-----------------------------------------------------------------------------
(* Jobs, the confirmation of a restore and the resumption of writes.       *)

\* The lease a job was started with is handed over in one step.
LEMMA StartJobStep ==
    ASSUME IndInv, NEW h \in Handlers, StartJob(h) PROVE IndInv'
<1> USE DEF IndInv
<1>1. /\ UNCHANGED <<reqs, applies, task, late>>
      /\ UNCHANGED <<site, conns, bg, loop, poll, fence, restore, sd, data>>
      /\ at[h] = "leased" /\ task[h] = "job"
  BY DEF StartJob, ending
<1>2. CASE UNCHANGED <<ops, jobs>> /\ Goto(h, "release")
  <2>1. at' = [at EXCEPT ![h] = "release"] /\ "release" \in Places
    BY <1>2 DEF Goto, Places
  <2>2. TypeOK'
    BY <1>1, <1>2, <2>1, MoveType DEF TypeOK, JobsType, LoopType
  <2> QED  BY <1>1, <1>2, <2>1, <2>2, MoveFrame DEF Alone, Resuming, Leased
<1>3. CASE /\ Goto(h, "leave") /\ jobs' = [jobs EXCEPT !.running = "run"]
           /\ ops' = [ops EXCEPT !.leases =
                        (@ \ {Lease(h, "backup")}) \cup {Lease("job", "backup")}]
  <2>1. Lease("job", "backup") \in [owner : Owners, kind : Kinds]
    BY LeaseType DEF Owners, Kinds
  <2>2. /\ ops' \in [closed : BOOLEAN, exclusive : BOOLEAN, suppressed : BOOLEAN,
                     leases : SUBSET [owner : Owners, kind : Kinds], idle : Channel]
        /\ ops'.leases = (ops.leases \ {Lease(h, "backup")}) \cup {Lease("job", "backup")}
        /\ ops'.closed = ops.closed /\ ops'.exclusive = ops.exclusive
        /\ ops'.suppressed = ops.suppressed /\ ops'.idle = ops.idle
    BY <1>3, <2>1 DEF TypeOK
  <2>3. jobs' \in JobsType /\ jobs'.running = "run"
    BY <1>3 DEF TypeOK, JobsType
  <2>4. at'[h] = "leave" /\ \A j \in Handlers : j # h => at'[j] = at[j]
    BY <1>3 DEF Goto, TypeOK
  <2>5. ops.leases # {} /\ ops'.leases # {}
    BY <1>1, <2>2 DEF LeaseInv
  <2>6. TypeOK'
    <3>1. at' \in [Handlers -> Places]
      BY <1>3 DEF Goto, TypeOK, Places
    <3> QED  BY <1>1, <2>2, <2>3, <3>1 DEF TypeOK, JobsType
  <2>7. TaskInv' /\ ActiveInv'
    BY <1>1, <2>4 DEF TaskInv, ActiveInv, Alone
  <2>8. LeaseInv'
    <3>1. bg \subseteq Background
      BY DEF TypeOK
    <3>2. \A k : Lease(h, "backup") # Lease("loop", k)
      BY LeaseDistinct, OwnersApart
    <3>3. \A b \in bg : \A k : Lease(h, "backup") # Lease(b, k)
      BY <3>1, LeaseDistinct, OwnersApart
    <3>4. \A j \in Handlers : \A k : j # h => Lease(h, "backup") # Lease(j, k)
      BY LeaseDistinct
    <3> QED  BY <1>1, <2>2, <2>4, <3>2, <3>3, <3>4 DEF LeaseInv, Leased
  <2>9. FencedWritesNothing'
    BY <1>1, <2>2, LeaseKind DEF FencedWritesNothing, operationWritesRouter
  <2>10. AloneInv' /\ FenceInv'
    BY <1>1, <2>2, <2>4 DEF AloneInv, FenceInv, Alone, Resuming
  <2>11. NothingBesideRestore'
    BY <1>1, <2>2, <2>5, BusyGate DEF NothingBesideRestore
  <2>12. WakeInv' /\ LateInv' /\ LateNeverMutates'
    <3>1. late \subseteq Handlers
      BY DEF TypeOK
    <3> QED  BY <1>1, <2>2, <2>4, <2>5, <3>1, BusyGate DEF WakeInv, LateInv, LateNeverMutates
  <2>13. StageInv' /\ CloseInv'
    BY <1>1, <2>2, <2>5, BusyGate DEF StageInv, CloseInv
  <2> QED  BY <2>6, <2>7, <2>8, <2>9, <2>10, <2>11, <2>12, <2>13
<1> QED  BY <1>2, <1>3 DEF StartJob

\* upgrade succeeds only for the one lease there is: nobody else works.
LEMMA UpgradeStep ==
    ASSUME IndInv, NEW h \in Handlers, UpgradeToExclusive(h) PROVE IndInv'
<1> USE DEF IndInv
<1>1. /\ UNCHANGED <<reqs, applies, task, late>> /\ UNCHANGED Aside /\ at[h] = "prepared"
      /\ task[h] = "confirm"
  BY DEF UpgradeToExclusive, Aside, worker, ending, TaskInv
<1>2. CASE UNCHANGED ops /\ Goto(h, "release")
  <2>1. at' = [at EXCEPT ![h] = "release"] /\ "release" \in Places
    BY <1>2 DEF Goto, Places
  <2>2. TypeOK'
    BY <1>1, <1>2, <2>1, MoveType DEF TypeOK, JobsType, LoopType, Aside
  <2> QED  BY <1>1, <1>2, <2>1, <2>2, MoveFrame DEF Alone, Resuming, Leased, Aside
<1>3. CASE MayUpgrade(h, "restore_prepare") /\ Upgrade(h, "restore_prepare") /\ Goto(h, "exclusive")
  <2>1. /\ ~ops.closed /\ ~ops.exclusive /\ ~ops.suppressed
        /\ ops.leases = {Lease(h, "restore_prepare")} /\ ops.idle = "none"
    BY <1>3 DEF MayUpgrade, WakeInv
  <2>2. /\ ops' \in [closed : BOOLEAN, exclusive : BOOLEAN, suppressed : BOOLEAN,
                     leases : SUBSET [owner : Owners, kind : Kinds], idle : Channel]
        /\ ops'.leases = {} /\ ops'.closed = ops.closed /\ ops'.exclusive = TRUE
        /\ ops'.suppressed = ops.suppressed /\ ops'.idle = ops.idle
    <3>1. ops' = [ops EXCEPT !.exclusive = TRUE, !.leases = @ \ {Lease(h, "restore_prepare")}]
      BY <1>3 DEF Upgrade
    <3>2. ops.leases \ {Lease(h, "restore_prepare")} = {}
      BY <2>1
    <3> QED  BY <3>1, <3>2 DEF TypeOK
  <2>3. at'[h] = "exclusive" /\ \A j \in Handlers : j # h => at'[j] = at[j]
    BY <1>3 DEF Goto, TypeOK
  <2>4. TypeOK'
    <3>1. at' \in [Handlers -> Places]
      BY <1>3 DEF Goto, TypeOK, Places
    <3> QED  BY <1>1, <2>2, <3>1 DEF TypeOK, Aside
  <2>5. TaskInv' /\ ActiveInv'
    BY <1>1, <2>3 DEF TaskInv, ActiveInv, Alone
  <2>6. \A o, k : Lease(o, k) \in ops.leases => o = h /\ k = "restore_prepare"
    BY <2>1, LeaseDistinct
  <2>7. LeaseInv'
    <3>1. bg \subseteq Background
      BY DEF TypeOK
    <3> QED  BY <1>1, <2>2, <2>3, <2>6, <3>1, OwnersApart DEF LeaseInv, Aside, Leased
  <2>8. applies.active = {}
    <3>1. \A j \in Handlers : j \notin applies.active
      BY <2>6 DEF ActiveInv, TaskInv, LeaseInv, Leased
    <3> QED  BY <3>1 DEF TypeOK
  <2>9. AloneInv' /\ FenceInv' /\ NothingBesideRestore' /\ FencedWritesNothing'
    BY <1>1, <2>1, <2>2, <2>3, <2>8
       DEF AloneInv, FenceInv, NothingBesideRestore, FencedWritesNothing, Alone, Resuming, Aside
  <2>10. WakeInv' /\ LateInv' /\ LateNeverMutates'
    <3>1. late \subseteq Handlers
      BY DEF TypeOK
    <3> QED  BY <1>1, <2>1, <2>2, <2>3, <3>1 DEF WakeInv, LateInv, LateNeverMutates
  <2>11. StageInv' /\ CloseInv'
    BY <1>1, <2>1, <2>2, OpenGate DEF StageInv, CloseInv, Aside
  <2> QED  BY <2>4, <2>5, <2>7, <2>9, <2>10, <2>11
<1> QED  BY <1>2, <1>3 DEF UpgradeToExclusive

LEMMA CreateIntentStep ==
    ASSUME IndInv, NEW h \in Handlers, CreateIntent(h) PROVE IndInv'
<1> USE DEF IndInv
<1>1. /\ UNCHANGED <<ops, reqs, applies, task, late>>
      /\ UNCHANGED <<site, jobs, conns, bg, loop, poll, fence, sd, data>>
      /\ at[h] = "exclusive" /\ task[h] = "confirm"
  BY DEF CreateIntent, gates, worker, ending, TaskInv, Alone
<1>2. CASE UNCHANGED restore /\ Goto(h, "releaseExclusive")
  <2>1. at' = [at EXCEPT ![h] = "releaseExclusive"] /\ "releaseExclusive" \in Places
    BY <1>2 DEF Goto, Places
  <2>2. TypeOK'
    BY <1>1, <1>2, <2>1, MoveType DEF TypeOK, JobsType, LoopType
  <2> QED  BY <1>1, <1>2, <2>1, <2>2, MoveFrame DEF Alone, Resuming, Leased
<1>3. CASE /\ restore.marker = "none" /\ restore' = [restore EXCEPT !.marker = "intent"]
           /\ \E ok \in BOOLEAN : Goto(h, IF ok THEN "intent" ELSE "releaseExclusive")
  <2>1. PICK p \in {"intent", "releaseExclusive"} : at' = [at EXCEPT ![h] = p]
    BY <1>3 DEF Goto
  <2>2. at'[h] = p /\ \A j \in Handlers : j # h => at'[j] = at[j]
    BY <2>1 DEF TypeOK
  <2>3. restore'.marker = "intent" /\ restore'.accepted = restore.accepted /\ ~restore.accepted
    BY <1>3 DEF TypeOK, AloneInv
  <2>4. TypeOK'
    <3>1. at' \in [Handlers -> Places]
      BY <2>1 DEF TypeOK, Places
    <3>2. restore' \in [marker : {"none", "intent", "clean"}, accepted : BOOLEAN]
      BY <1>3 DEF TypeOK
    <3> QED  BY <1>1, <3>1, <3>2 DEF TypeOK
  <2>5. TaskInv' /\ ActiveInv' /\ LeaseInv'
    BY <1>1, <2>1, <2>2 DEF TaskInv, ActiveInv, LeaseInv, Alone, Leased
  <2>6. AloneInv' /\ FenceInv' /\ NothingBesideRestore' /\ FencedWritesNothing'
    BY <1>1, <2>1, <2>2, <2>3
       DEF AloneInv, FenceInv, NothingBesideRestore, FencedWritesNothing, Alone, Resuming
  <2>7. WakeInv' /\ LateInv' /\ LateNeverMutates'
    <3>1. late \subseteq Handlers
      BY DEF TypeOK
    <3> QED  BY <1>1, <2>1, <2>2, <3>1 DEF WakeInv, LateInv, LateNeverMutates
  <2>8. StageInv' /\ CloseInv'
    BY <1>1, <2>3 DEF StageInv, CloseInv
  <2> QED  BY <2>4, <2>5, <2>6, <2>7, <2>8
<1> QED  BY <1>2, <1>3 DEF CreateIntent

LEMMA ConfirmClosesOperationsStep ==
    ASSUME IndInv, NEW h \in Handlers, ConfirmClosesOperations(h) PROVE IndInv'
<1> USE DEF IndInv
<1>1. /\ UNCHANGED <<reqs, applies, task, late>> /\ UNCHANGED Aside
      /\ at[h] = "intent" /\ task[h] = "confirm" /\ at' = [at EXCEPT ![h] = "closing"]
      /\ ops' = [ops EXCEPT !.closed = TRUE]
  BY DEF ConfirmClosesOperations, CloseOperations, Goto, Aside, worker, ending, TaskInv, Alone
<1>2. at'[h] = "closing" /\ \A j \in Handlers : j # h => at'[j] = at[j]
  BY <1>1 DEF TypeOK
<1>3. /\ ops' \in [closed : BOOLEAN, exclusive : BOOLEAN, suppressed : BOOLEAN,
                   leases : SUBSET [owner : Owners, kind : Kinds], idle : Channel]
      /\ ops'.closed = TRUE /\ ops'.exclusive = ops.exclusive /\ ops'.suppressed = ops.suppressed
      /\ ops'.leases = ops.leases /\ ops'.idle = ops.idle
  BY <1>1 DEF TypeOK
<1>4. TypeOK'
  <2>1. at' \in [Handlers -> Places]
    BY <1>1 DEF TypeOK, Places
  <2> QED  BY <1>1, <1>3, <2>1 DEF TypeOK, Aside
<1>5. TaskInv' /\ ActiveInv' /\ LeaseInv'
  BY <1>1, <1>2, <1>3 DEF TaskInv, ActiveInv, LeaseInv, Alone, Leased, Aside
<1>6. AloneInv' /\ FenceInv' /\ NothingBesideRestore' /\ FencedWritesNothing'
  BY <1>1, <1>2, <1>3
     DEF AloneInv, FenceInv, NothingBesideRestore, FencedWritesNothing, Alone, Resuming, Aside
<1>7. WakeInv' /\ LateInv' /\ LateNeverMutates'
  <2>1. late \subseteq Handlers
    BY DEF TypeOK
  <2> QED  BY <1>1, <1>2, <1>3, <2>1 DEF WakeInv, LateInv, LateNeverMutates
<1>8. StageInv' /\ CloseInv'
  BY <1>1, <1>3 DEF StageInv, CloseInv, Aside
<1> QED  BY <1>4, <1>5, <1>6, <1>7, <1>8

\* Who is queued when the request gate closes has not begun.
LEMMA CloseRequestsFrame ==
    ASSUME IndInv, CloseRequests
    PROVE  /\ reqs' \in [closed : BOOLEAN, active : SUBSET Handlers, idle : Channel]
           /\ reqs'.closed = TRUE /\ reqs'.active = reqs.active /\ reqs'.idle = reqs.idle
           /\ late' \in SUBSET Handlers
           /\ \A j \in late' : at[j] \notin {"working", "applying", "recording"}
<1>1. /\ reqs' = [reqs EXCEPT !.closed = TRUE]
      /\ late' = late \/ late' = {h \in Handlers : Queued(h)}
  BY DEF CloseRequests
<1>2. late \in SUBSET Handlers /\ \A j \in late : at[j] \notin {"working", "applying", "recording"}
  BY DEF IndInv, TypeOK, LateNeverMutates
<1>3. /\ reqs' \in [closed : BOOLEAN, active : SUBSET Handlers, idle : Channel]
      /\ reqs'.closed = TRUE /\ reqs'.active = reqs.active /\ reqs'.idle = reqs.idle
  BY <1>1 DEF IndInv, TypeOK
<1> QED  BY <1>1, <1>2, <1>3 DEF Queued

LEMMA ConfirmClosesRequestsStep ==
    ASSUME IndInv, NEW h \in Handlers, ConfirmClosesRequests(h) PROVE IndInv'
<1> USE DEF IndInv
<1>1. /\ UNCHANGED <<ops, applies, task>> /\ UNCHANGED Aside
      /\ at[h] = "closing" /\ task[h] = "confirm" /\ at' = [at EXCEPT ![h] = "answer"]
      /\ CloseRequests
  BY DEF ConfirmClosesRequests, Goto, Aside, worker, ending, TaskInv, Alone
<1>2. at'[h] = "answer" /\ \A j \in Handlers : j # h => at'[j] = at[j]
  BY <1>1 DEF TypeOK
<1>3. /\ reqs' \in [closed : BOOLEAN, active : SUBSET Handlers, idle : Channel]
      /\ reqs'.closed = TRUE /\ reqs'.active = reqs.active /\ reqs'.idle = reqs.idle
      /\ late' \in SUBSET Handlers
      /\ \A j \in late' : at[j] \notin {"working", "applying", "recording"}
  BY <1>1, CloseRequestsFrame
<1>4. TypeOK'
  <2>1. at' \in [Handlers -> Places]
    BY <1>1 DEF TypeOK, Places
  <2> QED  BY <1>1, <1>3, <2>1 DEF TypeOK, Aside
<1>5. TaskInv' /\ ActiveInv' /\ LeaseInv'
  BY <1>1, <1>2, <1>3 DEF TaskInv, ActiveInv, LeaseInv, Alone, Leased, Aside
<1>6. AloneInv' /\ FenceInv' /\ NothingBesideRestore' /\ FencedWritesNothing'
  BY <1>1, <1>2
     DEF AloneInv, FenceInv, NothingBesideRestore, FencedWritesNothing, Alone, Resuming, Aside
<1>7. WakeInv' /\ LateInv' /\ LateNeverMutates'
  BY <1>1, <1>2, <1>3 DEF WakeInv, LateInv, LateNeverMutates
<1>8. StageInv' /\ CloseInv'
  BY <1>1, <1>3 DEF StageInv, CloseInv, Aside
<1> QED  BY <1>4, <1>5, <1>6, <1>7, <1>8

\* The restart is accepted by a handler: nothing has been decided without it.
LEMMA RequestRestartStep ==
    ASSUME IndInv, NEW h \in Handlers, RequestRestart(h) PROVE IndInv'
<1> USE DEF IndInv
<1>1. /\ UNCHANGED <<ops, reqs, applies, task, late>>
      /\ UNCHANGED <<site, jobs, conns, bg, loop, poll, fence, sd, data>>
      /\ at[h] = "answer" /\ task[h] = "confirm" /\ at' = [at EXCEPT ![h] = "releaseExclusive"]
      /\ restore' = [restore EXCEPT !.accepted = TRUE]
  BY DEF RequestRestart, Goto, gates, worker, ending, TaskInv, Alone
<1>2. at'[h] = "releaseExclusive" /\ \A j \in Handlers : j # h => at'[j] = at[j]
  BY <1>1 DEF TypeOK
<1>3. restore'.accepted = TRUE /\ restore'.marker = restore.marker
  BY <1>1 DEF TypeOK
<1>4. ops.exclusive /\ ops.closed /\ restore.marker # "none" /\ h \in reqs.active
  BY <1>1 DEF AloneInv, ActiveInv, Alone
<1>5. ~(sd.stage \in Decided /\ ~sd.errs)
  BY <1>4 DEF StageInv, Drained
<1>6. TypeOK'
  <2>1. at' \in [Handlers -> Places]
    BY <1>1 DEF TypeOK, Places
  <2>2. restore' \in [marker : {"none", "intent", "clean"}, accepted : BOOLEAN]
    BY <1>1 DEF TypeOK
  <2> QED  BY <1>1, <2>1, <2>2 DEF TypeOK
<1>7. TaskInv' /\ ActiveInv' /\ LeaseInv'
  BY <1>1, <1>2 DEF TaskInv, ActiveInv, LeaseInv, Alone, Leased
<1>8. AloneInv' /\ FenceInv' /\ NothingBesideRestore' /\ FencedWritesNothing'
  BY <1>1, <1>2, <1>3, <1>4
     DEF AloneInv, FenceInv, NothingBesideRestore, FencedWritesNothing, Alone, Resuming
<1>9. WakeInv' /\ LateInv' /\ LateNeverMutates'
  <2>1. late \subseteq Handlers
    BY DEF TypeOK
  <2> QED  BY <1>1, <1>2, <2>1 DEF WakeInv, LateInv, LateNeverMutates
<1>10. StageInv'
  BY <1>1 DEF StageInv
<1>11. CloseInv'
  BY <1>1, <1>3, <1>4, <1>5 DEF CloseInv, Decided
<1> QED  BY <1>6, <1>7, <1>8, <1>9, <1>10, <1>11

LEMMA EndExclusiveStep ==
    ASSUME IndInv, NEW h \in Handlers, EndExclusive(h) PROVE IndInv'
<1> USE DEF IndInv
<1>1. /\ UNCHANGED <<reqs, applies, task, late>> /\ UNCHANGED Aside
      /\ at[h] = "releaseExclusive" /\ task[h] = "confirm" /\ at' = [at EXCEPT ![h] = "finish"]
      /\ ops' = [ops EXCEPT !.exclusive = FALSE, !.idle = Signal(@, ops.leases = {})]
  BY DEF EndExclusive, ReleaseExclusive, Goto, Aside, worker, ending, TaskInv, Alone
<1>2. at'[h] = "finish" /\ \A j \in Handlers : j # h => at'[j] = at[j]
  BY <1>1 DEF TypeOK
<1>3. ops.exclusive /\ ops.leases = {}
  BY <1>1 DEF AloneInv, Alone, NothingBesideRestore
<1>4. PICK i \in Channel : i = Signal(ops.idle, ops.leases = {})
  BY DEF Signal, TypeOK, Channel
<1>5. i # "open" /\ (i # "none" => ops.closed)
  BY <1>3, <1>4 DEF Signal, WakeInv, Channel
<1>6. /\ ops' \in [closed : BOOLEAN, exclusive : BOOLEAN, suppressed : BOOLEAN,
                   leases : SUBSET [owner : Owners, kind : Kinds], idle : Channel]
      /\ ops'.closed = ops.closed /\ ops'.exclusive = FALSE /\ ops'.suppressed = ops.suppressed
      /\ ops'.leases = ops.leases /\ ops'.idle = i
  BY <1>1, <1>4 DEF TypeOK
<1>7. TypeOK'
  <2>1. at' \in [Handlers -> Places]
    BY <1>1 DEF TypeOK, Places
  <2>2. UNCHANGED <<reqs, applies, task, late, site, jobs, conns, bg, loop, poll, fence, restore, sd, data>>
    BY <1>1 DEF Aside
  <2> QED  BY <1>6, <2>1, <2>2 DEF TypeOK
<1>8. TaskInv' /\ ActiveInv' /\ LeaseInv'
  BY <1>1, <1>2, <1>6 DEF TaskInv, ActiveInv, LeaseInv, Alone, Leased, Aside
<1>9. AloneInv' /\ FenceInv'
  BY <1>1, <1>2, <1>6 DEF AloneInv, FenceInv, Alone, Resuming, Aside
<1>10. NothingBesideRestore' /\ FencedWritesNothing'
  BY <1>1, <1>3, <1>6 DEF NothingBesideRestore, FencedWritesNothing, Aside
<1>11. WakeInv' /\ LateInv' /\ LateNeverMutates'
  <2>1. late \subseteq Handlers
    BY DEF TypeOK
  <2> QED  BY <1>1, <1>2, <1>3, <1>5, <1>6, <2>1 DEF WakeInv, LateInv, LateNeverMutates
<1>12. StageInv' /\ CloseInv'
  BY <1>1, <1>3, <1>6 DEF StageInv, CloseInv, Aside
<1> QED  BY <1>7, <1>8, <1>9, <1>10, <1>11, <1>12

\* The copies of the fence fall in an order: the disk first, the gate last.
LEMMA ResumeFrame ==
    ASSUME IndInv, NEW h \in Handlers, NEW p \in Resuming,
           UNCHANGED <<reqs, applies, task, late>>,
           UNCHANGED <<site, jobs, conns, bg, loop, poll, restore, sd, data>>,
           at' = [at EXCEPT ![h] = p], at[h] \notin {"idle", "applying"},
           fence' \in [disk : BOOLEAN, daemon : BOOLEAN, server : BOOLEAN], ~fence'.disk,
           ops' = [ops EXCEPT !.suppressed = FALSE] \/ UNCHANGED ops
    PROVE  IndInv'
<1> USE DEF IndInv
<1>1. at'[h] = p /\ \A j \in Handlers : j # h => at'[j] = at[j]
  BY DEF TypeOK
<1>2. /\ ops' \in [closed : BOOLEAN, exclusive : BOOLEAN, suppressed : BOOLEAN,
                   leases : SUBSET [owner : Owners, kind : Kinds], idle : Channel]
      /\ ops'.closed = ops.closed /\ ops'.exclusive = ops.exclusive
      /\ ops'.leases = ops.leases /\ ops'.idle = ops.idle
  BY DEF TypeOK
<1>3. TypeOK'
  <2>1. at' \in [Handlers -> Places]
    BY DEF TypeOK, Places, Resuming
  <2> QED  BY <1>2, <2>1 DEF TypeOK
<1>4. TaskInv' /\ ActiveInv' /\ LeaseInv'
  BY <1>1, <1>2 DEF TaskInv, ActiveInv, LeaseInv, Alone, Leased, Resuming
<1>5. AloneInv' /\ FenceInv' /\ NothingBesideRestore' /\ FencedWritesNothing'
  BY <1>1, <1>2 DEF AloneInv, FenceInv, NothingBesideRestore, FencedWritesNothing, Alone, Resuming
<1>6. WakeInv' /\ LateInv' /\ LateNeverMutates'
  <2>1. late \subseteq Handlers
    BY DEF TypeOK
  <2> QED  BY <1>1, <1>2, <2>1 DEF WakeInv, LateInv, LateNeverMutates, Resuming
<1>7. StageInv' /\ CloseInv'
  BY <1>2 DEF StageInv, CloseInv
<1> QED  BY <1>3, <1>4, <1>5, <1>6, <1>7

LEMMA ResumeStep ==
    ASSUME IndInv, NEW h \in Handlers,
           ResumeOnDisk(h) \/ ResumeInDaemon(h) \/ ResumeInServer(h) \/ ResumeInGate(h)
    PROVE  IndInv'
<1> USE DEF IndInv
<1>1. /\ UNCHANGED <<reqs, applies, task, late>>
      /\ UNCHANGED <<site, jobs, conns, bg, loop, poll, restore, sd, data>>
  BY DEF ResumeOnDisk, ResumeInDaemon, ResumeInServer, ResumeInGate, gates, worker, ending
<1>2. fence \in [disk : BOOLEAN, daemon : BOOLEAN, server : BOOLEAN]
  BY DEF TypeOK
<1>3. CASE ResumeOnDisk(h)
  <2>1. UNCHANGED ops /\ at[h] = "admitted"
    BY <1>3 DEF ResumeOnDisk, gates
  <2>2. CASE Goto(h, "leave") /\ UNCHANGED fence
    <3>1. at' = [at EXCEPT ![h] = "leave"] /\ "leave" \in Places
      BY <2>2 DEF Goto, Places
    <3>2. TypeOK'
      BY <1>1, <2>1, <2>2, <3>1, MoveType DEF TypeOK, JobsType, LoopType
    <3> QED  BY <1>1, <2>1, <2>2, <3>1, <3>2, MoveFrame DEF Alone, Resuming, Leased
  <2>3. CASE fence' = [fence EXCEPT !.disk = FALSE] /\ Goto(h, "resumeDaemon")
    <3>1. /\ fence' \in [disk : BOOLEAN, daemon : BOOLEAN, server : BOOLEAN] /\ ~fence'.disk
          /\ at' = [at EXCEPT ![h] = "resumeDaemon"] /\ "resumeDaemon" \in Resuming
      BY <1>2, <2>3 DEF Goto, Resuming
    <3> QED  BY <1>1, <2>1, <3>1, ResumeFrame
  <2> QED  BY <1>3, <2>2, <2>3 DEF ResumeOnDisk
<1>4. CASE ResumeInDaemon(h) \/ ResumeInServer(h) \/ ResumeInGate(h)
  <2>1. at[h] \in Resuming /\ at[h] \notin {"idle", "applying"}
    BY <1>4 DEF ResumeInDaemon, ResumeInServer, ResumeInGate, Resuming
  <2>2. ~fence.disk
    BY <2>1 DEF FenceInv
  <2>3. /\ UNCHANGED ops \/ ops' = [ops EXCEPT !.suppressed = FALSE]
        /\ \/ UNCHANGED fence
           \/ fence' = [fence EXCEPT !.daemon = FALSE]
           \/ fence' = [fence EXCEPT !.server = FALSE]
        /\ \E p \in Resuming : at' = [at EXCEPT ![h] = p]
    BY <1>4 DEF ResumeInDaemon, ResumeInServer, ResumeInGate, Goto, Resuming, gates
  <2>4. fence' \in [disk : BOOLEAN, daemon : BOOLEAN, server : BOOLEAN] /\ ~fence'.disk
    BY <1>2, <2>2, <2>3
  <2> QED  BY <1>1, <2>1, <2>3, <2>4, ResumeFrame
<1> QED  BY <1>3, <1>4

LEMMA HandlerInv ==
    ASSUME IndInv, NEW h \in Handlers, HandlerStep(h) \/ LockCancelled(h) \/ EndLive(h)
    PROVE  IndInv'
<1>1. CASE Moves(h) \/ LockStopped(h) \/ DropLive(h)
  BY <1>1, MoveStep DEF LockStopped, DropLive, Moves
<1>2. CASE BeginOperation(h) \/ ReleaseOperation(h) \/ TrackApply(h) \/ EndApply(h) \/ Leave(h)
  BY <1>2, BeginOperationStep, ReleaseOperationStep, TrackApplyStep, EndApplyStep, LeaveStep
<1>3. CASE StartJob(h) \/ UpgradeToExclusive(h) \/ CreateIntent(h)
  BY <1>3, StartJobStep, UpgradeStep, CreateIntentStep
<1>4. CASE \/ ConfirmClosesOperations(h) \/ ConfirmClosesRequests(h)
           \/ RequestRestart(h) \/ EndExclusive(h)
  BY <1>4, ConfirmClosesOperationsStep, ConfirmClosesRequestsStep, RequestRestartStep, EndExclusiveStep
<1>5. CASE ResumeOnDisk(h) \/ ResumeInDaemon(h) \/ ResumeInServer(h) \/ ResumeInGate(h)
  BY <1>5, ResumeStep
<1> QED  BY <1>1, <1>2, <1>3, <1>4, <1>5 DEF HandlerStep, Moves

-----------------------------------------------------------------------------
(* Detached goroutines, jobs and the collector.                            *)

LEMMA WorkerBegins ==
    ASSUME IndInv, NEW o \in Owners, NEW k \in Kinds, MayBegin(k), Begin(o, k),
           UNCHANGED <<reqs, applies, task, at, late, poll, fence, restore, sd, data>>,
           TypeOK', LeaseInv'
    PROVE  IndInv'
<1> USE DEF IndInv
<1>1. /\ ops'.leases = ops.leases \cup {Lease(o, k)}
      /\ ops'.closed = ops.closed /\ ops'.exclusive = ops.exclusive
      /\ ops'.suppressed = ops.suppressed /\ ops'.idle = ops.idle
      /\ ~ops.closed /\ ~ops.exclusive /\ ops.idle = "none"
      /\ FencedWritesNothing'
  BY BeginFrame
<1>2. TaskInv' /\ ActiveInv' /\ AloneInv' /\ FenceInv'
  BY <1>1 DEF TaskInv, ActiveInv, AloneInv, FenceInv
<1>3. NothingBesideRestore'
  BY <1>1, OpenGate DEF NothingBesideRestore
<1>4. WakeInv' /\ LateInv' /\ LateNeverMutates'
  BY <1>1 DEF WakeInv, LateInv, LateNeverMutates
<1>5. StageInv' /\ CloseInv'
  BY <1>1, OpenGate DEF StageInv, CloseInv
<1> QED  BY <1>1, <1>2, <1>3, <1>4, <1>5

LEMMA WorkerEnds ==
    ASSUME IndInv, NEW o \in Owners, NEW k \in Kinds, Release(o, k),
           UNCHANGED <<reqs, applies, task, at, late, poll, fence, restore, sd, data>>,
           TypeOK', LeaseInv'
    PROVE  IndInv'
<1> USE DEF IndInv
<1>1. /\ ops'.leases = ops.leases \ {Lease(o, k)}
      /\ ops'.closed = ops.closed /\ ops'.exclusive = ops.exclusive
      /\ ops'.suppressed = ops.suppressed
      /\ ops'.idle # "none" => ops.closed
      /\ ops'.idle = "closed" => ~ops.exclusive /\ ops'.leases = {}
      /\ ops'.idle = "open" => ops.exclusive \/ ops'.leases # {}
      /\ FencedWritesNothing'
  BY ReleaseFrame
<1>2. TaskInv' /\ ActiveInv' /\ AloneInv' /\ FenceInv'
  BY <1>1 DEF TaskInv, ActiveInv, AloneInv, FenceInv
<1>3. NothingBesideRestore'
  BY <1>1 DEF NothingBesideRestore
<1>4. WakeInv' /\ LateInv' /\ LateNeverMutates'
  BY <1>1 DEF WakeInv, LateInv, LateNeverMutates
<1>5. StageInv' /\ CloseInv'
  BY <1>1 DEF StageInv, CloseInv
<1> QED  BY <1>1, <1>2, <1>3, <1>4, <1>5

\* Leases of other owners outlive the release of one that no handler holds.
LEMMA WorkerOwners ==
    /\ "job" \in Owners /\ "loop" \in Owners /\ Background \subseteq Owners
    /\ \A b \in Background : b # "job" /\ b # "loop" /\ b \notin Handlers
    /\ "job" \notin Handlers /\ "loop" \notin Handlers
BY OwnersAssumption DEF Owners

LEMMA StartBackgroundStep ==
    ASSUME IndInv, NEW b \in Background, StartBackground(b) PROVE IndInv'
<1> USE DEF IndInv
<1>1. /\ UNCHANGED <<reqs, applies, task, at, late, poll, fence, restore, sd, data>>
      /\ UNCHANGED <<site, jobs, conns, loop>> /\ MayBegin("capability")
      /\ Begin(b, "capability") /\ bg' = bg \cup {b}
  BY DEF StartBackground, ending
<1>2. b \in Owners /\ "capability" \in Kinds
  BY WorkerOwners DEF Kinds
<1>3. /\ ops' \in [closed : BOOLEAN, exclusive : BOOLEAN, suppressed : BOOLEAN,
                   leases : SUBSET [owner : Owners, kind : Kinds], idle : Channel]
      /\ ops'.leases = ops.leases \cup {Lease(b, "capability")}
  BY <1>1, <1>2, BeginFrame
<1>4. TypeOK'
  BY <1>1, <1>3 DEF TypeOK
<1>5. LeaseInv'
  BY <1>1, <1>3 DEF LeaseInv
<1> QED  BY <1>1, <1>2, <1>4, <1>5, WorkerBegins

LEMMA EndBackgroundStep ==
    ASSUME IndInv, NEW b \in Background, EndBackground(b) PROVE IndInv'
<1> USE DEF IndInv
<1>1. /\ UNCHANGED <<reqs, applies, task, at, late, poll, fence, restore, sd, data>>
      /\ UNCHANGED <<site, jobs, conns, loop>>
      /\ Release(b, "capability") /\ bg' = bg \ {b}
  BY DEF EndBackground, ending
<1>2. b \in Owners /\ "capability" \in Kinds
  BY WorkerOwners DEF Kinds
<1>3. /\ ops' \in [closed : BOOLEAN, exclusive : BOOLEAN, suppressed : BOOLEAN,
                   leases : SUBSET [owner : Owners, kind : Kinds], idle : Channel]
      /\ ops'.leases = ops.leases \ {Lease(b, "capability")}
  BY <1>1, <1>2, ReleaseFrame
<1>4. TypeOK'
  BY <1>1, <1>3 DEF TypeOK
<1>5. \A o, k : o # b => Lease(o, k) # Lease(b, "capability")
  BY LeaseDistinct
<1>6. LeaseInv'
  BY <1>1, <1>3, <1>5, WorkerOwners DEF LeaseInv
<1> QED  BY <1>1, <1>2, <1>4, <1>6, WorkerEnds

LEMMA CompleteJobStep ==
    ASSUME IndInv, CompleteJob PROVE IndInv'
<1> USE DEF IndInv
<1>1. /\ UNCHANGED <<reqs, applies, task, at, late, poll, fence, restore, sd, data>>
      /\ UNCHANGED <<site, bg, conns, loop>>
      /\ Release("job", "backup") /\ jobs' = [jobs EXCEPT !.running = "done"]
  BY DEF CompleteJob, ending
<1>2. "job" \in Owners /\ "backup" \in Kinds
  BY WorkerOwners DEF Kinds
<1>3. /\ ops' \in [closed : BOOLEAN, exclusive : BOOLEAN, suppressed : BOOLEAN,
                   leases : SUBSET [owner : Owners, kind : Kinds], idle : Channel]
      /\ ops'.leases = ops.leases \ {Lease("job", "backup")}
  BY <1>1, <1>2, ReleaseFrame
<1>4. jobs' \in JobsType /\ jobs'.running = "done"
  BY <1>1 DEF TypeOK, JobsType
<1>5. TypeOK'
  BY <1>1, <1>3, <1>4 DEF TypeOK, JobsType
<1>6. \A o, k : o # "job" => Lease(o, k) # Lease("job", "backup")
  BY LeaseDistinct
<1>7. LeaseInv'
  <2>1. bg \subseteq Background
    BY DEF TypeOK
  <2> QED  BY <1>1, <1>3, <1>4, <1>6, <2>1, WorkerOwners DEF LeaseInv
<1> QED  BY <1>1, <1>2, <1>5, <1>7, WorkerEnds

LEMMA BeginCycleStep ==
    ASSUME IndInv, BeginCycle PROVE IndInv'
<1> USE DEF IndInv
<1>1. /\ UNCHANGED <<reqs, applies, task, at, late, poll, fence, restore, sd, data>>
      /\ UNCHANGED <<site, jobs, conns, bg>> /\ MayBegin("neighbour_reconcile")
      /\ Begin("loop", "neighbour_reconcile") /\ loop' = [loop EXCEPT !.state = "cycle"]
  BY DEF BeginCycle, ending
<1>2. "loop" \in Owners /\ "neighbour_reconcile" \in Kinds
  BY WorkerOwners DEF Kinds
<1>3. /\ ops' \in [closed : BOOLEAN, exclusive : BOOLEAN, suppressed : BOOLEAN,
                   leases : SUBSET [owner : Owners, kind : Kinds], idle : Channel]
      /\ ops'.leases = ops.leases \cup {Lease("loop", "neighbour_reconcile")}
  BY <1>1, <1>2, BeginFrame
<1>4. loop' \in LoopType
  BY <1>1 DEF TypeOK, LoopType
<1>5. TypeOK'
  BY <1>1, <1>3, <1>4 DEF TypeOK, LoopType
<1>6. LeaseInv'
  BY <1>1, <1>3 DEF LeaseInv
<1> QED  BY <1>1, <1>2, <1>5, <1>6, WorkerBegins

LEMMA EndCycleStep ==
    ASSUME IndInv, EndCycle PROVE IndInv'
<1> USE DEF IndInv
<1>1. /\ UNCHANGED <<reqs, applies, task, at, late, poll, fence, restore, sd, data>>
      /\ UNCHANGED <<site, jobs, conns, bg>>
      /\ Release("loop", "neighbour_reconcile") /\ loop' = [loop EXCEPT !.state = "sleep"]
  BY DEF EndCycle, ending
<1>2. "loop" \in Owners /\ "neighbour_reconcile" \in Kinds
  BY WorkerOwners DEF Kinds
<1>3. /\ ops' \in [closed : BOOLEAN, exclusive : BOOLEAN, suppressed : BOOLEAN,
                   leases : SUBSET [owner : Owners, kind : Kinds], idle : Channel]
      /\ ops'.leases = ops.leases \ {Lease("loop", "neighbour_reconcile")}
  BY <1>1, <1>2, ReleaseFrame
<1>4. loop' \in LoopType /\ loop'.state = "sleep"
  BY <1>1 DEF TypeOK, LoopType
<1>5. TypeOK'
  BY <1>1, <1>3, <1>4 DEF TypeOK, LoopType
<1>6. \A o, k : o # "loop" => Lease(o, k) # Lease("loop", "neighbour_reconcile")
  BY LeaseDistinct
<1>7. LeaseInv'
  <2>1. bg \subseteq Background
    BY DEF TypeOK
  <2> QED  BY <1>1, <1>3, <1>4, <1>6, <2>1, WorkerOwners DEF LeaseInv
<1> QED  BY <1>1, <1>2, <1>5, <1>7, WorkerEnds

\* Steps beside the gates.
LEMMA BesideFrame ==
    ASSUME IndInv,
           UNCHANGED <<ops, reqs, applies, task, at, late, bg, fence, restore>>,
           jobs'.running \in {jobs.running, "no"}, loop'.state \in {loop.state, "off"}
    PROVE  /\ TaskInv' /\ LeaseInv' /\ ActiveInv' /\ AloneInv' /\ FenceInv'
           /\ NothingBesideRestore' /\ FencedWritesNothing'
           /\ WakeInv' /\ LateInv' /\ LateNeverMutates'
<1> USE DEF IndInv
<1>1. TaskInv' /\ LeaseInv' /\ ActiveInv' /\ AloneInv' /\ FenceInv'
  BY DEF TaskInv, LeaseInv, ActiveInv, AloneInv, FenceInv
<1> QED  BY <1>1 DEF NothingBesideRestore, FencedWritesNothing, WakeInv, LateInv, LateNeverMutates

LEMMA WorkerStep ==
    ASSUME IndInv, EndJob \/ ExitLoop \/ Poll \/ EndPoll PROVE IndInv'
<1> USE DEF IndInv
<1>1. /\ UNCHANGED <<ops, reqs, applies, task, at, late, bg, fence, restore, sd, data, site, conns>>
  BY DEF EndJob, ExitLoop, Poll, EndPoll, gates, ending
<1>2. CASE EndJob \/ ExitLoop
  <2>1. /\ UNCHANGED poll
        /\ UNCHANGED jobs \/ jobs' = [jobs EXCEPT !.running = "no"]
        /\ UNCHANGED loop \/ loop' = [loop EXCEPT !.state = "off"]
    BY <1>2 DEF EndJob, ExitLoop
  <2>2. /\ jobs' \in JobsType /\ jobs'.running \in {jobs.running, "no"}
        /\ loop' \in LoopType /\ loop'.state \in {loop.state, "off"}
    BY <2>1 DEF TypeOK, JobsType, LoopType
  <2>3. TypeOK'
    BY <1>1, <2>1, <2>2 DEF TypeOK, JobsType, LoopType
  <2>4. StageInv' /\ CloseInv'
    BY <1>1, <2>1 DEF StageInv, CloseInv
  <2> QED  BY <1>1, <2>2, <2>3, <2>4, BesideFrame
<1>3. CASE Poll \/ EndPoll
  <2>1. /\ UNCHANGED <<jobs, loop>> /\ poll.state \in {"idle", "polling"}
        /\ \/ poll' = [poll EXCEPT !.state = "polling"]
           \/ poll' = [state |-> "idle", unflushed |-> TRUE]
    BY <1>3 DEF Poll, EndPoll
  <2>2. poll' \in PollType
    <3> DEFINE new == [state |-> "idle", unflushed |-> TRUE]
    <3>1. new \in PollType
      BY DEF PollType
    <3>2. poll \in PollType
      BY DEF TypeOK, PollType
    <3>3. [poll EXCEPT !.state = "polling"] \in PollType
      BY <3>2 DEF PollType
    <3> HIDE DEF new
    <3>4. poll' = [poll EXCEPT !.state = "polling"] \/ poll' = new
      BY <2>1 DEF new
    <3> QED  BY <3>1, <3>3, <3>4
  <2>3. TypeOK'
    BY <1>1, <2>1, <2>2 DEF TypeOK, PollType
  <2>4. sd.stage \notin Stopped /\ sd.stage \notin Flushed
    BY <2>1 DEF StageInv, Stopped
  <2>5. StageInv' /\ CloseInv'
    BY <1>1, <2>4 DEF StageInv, CloseInv
  <2>6. jobs'.running = jobs.running /\ loop'.state = loop.state
    BY <2>1
  <2> QED  BY <1>1, <2>3, <2>5, <2>6, BesideFrame
<1> QED  BY <1>2, <1>3

-----------------------------------------------------------------------------
(* The shutdown.                                                           *)

SdType == [stage : Stages, life : BOOLEAN, own : BOOLEAN, promote : BOOLEAN,
           errs : BOOLEAN, pair : BOOLEAN]

\* The stage is left for another; a flag that falls is reported.
Goes(from, to) ==
    /\ sd.stage = from /\ sd' \in SdType /\ sd'.stage = to
    /\ sd'.promote = sd.promote /\ sd'.pair = sd.pair
    /\ sd'.life => sd.life /\ sd'.own = sd.own
    /\ sd'.own => sd.own
    /\ (sd'.errs = sd.errs /\ sd'.life = sd.life) \/ sd'.errs

LEMMA StepGoes ==
    ASSUME TypeOK, NEW from, NEW to \in Stages, Step(from, to) \/ Failed(from, to)
    PROVE  Goes(from, to)
<1>1. sd \in SdType
  BY DEF TypeOK, SdType
<1>2. CASE Step(from, to)
  BY <1>1, <1>2 DEF Step, Goes, SdType
<1>3. CASE Failed(from, to)
  BY <1>1, <1>3 DEF Failed, Goes, SdType
<1> QED  BY <1>2, <1>3

\* Before the decision: what the next stage takes for granted is there.
LEMMA Proceed ==
    ASSUME IndInv, NEW from, NEW to \in Stages, Goes(from, to),
           from \notin Decided, to \notin Decided, UNCHANGED <<restore, data>>,
           to \notin {"serve", "closeOps"} => ops'.closed,
           to \notin {"serve", "closeOps", "closeReqs"} => reqs'.closed,
           to \in Stopped => poll'.state = "stopped",
           to \in Flushed /\ sd'.life => ~poll'.unflushed,
           to \in OpsDrained /\ sd'.own => ~ops'.exclusive /\ ops'.leases = {},
           to \in Drained /\ sd'.own => reqs'.active = {}
    PROVE  StageInv' /\ CloseInv'
<1> USE DEF IndInv
<1>1. /\ sd.stage \notin Decided /\ sd'.stage = to /\ sd.stage = from
      /\ sd'.promote = sd.promote /\ sd'.pair = sd.pair
  BY DEF Goes
<1>2. data.store # "closed" /\ data.lock # "free" /\ restore.marker # "clean" /\ ~sd.promote
  BY <1>1 DEF CloseInv, Decided
<1>3. CloseInv'
  BY <1>1, <1>2 DEF CloseInv, Decided
<1>4. (sd'.errs \/ sd'.life) /\ (sd'.life => sd'.own)
  BY DEF Goes, StageInv, SdType
<1>5. StageInv'
  BY <1>1, <1>4 DEF StageInv
<1> QED  BY <1>3, <1>5

LEMMA EarlyStep ==
    ASSUME IndInv,
           \/ BeginShutdown \/ RestartShutdown \/ ShutdownHttp
           \/ CloseJobs \/ CloseHub \/ StopNeighbourReconciler
    PROVE  IndInv'
<1> USE DEF IndInv
<1> DEFINE S == {"closeOps", "http", "jobs", "jobsWait", "restores", "restoresWait", "hub",
                 "neighbour", "neighbourWait", "collector"}
<1>1. /\ UNCHANGED <<ops, reqs, applies, task, at, late, bg, fence, restore>>
      /\ UNCHANGED <<site, poll, data>>
  BY DEF BeginShutdown, RestartShutdown, ShutdownHttp, CloseJobs, CloseHub,
         StopNeighbourReconciler, gates, handler, worker
<1>2. /\ \/ UNCHANGED jobs
         \/ jobs' = [jobs EXCEPT !.closing = TRUE]
         \/ jobs' = [jobs EXCEPT !.restoresClosed = TRUE]
      /\ \/ UNCHANGED loop
         \/ loop' = [loop EXCEPT !.cancelled = loop.owned, !.owned = FALSE]
      /\ conns' \in {conns, {}}
  BY DEF BeginShutdown, RestartShutdown, ShutdownHttp, CloseJobs, CloseHub,
         StopNeighbourReconciler, worker
<1>3. /\ jobs' \in JobsType /\ jobs'.running = jobs.running
      /\ loop' \in LoopType /\ loop'.state = loop.state
  <2>1. jobs \in JobsType /\ loop \in LoopType
    BY DEF TypeOK, JobsType, LoopType
  <2>2. PICK o \in BOOLEAN : o = loop.owned
    BY <2>1 DEF LoopType
  <2>3. loop' = loop \/ loop' = [loop EXCEPT !.cancelled = o, !.owned = FALSE]
    BY <1>2, <2>2
  <2>4. loop' \in LoopType /\ loop'.state = loop.state
    BY <2>1, <2>3 DEF LoopType
  <2>5. jobs' \in JobsType /\ jobs'.running = jobs.running
    BY <1>2, <2>1 DEF JobsType
  <2> QED  BY <2>4, <2>5
<1>4. \E from \in S \cup {"serve"}, to \in S :
         /\ Goes(from, to)
         /\ from = "serve" => to = "closeOps"
         /\ from = "closeOps" => FALSE
  <2>1. S \subseteq Stages
    BY DEF Stages
  <2>2. CASE BeginShutdown \/ RestartShutdown
    BY <2>1, <2>2, StepGoes DEF BeginShutdown, RestartShutdown
  <2>3. CASE ShutdownHttp
    <3>1. CASE Step("http", "jobs")
      BY <2>1, <3>1, StepGoes
    <3>2. CASE /\ sd.stage = "http"
               /\ sd' = [sd EXCEPT !.stage = "jobs", !.life = FALSE, !.errs = TRUE]
      <4>1. "jobs" \in Stages /\ sd \in SdType
        BY DEF TypeOK, SdType, Stages
      <4>2. Goes("http", "jobs")
        BY <3>2, <4>1 DEF Goes, SdType
      <4> QED  BY <4>2
    <3> QED  BY <2>3, <3>1, <3>2 DEF ShutdownHttp
  <2>4. CASE CloseJobs
    <3>1. \/ Step("jobs", "jobsWait")
          \/ Step("jobsWait", "restores") \/ Failed("jobsWait", "restores")
          \/ Step("restores", "restoresWait")
          \/ Step("restoresWait", "hub") \/ Failed("restoresWait", "hub")
      BY <2>4 DEF CloseJobs
    <3> QED  BY <2>1, <3>1, StepGoes
  <2>5. CASE CloseHub
    BY <2>1, <2>5, StepGoes DEF CloseHub
  <2>6. CASE StopNeighbourReconciler
    <3>1. \/ Step("neighbour", "neighbourWait") \/ Step("neighbour", "collector")
          \/ Step("neighbourWait", "collector") \/ Failed("neighbourWait", "collector")
      BY <2>6 DEF StopNeighbourReconciler
    <3> QED  BY <2>1, <3>1, StepGoes
  <2> QED  BY <2>2, <2>3, <2>4, <2>5, <2>6
<1>5. PICK from \in S \cup {"serve"}, to \in S :
         /\ Goes(from, to)
         /\ from = "serve" => to = "closeOps"
         /\ from = "closeOps" => FALSE
  BY <1>4
<1>6. TypeOK'
  <2>1. sd' \in SdType
    BY <1>5 DEF Goes
  <2> QED  BY <1>1, <1>2, <1>3, <2>1 DEF TypeOK, JobsType, LoopType, SdType
<1>7. to \in Stages /\ from \notin Decided /\ to \notin Stopped
  BY <1>5 DEF Stages, Decided, Stopped, Flushed, OpsDrained, Drained
<1>8. to \notin Flushed /\ to \notin OpsDrained /\ to \notin Drained /\ to \notin Decided
  BY <1>7 DEF Stopped, Flushed, OpsDrained, Drained
<1>9. to # "closeOps" => ops'.closed /\ reqs'.closed
  BY <1>1, <1>5 DEF StageInv, Goes
<1>10. to \notin {"serve", "closeReqs"}
  OBVIOUS
<1> HIDE DEF S
<1>11. StageInv' /\ CloseInv'
  BY <1>1, <1>5, <1>7, <1>8, <1>9, <1>10, Proceed
<1> QED  BY <1>1, <1>3, <1>6, <1>11, BesideFrame

LEMMA CloseAdmissionStep ==
    ASSUME IndInv, CloseAdmission PROVE IndInv'
<1> USE DEF IndInv
<1>1. CASE /\ Step("closeOps", "closeReqs") /\ CloseOperations
           /\ UNCHANGED <<reqs, applies, handler, worker, fence, restore, data, late>>
  <2>1. Goes("closeOps", "closeReqs") /\ "closeReqs" \in Stages
    BY <1>1, StepGoes DEF Stages
  <2>2. UNCHANGED <<reqs, applies, task, at, late, site, jobs, conns, bg, loop, poll, fence, restore, data>>
    BY <1>1 DEF handler, worker
  <2>3. /\ ops' \in [closed : BOOLEAN, exclusive : BOOLEAN, suppressed : BOOLEAN,
                     leases : SUBSET [owner : Owners, kind : Kinds], idle : Channel]
        /\ ops'.closed /\ ops'.exclusive = ops.exclusive /\ ops'.suppressed = ops.suppressed
        /\ ops'.leases = ops.leases /\ ops'.idle = ops.idle
    BY <1>1 DEF CloseOperations, TypeOK
  <2>4. TypeOK'
    BY <2>1, <2>2, <2>3 DEF TypeOK, Goes, SdType
  <2>5. TaskInv' /\ ActiveInv' /\ LeaseInv' /\ AloneInv' /\ FenceInv'
    BY <2>2, <2>3 DEF TaskInv, ActiveInv, LeaseInv, AloneInv, FenceInv
  <2>6. NothingBesideRestore' /\ FencedWritesNothing' /\ WakeInv' /\ LateInv' /\ LateNeverMutates'
    BY <2>2, <2>3 DEF NothingBesideRestore, FencedWritesNothing, WakeInv, LateInv, LateNeverMutates
  <2>7. StageInv' /\ CloseInv'
    BY <2>1, <2>2, <2>3, Proceed DEF Decided, Stopped, Flushed, OpsDrained, Drained
  <2> QED  BY <2>4, <2>5, <2>6, <2>7
<1>2. CASE /\ Step("closeReqs", "http") /\ CloseRequests
           /\ UNCHANGED <<ops, applies, handler, worker, fence, restore, data>>
  <2>1. Goes("closeReqs", "http") /\ "http" \in Stages
    BY <1>2, StepGoes DEF Stages
  <2>2. UNCHANGED <<ops, applies, task, at, site, jobs, conns, bg, loop, poll, fence, restore, data>>
    BY <1>2 DEF handler, worker
  <2>3. /\ reqs' \in [closed : BOOLEAN, active : SUBSET Handlers, idle : Channel]
        /\ reqs'.closed /\ reqs'.active = reqs.active /\ reqs'.idle = reqs.idle
        /\ late' \in SUBSET Handlers
        /\ \A h \in late' : h \in late \/ Queued(h)
    BY <1>2 DEF CloseRequests, TypeOK
  <2>4. TypeOK'
    BY <2>1, <2>2, <2>3 DEF TypeOK, Goes, SdType
  <2>5. TaskInv' /\ ActiveInv' /\ LeaseInv' /\ AloneInv' /\ FenceInv'
    BY <2>2, <2>3 DEF TaskInv, ActiveInv, LeaseInv, AloneInv, FenceInv
  <2>6. NothingBesideRestore' /\ FencedWritesNothing' /\ WakeInv' /\ LateInv'
    BY <2>2, <2>3 DEF NothingBesideRestore, FencedWritesNothing, WakeInv, LateInv
  <2>7. LateNeverMutates'
    BY <2>2, <2>3 DEF LateNeverMutates, Queued
  <2>8. ops.closed
    BY <2>1 DEF StageInv, Goes
  <2>9. StageInv' /\ CloseInv'
    BY <2>1, <2>2, <2>3, <2>8, Proceed DEF Decided, Stopped, Flushed, OpsDrained, Drained
  <2> QED  BY <2>4, <2>5, <2>6, <2>7, <2>9
<1> QED  BY <1>1, <1>2 DEF CloseAdmission

LEMMA FlushStep ==
    ASSUME IndInv, StopCollector \/ StopCascadeEvents \/ StopMaintainer PROVE IndInv'
<1> USE DEF IndInv
<1>1. /\ UNCHANGED <<ops, reqs, applies, task, at, late, bg, fence, restore>>
      /\ UNCHANGED <<site, jobs, conns, loop, data>>
  BY DEF StopCollector, StopCascadeEvents, StopMaintainer, gates, handler, worker
<1>2. poll \in PollType
  BY DEF TypeOK, PollType
<1>3. \E from, to \in {"collector", "cascade", "maintainer", "applies"} :
         /\ Goes(from, to) /\ to # "collector"
         /\ poll' \in PollType /\ poll'.state = "stopped"
         /\ to = "applies" /\ sd'.life => ~poll'.unflushed
  <2>1. {"collector", "cascade", "maintainer", "applies"} \subseteq Stages
    BY DEF Stages
  <2>2. CASE StopCollector
    <3>1. Goes("collector", "cascade")
      BY <2>1, <2>2, StepGoes DEF StopCollector
    <3>2. poll' \in PollType /\ poll'.state = "stopped"
      BY <1>2, <2>2 DEF StopCollector, PollType
    <3> QED  BY <3>1, <3>2
  <2>3. CASE StopCascadeEvents
    <3>1. Goes("cascade", "maintainer") /\ UNCHANGED poll
      BY <2>1, <2>3, StepGoes DEF StopCascadeEvents, worker
    <3>2. poll.state = "stopped"
      BY <3>1 DEF Goes, StageInv, Stopped
    <3> QED  BY <1>2, <3>1, <3>2
  <2>4. CASE StopMaintainer
    <3>1. Goes("maintainer", "applies")
      BY <2>1, <2>4, StepGoes DEF StopMaintainer
    <3>2. poll.state = "stopped"
      BY <3>1 DEF Goes, StageInv, Stopped
    <3>3. \/ poll' = [poll EXCEPT !.unflushed = FALSE]
          \/ UNCHANGED poll /\ sd' = [sd EXCEPT !.stage = "applies", !.life = FALSE,
                                                !.own = FALSE, !.errs = TRUE]
      BY <2>4 DEF StopMaintainer, Failed
    <3>4. poll' \in PollType /\ poll'.state = "stopped" /\ (sd'.life => ~poll'.unflushed)
      <4>1. sd \in SdType
        BY DEF TypeOK, SdType
      <4> QED  BY <1>2, <3>2, <3>3, <4>1 DEF PollType, SdType
    <3> QED  BY <3>1, <3>4
  <2> QED  BY <2>2, <2>3, <2>4
<1>4. PICK from, to \in {"collector", "cascade", "maintainer", "applies"} :
         /\ Goes(from, to) /\ to # "collector"
         /\ poll' \in PollType /\ poll'.state = "stopped"
         /\ to = "applies" /\ sd'.life => ~poll'.unflushed
  BY <1>3
<1>5. TypeOK'
  <2>1. sd' \in SdType
    BY <1>4 DEF Goes
  <2> QED  BY <1>1, <1>4, <2>1 DEF TypeOK, PollType, SdType
<1>6. to \in Stages /\ from \notin Decided /\ to \notin Decided
  BY <1>4 DEF Stages, Decided
<1>7. to \notin OpsDrained /\ to \notin Drained /\ (to \in Flushed => to = "applies")
  BY <1>4 DEF Flushed, OpsDrained, Drained, Decided
<1>8. ops'.closed /\ reqs'.closed
  BY <1>1, <1>4 DEF StageInv, Goes
<1>9. StageInv' /\ CloseInv'
  BY <1>1, <1>4, <1>6, <1>7, <1>8, Proceed
<1> QED  BY <1>1, <1>5, <1>9, BesideFrame

-----------------------------------------------------------------------------
(* The three drains.                                                       *)

LEMMA DrainValues ==
    /\ Drains = {"applies", "operations", "requests"}
    /\ After["applies"] = "operations" /\ After["operations"] = "requests"
    /\ After["requests"] = "decide"
    /\ Arm["applies"] = "armApplies" /\ Arm["operations"] = "armOperations"
    /\ Arm["requests"] = "armRequests"
    /\ Await["applies"] = "awaitApplies" /\ Await["operations"] = "awaitOperations"
    /\ Await["requests"] = "awaitRequests"
BY DEF Drains, After, Arm, Await

DrainOf(g) == CASE g = "applies"    -> {"applies", "armApplies", "awaitApplies"}
                [] g = "operations" -> {"operations", "armOperations", "awaitOperations"}
                [] g = "requests"   -> {"requests", "armRequests", "awaitRequests"}

LEMMA DrainStages ==
    ASSUME NEW g \in Drains
    PROVE  /\ {g, Arm[g], Await[g]} \subseteq DrainOf(g)
           /\ DrainOf(g) \subseteq Flushed /\ DrainOf(g) \cap Decided = {}
           /\ DrainOf(g) \subseteq Stages /\ After[g] \in Stages
           /\ After[g] \notin Decided
           /\ (After[g] \in Drained => g = "requests")
           /\ (After[g] \in OpsDrained => g \in {"operations", "requests"})
           /\ (g \in {"applies", "operations"} => DrainOf(g) \cap OpsDrained = {})
           /\ DrainOf(g) \cap Drained = {}
           /\ (g = "requests" => DrainOf(g) \subseteq OpsDrained)
<1>1. CASE g = "applies"
  BY <1>1, DrainValues DEF DrainOf, Flushed, OpsDrained, Drained, Decided, Stages
<1>2. CASE g = "operations"
  BY <1>2, DrainValues DEF DrainOf, Flushed, OpsDrained, Drained, Decided, Stages
<1>3. CASE g = "requests"
  BY <1>3, DrainValues DEF DrainOf, Flushed, OpsDrained, Drained, Decided, Stages
<1> QED  BY <1>1, <1>2, <1>3, DrainValues

\* The drain's lock and timer touch nothing but its channel.
LEMMA SetIdleFrame ==
    ASSUME IndInv, NEW g \in Drains, NEW i \in Channel, SetIdle(g, i), i # "closed",
           i = "open" => Busy(g), ops.closed, reqs.closed,
           UNCHANGED <<task, at, late, bg, fence, restore, jobs, loop>>
    PROVE  /\ ops' \in [closed : BOOLEAN, exclusive : BOOLEAN, suppressed : BOOLEAN,
                        leases : SUBSET [owner : Owners, kind : Kinds], idle : Channel]
           /\ reqs' \in [closed : BOOLEAN, active : SUBSET Handlers, idle : Channel]
           /\ applies' \in [active : SUBSET Handlers, idle : Channel]
           /\ ops'.closed /\ ops'.leases = ops.leases /\ ops'.exclusive = ops.exclusive
           /\ reqs'.closed /\ reqs'.active = reqs.active
           /\ TaskInv' /\ LeaseInv' /\ ActiveInv' /\ AloneInv' /\ FenceInv'
           /\ NothingBesideRestore' /\ FencedWritesNothing'
           /\ WakeInv' /\ LateInv' /\ LateNeverMutates'
<1> USE DEF IndInv
<1>1. /\ applies' = IF g = "applies" THEN [applies EXCEPT !.idle = i] ELSE applies
      /\ ops' = IF g = "operations" THEN [ops EXCEPT !.idle = i] ELSE ops
      /\ reqs' = IF g = "requests" THEN [reqs EXCEPT !.idle = i] ELSE reqs
  BY DEF SetIdle
<1>2. /\ ops' \in [closed : BOOLEAN, exclusive : BOOLEAN, suppressed : BOOLEAN,
                   leases : SUBSET [owner : Owners, kind : Kinds], idle : Channel]
      /\ ops'.closed = ops.closed /\ ops'.leases = ops.leases
      /\ ops'.exclusive = ops.exclusive /\ ops'.suppressed = ops.suppressed
      /\ ops'.idle = IF g = "operations" THEN i ELSE ops.idle
  BY <1>1 DEF TypeOK
<1>3. /\ reqs' \in [closed : BOOLEAN, active : SUBSET Handlers, idle : Channel]
      /\ reqs'.closed = reqs.closed /\ reqs'.active = reqs.active
      /\ reqs'.idle = IF g = "requests" THEN i ELSE reqs.idle
  BY <1>1 DEF TypeOK
<1>4. /\ applies' \in [active : SUBSET Handlers, idle : Channel]
      /\ applies'.active = applies.active
      /\ applies'.idle = IF g = "applies" THEN i ELSE applies.idle
  BY <1>1 DEF TypeOK
<1>5. TaskInv' /\ LeaseInv' /\ ActiveInv' /\ AloneInv' /\ FenceInv'
  BY <1>2, <1>3, <1>4 DEF TaskInv, LeaseInv, ActiveInv, AloneInv, FenceInv
<1>6. NothingBesideRestore' /\ FencedWritesNothing' /\ LateInv' /\ LateNeverMutates'
  BY <1>2, <1>3, <1>4 DEF NothingBesideRestore, FencedWritesNothing, LateInv, LateNeverMutates
<1>7. /\ g = "applies" /\ Busy(g) => applies.active # {}
      /\ g = "operations" /\ Busy(g) => ops.exclusive \/ ops.leases # {}
      /\ g = "requests" /\ Busy(g) => reqs.active # {}
  BY DEF Busy
<1>8. WakeInv'
  BY <1>2, <1>3, <1>4, <1>7 DEF WakeInv
<1> QED  BY <1>2, <1>3, <1>4, <1>5, <1>6, <1>8

\* A drain ends with its gate empty, or gives up ownership.  The apply barrier
\* refuses nobody: what it saw is not kept.
Emptied(g) == g = "applies" \/ ~Busy(g) \/ ~sd'.own

LEMMA DrainProceeds ==
    ASSUME IndInv, NEW g \in Drains, NEW from \in DrainOf(g), NEW to \in Stages, Goes(from, to),
           to \in DrainOf(g) \/ (to = After[g] /\ Emptied(g)),
           UNCHANGED <<poll, restore, data>>,
           ops'.closed, reqs'.closed, ops'.leases = ops.leases,
           ops'.exclusive = ops.exclusive, reqs'.active = reqs.active
    PROVE  StageInv' /\ CloseInv'
<1> USE DEF IndInv
<1>1. sd.stage = from /\ (sd'.own => sd.own) /\ (sd'.life => sd.life)
  BY DEF Goes
<1>2. /\ from \in Flushed /\ from \notin Decided /\ to \notin Decided
      /\ g = "requests" => from \in OpsDrained
      /\ to \in Drained => to = After[g] /\ g = "requests"
      /\ to \in OpsDrained => g = "requests" \/ (g = "operations" /\ to = After[g])
  BY DrainStages, DrainValues
<1>3. poll'.state = "stopped" /\ (sd'.life => ~poll'.unflushed)
  BY <1>1, <1>2 DEF StageInv, Stopped
<1>4. to \in Drained /\ sd'.own => reqs'.active = {}
  BY <1>2, DrainStages DEF Busy, Emptied
<1>5. to \in OpsDrained /\ sd'.own => ~ops'.exclusive /\ ops'.leases = {}
  <2>1. CASE g = "requests"
    BY <1>1, <1>2, <2>1 DEF StageInv
  <2>2. CASE g = "operations"
    BY <1>2, <2>2, DrainStages DEF Busy, Emptied
  <2> QED  BY <1>2, <2>1, <2>2
<1> QED  BY <1>2, <1>3, <1>4, <1>5, Proceed

LEMMA DrainStep ==
    ASSUME IndInv, NEW g \in Drains, LookAtGate(g) \/ ArmGate(g) \/ AwaitGate(g)
    PROVE  IndInv'
<1> USE DEF IndInv
<1>1. UNCHANGED <<task, at, late, bg, fence, restore, site, jobs, conns, loop, poll, data>>
  BY DEF LookAtGate, ArmGate, AwaitGate, handler, worker
<1>2. {g, Arm[g], Await[g]} \subseteq DrainOf(g) /\ DrainOf(g) \subseteq Stages /\ After[g] \in Stages
  BY DrainStages
<1>3. /\ \/ UNCHANGED gates
         \/ \E i \in Channel : SetIdle(g, i) /\ i # "closed" /\ (i = "open" => Busy(g))
      /\ \E from \in DrainOf(g), to \in Stages :
            /\ Goes(from, to)
            /\ to \in DrainOf(g) \/ (to = After[g] /\ Emptied(g))
  <2>1. CASE LookAtGate(g)
    <3>1. UNCHANGED gates
      BY <2>1 DEF LookAtGate
    <3>2. CASE Busy(g)
      <4>1. Goes(g, Arm[g])
        BY <1>2, <2>1, <3>2, StepGoes DEF LookAtGate
      <4> QED  BY <1>2, <3>1, <4>1
    <3>3. CASE ~Busy(g)
      <4>1. Goes(g, After[g])
        BY <1>2, <2>1, <3>3, StepGoes DEF LookAtGate
      <4> QED  BY <1>2, <3>1, <3>3, <4>1 DEF Emptied
    <3> QED  BY <3>2, <3>3
  <2>2. CASE ArmGate(g)
    <3>1. CASE Busy(g)
      <4>1. Goes(Arm[g], Await[g]) /\ SetIdle(g, "open") /\ "open" \in Channel
        BY <1>2, <2>2, <3>1, StepGoes DEF ArmGate, Channel
      <4> QED  BY <1>2, <3>1, <4>1
    <3>2. CASE ~Busy(g)
      <4>1. Goes(Arm[g], After[g]) /\ UNCHANGED gates
        BY <1>2, <2>2, <3>2, StepGoes DEF ArmGate
      <4> QED  BY <1>2, <3>2, <4>1 DEF Emptied
    <3> QED  BY <3>1, <3>2
  <2>3. CASE AwaitGate(g)
    <3>1. CASE Idle(g) = "closed" /\ Step(Await[g], After[g]) /\ SetIdle(g, "none")
      <4>1. Goes(Await[g], After[g]) /\ "none" \in Channel
        BY <1>2, <3>1, StepGoes DEF Channel
      <4>2. g # "applies" => ~Busy(g)
        BY <3>1, DrainValues DEF Idle, Busy, WakeInv
      <4> QED  BY <1>2, <3>1, <4>1, <4>2 DEF Emptied
    <3>2. CASE Failed(Await[g], After[g]) /\ UNCHANGED gates
      <4>1. Goes(Await[g], After[g])
        BY <1>2, <3>2, StepGoes
      <4>2. ~sd'.own
        <5>1. sd \in SdType
          BY DEF TypeOK, SdType
        <5> QED  BY <3>2, <5>1 DEF Failed, SdType
      <4> QED  BY <1>2, <3>2, <4>1, <4>2 DEF Emptied
    <3> QED  BY <2>3, <3>1, <3>2 DEF AwaitGate
  <2> QED  BY <2>1, <2>2, <2>3
<1>4. PICK from \in DrainOf(g), to \in Stages :
         /\ Goes(from, to)
         /\ to \in DrainOf(g) \/ (to = After[g] /\ Emptied(g))
  BY <1>3
<1>5. ops.closed /\ reqs.closed
  <2>1. sd.stage \in Flushed
    BY <1>4, DrainStages DEF Goes
  <2> QED  BY <2>1 DEF StageInv, Flushed, OpsDrained, Drained, Decided
<1>6. /\ ops' \in [closed : BOOLEAN, exclusive : BOOLEAN, suppressed : BOOLEAN,
                   leases : SUBSET [owner : Owners, kind : Kinds], idle : Channel]
      /\ reqs' \in [closed : BOOLEAN, active : SUBSET Handlers, idle : Channel]
      /\ applies' \in [active : SUBSET Handlers, idle : Channel]
      /\ ops'.closed /\ ops'.leases = ops.leases /\ ops'.exclusive = ops.exclusive
      /\ reqs'.closed /\ reqs'.active = reqs.active
      /\ TaskInv' /\ LeaseInv' /\ ActiveInv' /\ AloneInv' /\ FenceInv'
      /\ NothingBesideRestore' /\ FencedWritesNothing'
      /\ WakeInv' /\ LateInv' /\ LateNeverMutates'
  <2>1. CASE UNCHANGED gates
    <3>1. UNCHANGED <<ops, reqs, applies>>
      BY <2>1 DEF gates
    <3>2. /\ TaskInv' /\ LeaseInv' /\ ActiveInv' /\ AloneInv' /\ FenceInv'
          /\ NothingBesideRestore' /\ FencedWritesNothing'
          /\ WakeInv' /\ LateInv' /\ LateNeverMutates'
      BY <1>1, <3>1, BesideFrame
    <3> QED  BY <1>5, <3>1, <3>2 DEF TypeOK
  <2>2. CASE \E i \in Channel : SetIdle(g, i) /\ i # "closed" /\ (i = "open" => Busy(g))
    <3>1. PICK i \in Channel : SetIdle(g, i) /\ i # "closed" /\ (i = "open" => Busy(g))
      BY <2>2
    <3>2. UNCHANGED <<task, at, late, bg, fence, restore, jobs, loop>>
      BY <1>1
    <3> QED  BY <1>5, <3>1, <3>2, SetIdleFrame
  <2> QED  BY <1>3, <2>1, <2>2
<1>7. TypeOK'
  <2>1. sd' \in SdType
    BY <1>4 DEF Goes
  <2> QED  BY <1>1, <1>6, <2>1 DEF TypeOK, SdType
<1>8. StageInv' /\ CloseInv'
  BY <1>1, <1>4, <1>6, DrainProceeds
<1> QED  BY <1>6, <1>7, <1>8

-----------------------------------------------------------------------------
(* The decision and what follows it.                                       *)

\* While shutdownLifecycle still owns the process nobody uses the database.
LEMMA DrainedIsEmpty ==
    ASSUME IndInv, sd.stage \in Drained, sd.own
    PROVE  ~Users
<1> USE DEF IndInv
<1>1. reqs.active = {} /\ ~ops.exclusive /\ ops.leases = {} /\ poll.state = "stopped"
  BY DEF StageInv, Drained, OpsDrained, Flushed, Stopped
<1>2. \A h \in Handlers : at[h] = "idle"
  BY <1>1 DEF ActiveInv
<1>3. bg = {} /\ jobs.running # "run" /\ loop.state # "cycle"
  BY <1>1 DEF LeaseInv
<1> QED  BY <1>1, <1>2, <1>3 DEF Users

\* From the decision on nothing but the pair, the marker, the log and the lock change.
LEMMA DecidedFrame ==
    ASSUME IndInv, sd.stage \in Drained, sd' \in SdType, sd'.stage \in Decided,
           UNCHANGED <<gates, handler, worker, fence, late>>,
           restore'.accepted = restore.accepted,
           restore.marker # "none" => restore'.marker # "none",
           restore' \in [marker : {"none", "intent", "clean"}, accepted : BOOLEAN],
           data' \in [store : {"open", "closed"}, log : {"open", "closed"}, lock : {"held", "free"}],
           sd'.life = sd.life, sd'.own = sd.own, sd.errs => sd'.errs
    PROVE  /\ TypeOK' /\ TaskInv' /\ LeaseInv' /\ ActiveInv' /\ AloneInv' /\ FenceInv'
           /\ NothingBesideRestore' /\ FencedWritesNothing'
           /\ WakeInv' /\ LateInv' /\ LateNeverMutates' /\ StageInv'
<1> USE DEF IndInv
<1>1. UNCHANGED <<ops, reqs, applies, site, task, at, jobs, conns, bg, loop, poll, fence, late>>
  BY DEF gates, handler, worker
<1>2. TypeOK'
  BY <1>1 DEF TypeOK, SdType
<1>3. TaskInv' /\ LeaseInv' /\ ActiveInv' /\ FenceInv' /\ FencedWritesNothing'
  BY <1>1 DEF TaskInv, LeaseInv, ActiveInv, FenceInv, FencedWritesNothing
<1>4. AloneInv' /\ NothingBesideRestore'
  BY <1>1 DEF AloneInv, NothingBesideRestore
<1>5. WakeInv' /\ LateInv' /\ LateNeverMutates'
  BY <1>1 DEF WakeInv, LateInv, LateNeverMutates
<1>6. /\ sd.stage \notin {"serve", "closeOps", "closeReqs"}
      /\ sd.stage \in Stopped /\ sd.stage \in Flushed /\ sd.stage \in OpsDrained
      /\ sd'.stage \in Drained
  BY DEF Stopped, Flushed, OpsDrained, Drained, Decided
<1>7. StageInv'
  BY <1>1, <1>6 DEF StageInv
<1> QED  BY <1>2, <1>3, <1>4, <1>5, <1>7

LEMMA DecideStep == ASSUME IndInv, Decide PROVE IndInv'
<1> USE DEF IndInv
<1>1. /\ UNCHANGED <<gates, handler, worker, fence, late>> /\ UNCHANGED <<restore, data>>
      /\ sd.stage = "decide" /\ sd.stage \in Drained /\ sd \in SdType
      /\ restore \in [marker : {"none", "intent", "clean"}, accepted : BOOLEAN]
  BY DEF Decide, Drained, TypeOK, SdType
<1>2. /\ data.store # "closed" /\ data.lock # "free" /\ restore.marker # "clean" /\ ~sd.promote
      /\ sd.errs \/ sd.life
  BY <1>1 DEF CloseInv, StageInv, Decided
<1>3. PICK p \in BOOLEAN : p = (sd.life /\ restore.accepted /\ restore.marker = "intent")
  OBVIOUS
<1>4. \/ sd' = [sd EXCEPT !.stage = "close", !.promote = p]
      \/ sd.life /\ restore.accepted /\ sd' = [sd EXCEPT !.stage = "close", !.errs = TRUE]
  BY <1>3 DEF Decide
<1>5. /\ sd' \in SdType /\ sd'.stage = "close" /\ sd'.life = sd.life /\ sd'.own = sd.own
      /\ sd.errs => sd'.errs
      /\ (sd'.promote = p /\ sd'.errs = sd.errs) \/ (~sd'.promote /\ sd'.errs)
  <2>1. "close" \in Stages
    BY DEF Stages
  <2> QED  BY <1>1, <1>2, <1>4, <2>1 DEF SdType
<1>6. restore.accepted => restore.marker = "intent"
  BY <1>1, <1>2 DEF AloneInv
<1>7. /\ TypeOK' /\ TaskInv' /\ LeaseInv' /\ ActiveInv' /\ AloneInv' /\ FenceInv'
      /\ NothingBesideRestore' /\ FencedWritesNothing'
      /\ WakeInv' /\ LateInv' /\ LateNeverMutates' /\ StageInv'
  <2>1. data \in [store : {"open", "closed"}, log : {"open", "closed"}, lock : {"held", "free"}]
    BY DEF TypeOK
  <2> QED  BY <1>1, <1>5, <2>1, DecidedFrame DEF Decided
<1>8. CloseInv'
  BY <1>1, <1>2, <1>3, <1>5, <1>6 DEF CloseInv, Decided
<1> QED  BY <1>7, <1>8

LEMMA CloseStoreStep == ASSUME IndInv, CloseStore PROVE IndInv'
<1> USE DEF IndInv
<1> DEFINE D == [store : {"open", "closed"}, log : {"open", "closed"}, lock : {"held", "free"}]
<1>1. /\ UNCHANGED <<gates, handler, worker, fence, late>> /\ UNCHANGED restore
      /\ sd.stage = "close" /\ sd.stage \in Drained /\ sd \in SdType /\ data \in D
      /\ restore \in [marker : {"none", "intent", "clean"}, accepted : BOOLEAN]
  BY DEF CloseStore, Drained, Decided, TypeOK, SdType
<1>2. /\ data.store # "closed" /\ data.lock # "free" /\ restore.marker # "clean"
      /\ sd.errs \/ sd.life
      /\ sd.promote => restore.accepted /\ sd.life /\ restore.marker # "none"
      /\ ~sd.errs /\ restore.accepted => sd.promote
  BY <1>1 DEF CloseInv, StageInv, Decided
<1>3. CASE sd.life
  <2>1. PICK ok \in BOOLEAN :
          /\ data' = [data EXCEPT !.store = "closed"]
          /\ sd' = [sd EXCEPT !.stage = IF sd.promote /\ ok THEN "mark" ELSE "release",
                              !.pair = ok, !.errs = @ \/ ~ok]
    BY <1>3 DEF CloseStore
  <2>2. PICK e \in BOOLEAN : e = (sd.errs \/ ~ok)
    OBVIOUS
  <2>3. PICK s \in {"mark", "release"} : s = IF sd.promote /\ ok THEN "mark" ELSE "release"
    OBVIOUS
  <2>4. sd' = [sd EXCEPT !.stage = s, !.pair = ok, !.errs = e]
    BY <2>1, <2>2, <2>3
  <2>5. /\ sd' \in SdType /\ sd'.stage = s /\ sd'.life = sd.life /\ sd'.own = sd.own
        /\ sd'.pair = ok /\ sd'.errs = e /\ sd'.promote = sd.promote
    <3>1. s \in Stages
      BY DEF Stages
    <3> QED  BY <1>1, <2>4, <3>1 DEF SdType
  <2>6. data' \in D /\ data'.store = "closed" /\ data'.lock = data.lock /\ data'.log = data.log
    BY <1>1, <2>1
  <2>7. /\ TypeOK' /\ TaskInv' /\ LeaseInv' /\ ActiveInv' /\ AloneInv' /\ FenceInv'
        /\ NothingBesideRestore' /\ FencedWritesNothing'
        /\ WakeInv' /\ LateInv' /\ LateNeverMutates' /\ StageInv'
    BY <1>1, <2>2, <2>5, <2>6, DecidedFrame DEF Decided
  <2>8. CloseInv'
    BY <1>1, <1>2, <1>3, <2>2, <2>3, <2>5, <2>6 DEF CloseInv, Decided, SdType
  <2> QED  BY <2>7, <2>8
<1>4. CASE ~sd.life
  <2>1. sd' = [sd EXCEPT !.stage = "release"] /\ UNCHANGED data
    BY <1>4 DEF CloseStore
  <2>2. /\ sd' \in SdType /\ sd'.stage = "release" /\ sd'.life = sd.life /\ sd'.own = sd.own
        /\ sd'.pair = sd.pair /\ sd'.errs = sd.errs /\ sd'.promote = sd.promote
    <3>1. "release" \in Stages
      BY DEF Stages
    <3> QED  BY <1>1, <2>1, <3>1 DEF SdType
  <2>3. /\ TypeOK' /\ TaskInv' /\ LeaseInv' /\ ActiveInv' /\ AloneInv' /\ FenceInv'
        /\ NothingBesideRestore' /\ FencedWritesNothing'
        /\ WakeInv' /\ LateInv' /\ LateNeverMutates' /\ StageInv'
    BY <1>1, <2>1, <2>2, DecidedFrame DEF Decided
  <2>4. CloseInv'
    BY <1>1, <1>2, <1>4, <2>1, <2>2 DEF CloseInv, Decided
  <2> QED  BY <2>3, <2>4
<1> QED  BY <1>3, <1>4

LEMMA MarkRestoreCleanStep == ASSUME IndInv, MarkRestoreClean PROVE IndInv'
<1> USE DEF IndInv
<1>1. /\ UNCHANGED <<gates, handler, worker, fence, late>> /\ UNCHANGED data
      /\ sd.stage = "mark" /\ sd.stage \in Drained /\ sd \in SdType
      /\ data \in [store : {"open", "closed"}, log : {"open", "closed"}, lock : {"held", "free"}]
      /\ restore \in [marker : {"none", "intent", "clean"}, accepted : BOOLEAN]
  BY DEF MarkRestoreClean, Drained, Decided, TypeOK, SdType
<1>2. /\ data.lock # "free" /\ sd.promote /\ sd.pair /\ data.store = "closed"
      /\ restore.accepted /\ sd.life
  BY <1>1 DEF CloseInv
<1>3. /\ restore' \in [marker : {"none", "intent", "clean"}, accepted : BOOLEAN]
      /\ restore'.accepted = restore.accepted
      /\ sd' \in SdType /\ sd'.stage = "release" /\ sd'.life = sd.life /\ sd'.own = sd.own
      /\ sd'.pair = sd.pair /\ sd'.promote = sd.promote /\ (sd.errs => sd'.errs)
      /\ restore'.marker = "clean" \/ (sd'.errs /\ restore' = restore)
  <2>1. "release" \in Stages
    BY DEF Stages
  <2>2. CASE restore' = [restore EXCEPT !.marker = "clean"] /\ sd' = [sd EXCEPT !.stage = "release"]
    BY <1>1, <2>1, <2>2 DEF SdType
  <2>3. CASE sd' = [sd EXCEPT !.stage = "release", !.errs = TRUE] /\ UNCHANGED restore
    BY <1>1, <2>1, <2>3 DEF SdType
  <2> QED  BY <2>2, <2>3 DEF MarkRestoreClean
<1>4. /\ TypeOK' /\ TaskInv' /\ LeaseInv' /\ ActiveInv' /\ AloneInv' /\ FenceInv'
      /\ NothingBesideRestore' /\ FencedWritesNothing'
      /\ WakeInv' /\ LateInv' /\ LateNeverMutates' /\ StageInv'
  BY <1>1, <1>3, DecidedFrame DEF Decided
<1>5. restore.marker # "none"
  BY <1>2 DEF CloseInv
<1>6. CloseInv'
  BY <1>1, <1>2, <1>3, <1>5 DEF CloseInv, Decided
<1> QED  BY <1>4, <1>6

LEMMA ReleaseOwnershipStep == ASSUME IndInv, ReleaseOwnership PROVE IndInv'
<1> USE DEF IndInv
<1>1. /\ UNCHANGED <<gates, handler, worker, fence, late>> /\ UNCHANGED restore
      /\ sd.stage = "release" /\ sd.stage \in Drained /\ sd \in SdType
      /\ data \in [store : {"open", "closed"}, log : {"open", "closed"}, lock : {"held", "free"}]
      /\ restore \in [marker : {"none", "intent", "clean"}, accepted : BOOLEAN]
  BY DEF ReleaseOwnership, Step, Drained, Decided, TypeOK, SdType
<1>2. PICK l \in {"open", "closed"} : l = IF sd.life THEN "closed" ELSE data.log
  BY <1>1
<1>3. PICK k \in {"held", "free"} : k = IF sd.own /\ (sd.pair \/ ~sd.life) THEN "free" ELSE data.lock
  BY <1>1
<1>4. data' = [data EXCEPT !.log = l, !.lock = k]
  BY <1>2, <1>3 DEF ReleaseOwnership
<1>5. /\ data' \in [store : {"open", "closed"}, log : {"open", "closed"}, lock : {"held", "free"}]
      /\ data'.store = data.store /\ data'.log = l /\ data'.lock = k
  BY <1>1, <1>4
<1>6. /\ sd' \in SdType /\ sd'.stage = "done" /\ sd'.life = sd.life /\ sd'.own = sd.own
      /\ sd'.pair = sd.pair /\ sd'.promote = sd.promote /\ sd'.errs = sd.errs
  <2>1. "done" \in Stages /\ sd' = [sd EXCEPT !.stage = "done"]
    BY DEF Stages, ReleaseOwnership, Step
  <2> QED  BY <1>1, <2>1 DEF SdType
<1>7. /\ TypeOK' /\ TaskInv' /\ LeaseInv' /\ ActiveInv' /\ AloneInv' /\ FenceInv'
      /\ NothingBesideRestore' /\ FencedWritesNothing'
      /\ WakeInv' /\ LateInv' /\ LateNeverMutates' /\ StageInv'
  BY <1>1, <1>5, <1>6, DecidedFrame DEF Decided
<1>8. (sd.errs \/ sd.life) /\ (sd.life => sd.own) /\ data.lock # "free"
  BY <1>1 DEF StageInv, CloseInv
<1>9. CloseInv'
  BY <1>1, <1>2, <1>3, <1>5, <1>6, <1>8 DEF CloseInv, Decided
<1> QED  BY <1>7, <1>9

-----------------------------------------------------------------------------
LEMMA NextInv == IndInv /\ [Next]_vars => IndInv'
<1> SUFFICES ASSUME IndInv, [Next]_vars PROVE IndInv'
  OBVIOUS
<1>1. CASE \E h \in Handlers : HandlerStep(h) \/ LockCancelled(h) \/ EndLive(h)
  BY <1>1, HandlerInv
<1>2. CASE \E h \in Handlers, t \in Tasks : Admit(h, t)
  BY <1>2, AdmitStep
<1>3. CASE \E b \in Background : StartBackground(b) \/ EndBackground(b)
  BY <1>3, StartBackgroundStep, EndBackgroundStep
<1>4. CASE CompleteJob \/ EndJob \/ BeginCycle \/ EndCycle \/ ExitLoop \/ Poll \/ EndPoll
  BY <1>4, CompleteJobStep, BeginCycleStep, EndCycleStep, WorkerStep
<1>5. CASE BeginShutdown \/ RestartShutdown \/ Shutdown
  <2>1. CASE \/ BeginShutdown \/ RestartShutdown \/ CloseAdmission \/ ShutdownHttp
             \/ CloseJobs \/ CloseHub \/ StopNeighbourReconciler
    BY <2>1, EarlyStep, CloseAdmissionStep
  <2>2. CASE StopCollector \/ StopCascadeEvents \/ StopMaintainer
    BY <2>2, FlushStep
  <2>3. CASE \E g \in Drains : LookAtGate(g) \/ ArmGate(g) \/ AwaitGate(g)
    BY <2>3, DrainStep
  <2>4. CASE Decide \/ CloseStore \/ MarkRestoreClean \/ ReleaseOwnership
    BY <2>4, DecideStep, CloseStoreStep, MarkRestoreCleanStep, ReleaseOwnershipStep
  <2> QED  BY <1>5, <2>1, <2>2, <2>3, <2>4 DEF Shutdown
<1>6. CASE UNCHANGED vars
  <2>1. UNCHANGED <<ops, reqs, applies, site, task, at, jobs, conns, bg, loop, poll,
                    fence, restore, sd, data, late>>
    BY <1>6 DEF vars
  <2>2. TypeOK' /\ StageInv' /\ CloseInv'
    BY <2>1 DEF IndInv, TypeOK, StageInv, CloseInv
  <2> QED  BY <2>1, <2>2, BesideFrame DEF IndInv
<1> QED  BY <1>1, <1>2, <1>3, <1>4, <1>5, <1>6 DEF Next

LEMMA AlwaysInv == Spec => []IndInv
BY InitInv, NextInv, PTL DEF Spec

LEMMA DrainsWake == ASSUME IndInv PROVE NoLostWakeup
<1> SUFFICES ASSUME NEW g \in Drains, Idle(g) = "open" PROVE Busy(g)
  BY DEF NoLostWakeup
<1>1. g \in {"applies", "operations", "requests"}
  BY DrainValues
<1> QED  BY <1>1 DEF Idle, Busy, IndInv, WakeInv

LEMMA EndIsClean == ASSUME IndInv PROVE CleanExit
<1> SUFFICES ASSUME sd.stage = "done", ~sd.errs
             PROVE  /\ data = [store |-> "closed", log |-> "closed", lock |-> "free"]
                    /\ ~poll.unflushed
                    /\ (restore.accepted => restore.marker = "clean")
  BY DEF CleanExit
<1> USE DEF IndInv
<1>1. sd.life /\ ~poll.unflushed
  BY DEF StageInv, Flushed, OpsDrained, Drained, Decided
<1>2. /\ data.store = "closed" /\ data.log = "closed" /\ data.lock = "free"
      /\ restore.accepted => restore.marker = "clean"
  BY DEF CloseInv
<1>3. data \in [store : {"open", "closed"}, log : {"open", "closed"}, lock : {"held", "free"}]
  BY DEF TypeOK
<1> QED  BY <1>1, <1>2, <1>3

(* The shutdown of internal/daemon: whatever was admitted and whatever timed out, the
   database is closed and the process lock released only when nobody uses them, a nil
   return means that nothing is left open, unflushed or unpromoted, and no drain waits
   for a wakeup that was already sent. *)
THEOREM AdmissionShutdownIsClean == Spec => []ShutdownIsClean
<1>1. IndInv => GivenUpAlone
  <2> SUFFICES ASSUME IndInv, data.store = "closed" \/ data.lock = "free" PROVE ~Users
    BY DEF GivenUpAlone
  <2>1. sd.stage \in Drained /\ sd.own
    BY DEF IndInv, CloseInv, StageInv, Drained, Decided
  <2> QED  BY <2>1, DrainedIsEmpty
<1>2. IndInv => ShutdownIsClean
  BY <1>1, EndIsClean, DrainsWake DEF ShutdownIsClean, IndInv
<1> QED  BY <1>2, AlwaysInv, PTL

(* A restore: from the exclusive lease of its confirmation on nothing runs beside it, the
   fence of a restored controller lets no router write begin, and the marker turns clean
   only after the answer, the drains, the flush and the faultless close. *)
THEOREM AdmissionRestoreIsAlone == Spec => []RestoreIsAlone
<1>1. IndInv => PromotionIsEarned
  <2> SUFFICES ASSUME IndInv, restore.marker = "clean"
               PROVE  /\ restore.accepted /\ sd.pair /\ data.store = "closed"
                      /\ ~Users /\ ~poll.unflushed
    BY DEF PromotionIsEarned
  <2>1. /\ sd.stage \in {"release", "done"} /\ sd.life /\ restore.accepted /\ sd.pair
        /\ data.store = "closed"
    BY DEF IndInv, CloseInv
  <2>2. sd.stage \in Drained /\ sd.own /\ ~poll.unflushed
    BY <2>1 DEF IndInv, StageInv, Flushed, OpsDrained, Drained, Decided
  <2> QED  BY <2>1, <2>2, DrainedIsEmpty
<1>2. IndInv => RestoreIsAlone
  BY <1>1 DEF RestoreIsAlone, IndInv
<1> QED  BY <1>2, AlwaysInv, PTL

(* LockContext: a site mutation still queued when admission closed never starts. *)
THEOREM AdmissionLateNeverMutates == Spec => []LateNeverMutates
<1>1. IndInv => LateNeverMutates
  BY DEF IndInv
<1> QED  BY <1>1, AlwaysInv, PTL

=============================================================================
