----------------------------- MODULE Collector -----------------------------
(***************************************************************************)
(* The poller of one router (internal/collector).  One goroutine runs its  *)
(* cycles: it takes cycleMu, copies what it is to poll, dials if it holds   *)
(* no session, sends ONE batch, records the answers and publishes the      *)
(* snapshot.  Other goroutines meanwhile quiesce the poller for an apply,  *)
(* replace its target, invalidate its session or its caches, raise its     *)
(* rate, or remove it.  A slow source is not asked on every poll: the      *)
(* stamp of its last attempt is abstracted to membership of `due'.         *)
(***************************************************************************)
EXTENDS Integers, FiniteSets, FiniteSetsExt

CONSTANTS Ops,        \* goroutines that quiesce the poller around their work
          Shapes,     \* the sets of wireless interfaces a router may be given
          Mode,       \* the configured mode of each interface name
          Targets,    \* what Add may register: connection key, functions, rate
          MaxEvents   \* bound: changes made from outside the poll loop

ASSUME CollectorAssumption == IsFiniteSet(Ops) /\ MaxEvents \in Nat

VARIABLES
    target,   \* p.target
    client,   \* p.client: NoSession, or the session's key and the grants it got
    row,      \* external: the connection key of the inventory row Connect reads
    grants,   \* external: the ACL revision installed on the router
    live,     \* external: the wireless interfaces the router has now
    config,   \* external: the ones its configuration asks for
    owed,     \* an apply has returned and its Rediscover is still to come
    held,     \* Quiesce, by caller: out, waiting for the cycle, in, done
    quiesce,  \* p.quiesce
    wake,     \* p.wake is full
    due,      \* the slow sources whose stamp is zero or has lapsed
    refetch,  \* p.ifaceRefetchAt: none, pending, due
    cache,    \* the interface list, the radio inventory, the frequency list
    cycle,    \* the cycle in flight
    fails,    \* consecutive failed polls
    events,   \* outside changes so far
    cutShort, \* ghost: the second look after an apply was cancelled or pre-empted
    crossed   \* ghost: a session was stored for a row that had been replaced

session == <<target, client>>
router == <<row, grants, live, config, owed>>
lease == <<held, quiesce>>
cadence == <<due, refetch>>
vars == <<session, router, lease, wake, cadence, cache, cycle, fails, events,
          cutShort, crossed>>

None == "none"
NoSession == [key |-> None, grants |-> 0]
Ifaces == UNION Shapes
SlowSources == {"ifaces", "radio", "aux"}
Unknown == [known |-> FALSE, of |-> {}]
Idle == [pc |-> "idle"]

-----------------------------------------------------------------------------
(* What a poll asks.                                                         *)

\* The interface a radio's frequency list is asked of: an AP first, by name.
Preferred(ifs) ==
    LET aps == {i \in ifs : Mode[i] = "ap"}
    IN  IF aps # {} THEN Min(aps) ELSE IF ifs # {} THEN Min(ifs) ELSE 0

\* Topology asks for the interface list too, when it is due: the same as the list being due.
NeedIfaces == "ifaces" \in due \/ refetch = "due"

RadioTarget == IF cache.radio.known /\ "radio" \in due THEN Preferred(cache.radio.of) ELSE 0

\* buildCalls: the optional sources in the batch, beside the required system.info.  Board,
\* topology, network, client and mesh-peer reads follow the same rule and leave nothing
\* behind that another source reads.
BuildCalls ==
    (IF NeedIfaces THEN {"ifaces", "inventory"} ELSE {})
    \union (IF RadioTarget # 0 THEN {"freq"} ELSE {})
    \union (due \intersect {"aux"})

\* The stamps taken when the calls are built: the attempt counts, not the answer.
\* The interface list alone is stamped by its answer.
Attempted(asked) ==
    (asked \intersect {"aux"}) \union (IF "freq" \in asked THEN {"radio"} ELSE {})

-----------------------------------------------------------------------------
(* The cycle.                                                                *)

CycleFree == cycle.pc = "idle"

\* What a cycle copies under the lock before it dials; Connect reads the row then.
Begin(full, asked) ==
    [pc |-> "dial", full |-> full, client |-> client, key |-> row, asked |-> asked,
     freqIf |-> 0, early |-> FALSE, saw |-> {}]

\* tick: a wake or the timer; an apply that owns the device sends the cycle home.
StartFull ==
    /\ CycleFree
    /\ wake' = FALSE
    /\ cycle' = IF quiesce > 0 THEN cycle ELSE Begin(TRUE, {})
    /\ UNCHANGED <<session, router, lease, cadence, cache, fails, events, cutShort, crossed>>

\* tickAux: the minute's logs and the gateway's WAN probe, stamped before the dial.
StartAux ==
    /\ CycleFree /\ ~wake /\ quiesce = 0
    /\ "aux" \in due
    /\ due' = due \ {"aux"}
    /\ cycle' = Begin(FALSE, {"aux"})
    /\ UNCHANGED <<session, router, lease, wake, refetch, cache, fails, events, cutShort,
                   crossed>>

\* dial stores the session it opened unless one is there; then the batch leaves.
Send ==
    /\ cycle.pc = "dial"
    /\ LET used == IF cycle.client # NoSession THEN cycle.client
                   ELSE IF client # NoSession THEN client
                   ELSE [key |-> cycle.key, grants |-> grants]
           asked == IF cycle.full THEN BuildCalls ELSE cycle.asked
       IN  /\ client' = IF cycle.client = NoSession THEN used ELSE client
           /\ crossed' = (crossed \/ (client' # client /\ cycle.key # row))
           /\ cycle' = [cycle EXCEPT !.pc = "sent", !.client = used, !.asked = asked,
                                     !.freqIf = IF cycle.full THEN RadioTarget ELSE 0,
                                     !.early = refetch # "due"]
           /\ due' = IF cycle.full THEN due \ Attempted(asked) ELSE due
    /\ UNCHANGED <<target, router, lease, wake, refetch, cache, fails, events, cutShort>>

\* external: the router works the batch through, some time while it is in flight.
RouterReads ==
    /\ cycle.pc = "sent"
    /\ cycle' = [cycle EXCEPT !.pc = "read", !.saw = live]
    /\ UNCHANGED <<session, router, lease, wake, cadence, cache, fails, events, cutShort,
                   crossed>>

\* The dial, the transport or the required system.info failed.  One failure keeps the
\* session, the second drops it.
Fail ==
    /\ cycle.pc \in {"dial", "sent", "read"} /\ cycle.full
    /\ fails' = IF fails < 2 THEN fails + 1 ELSE fails
    /\ client' = IF fails' = 2 THEN NoSession ELSE client
    /\ cycle' = [pc |-> "emit"]
    /\ UNCHANGED <<target, router, lease, wake, cadence, cache, events, cutShort, crossed>>

\* A radio keeps its frequency list across a new inventory only with its identity.
NeverDiscards(ifs) == cache.radio.known
SameIdentity(ifs) == cache.radio.known /\ Preferred(cache.radio.of) = Preferred(ifs)

\* reconcileRadios: the interface whose frequency list is known, 0 if none is.
ReconciledFreq(answered) ==
    LET same == "inventory" \in answered => SameIdentity(cycle.saw)
        kept == IF same /\ "freq" \notin cycle.asked THEN cache.freq ELSE 0
    IN  IF same /\ "freq" \in answered THEN cycle.freqIf ELSE kept

\* external: the optional calls a router may answer; the others may be refused.
Answerable ==
    (cycle.asked \intersect {"ifaces", "inventory"})
    \union (IF "freq" \in cycle.asked /\ cycle.freqIf \in cycle.saw THEN {"freq"} ELSE {})

\* succeed: the failures are counted from nothing again; the widening of the
\* interval and the router's clock are left out.
Succeed == fails' = 0

\* The full poll succeeded: what each answered source leaves behind.
Finish ==
    /\ cycle.pc = "read" /\ cycle.full
    /\ \E answered \in SUBSET Answerable :
         LET listRead == "ifaces" \in answered
             invRead == "inventory" \in answered
             seen == [known |-> TRUE, of |-> cycle.saw]
         IN  /\ cache' = [ifaces |-> IF listRead THEN seen ELSE cache.ifaces,
                          radio |-> IF invRead THEN seen ELSE cache.radio,
                          freq |-> ReconciledFreq(answered)]
             /\ due' = (due \ (IF listRead THEN {"ifaces"} ELSE {}))
                       \union (IF invRead /\ ~SameIdentity(cycle.saw) THEN {"radio"} ELSE {})
             /\ refetch' = IF listRead /\ refetch = "due" THEN None ELSE refetch
             /\ cutShort' = (cutShort \/ (listRead /\ refetch = "due" /\ cycle.early))
    /\ Succeed
    /\ cycle' = [pc |-> "emit"]
    /\ UNCHANGED <<session, router, lease, wake, events, crossed>>

\* An auxiliary poll, answered or not, touches neither reachability nor any cache.
FinishAux ==
    /\ cycle.pc \in {"dial", "sent", "read"} /\ ~cycle.full
    /\ cycle' = [pc |-> "emit"]
    /\ UNCHANGED <<session, router, lease, wake, cadence, cache, fails, events, cutShort,
                   crossed>>

\* emit, still under cycleMu: the sink is called unless done is closed.
Emit ==
    /\ cycle.pc = "emit"
    /\ cycle' = Idle
    /\ UNCHANGED <<session, router, lease, wake, cadence, cache, fails, events, cutShort,
                   crossed>>

-----------------------------------------------------------------------------
(* The other goroutines.                                                     *)

Outside == events < MaxEvents /\ events' = events + 1

\* addQuiesce raises the count, then waits until the cycle in flight is over.
QuiesceRaises(o) ==
    /\ held[o] = "out" /\ Outside
    /\ quiesce' = quiesce + 1
    /\ held' = [held EXCEPT ![o] = "waiting"]
    /\ UNCHANGED <<session, router, wake, cadence, cache, cycle, fails, cutShort,
                   crossed>>

QuiesceReturns(o) ==
    /\ held[o] = "waiting" /\ CycleFree
    /\ held' = [held EXCEPT ![o] = "in"]
    /\ UNCHANGED <<session, router, quiesce, wake, cadence, cache, cycle, fails,
                   events, cutShort, crossed>>

\* The release function lowers the count on its first call only; it may be called
\* again by a deferred call.
EveryCallLowers(o) == held[o] \in {"in", "done"}
Lowers(o) == held[o] = "in"

Release(o) ==
    /\ held[o] \in {"in", "done"}
    /\ held' = [held EXCEPT ![o] = IF @ = "in" THEN "done" ELSE "out"]
    /\ quiesce' = IF Lowers(o) /\ quiesce > 0 THEN quiesce - 1 ELSE quiesce
    /\ wake' = (wake \/ (Lowers(o) /\ quiesce' = 0))
    /\ UNCHANGED <<session, router, cadence, cache, cycle, fails, events, cutShort,
                   crossed>>

\* external: an apply reconfigures the radios; an interface it adds is seconds away.
Apply(o, s) ==
    /\ held[o] = "in" /\ ~owed /\ live = config /\ s # config
    /\ config' = s /\ live' = live \intersect s /\ owed' = TRUE
    /\ UNCHANGED <<session, row, grants, lease, wake, cadence, cache, cycle, fails, events,
                   cutShort, crossed>>

InterfacesAppear ==
    /\ live # config /\ live' = config
    /\ UNCHANGED <<session, row, grants, config, owed, lease, wake, cadence, cache, cycle, fails,
                   events, cutShort, crossed>>

ForgetList == [cache EXCEPT !.ifaces.known = FALSE]

\* Rediscover, once the apply has returned: read the list now, and once more when the
\* interfaces have settled.
SecondLookOmitted == refetch
SecondLook == "pending"

Rediscover ==
    /\ owed /\ owed' = FALSE
    /\ due' = due \union {"ifaces"}
    /\ cache' = ForgetList
    /\ refetch' = SecondLook
    /\ wake' = TRUE /\ cutShort' = FALSE
    /\ cycle' = IF cycle.pc \in {"sent", "read"} THEN [cycle EXCEPT !.early = TRUE] ELSE cycle
    /\ UNCHANGED <<session, row, grants, live, config, lease, fails, events, crossed>>

\* ifaceSettleDelay, longer than interfaces take to appear, passes and pokes again.
SettleDelayPasses ==
    /\ refetch = "pending" /\ live = config
    /\ refetch' = "due" /\ wake' = TRUE
    /\ UNCHANGED <<session, router, lease, due, cache, cycle, fails, events, cutShort,
                   crossed>>

\* rediscoverInterval, or the minute of the auxiliary sources, passes.
CadencePasses(sources) ==
    /\ ~(sources \subseteq due) /\ Outside
    /\ due' = due \union sources
    /\ UNCHANGED <<session, router, lease, wake, refetch, cache, cycle, fails, cutShort,
                   crossed>>

\* external: the inventory row takes a new endpoint or credential; Track follows.
RowChanges(k) ==
    /\ row = target.key /\ k # row /\ Outside
    /\ row' = k
    /\ UNCHANGED <<session, grants, live, config, owed, lease, wake, cadence, cache, cycle, fails,
                   cutShort, crossed>>

\* Add for a registered device: a session is not portable to another endpoint or
\* credential, and a change of functions asks for the wireless inventory again.
SessionKept(t) == client
SessionAfterAdd(t) == IF t.key # target.key THEN NoSession ELSE client

Add(t) ==
    /\ t.key = row /\ t # target /\ Outside
    /\ target' = t
    /\ client' = SessionAfterAdd(t)
    /\ IF t.wired # target.wired
       THEN /\ due' = due \union {"ifaces"} /\ cache' = ForgetList
            /\ refetch' = None /\ cutShort' = (cutShort \/ refetch # None)
            /\ wake' = TRUE
       ELSE UNCHANGED <<cadence, cache, cutShort, wake>>
    /\ UNCHANGED <<router, lease, cycle, fails, crossed>>

\* RefreshAccess, while its caller holds the poller quiesced: the ACL on the router has
\* changed, grants are fixed at login, and a denial has stamped its cadence.
RefreshAccess(o) ==
    /\ held[o] = "in" /\ Outside
    /\ grants' = grants + 1
    /\ client' = NoSession
    /\ due' = SlowSources /\ cache' = ForgetList
    /\ refetch' = None /\ cutShort' = (cutShort \/ refetch # None)
    /\ UNCHANGED <<target, row, live, config, owed, lease, wake, cycle, fails, crossed>>

-----------------------------------------------------------------------------
Init ==
    /\ target \in Targets /\ row = target.key
    /\ client = NoSession /\ grants = 0
    /\ config \in Shapes /\ live = config /\ owed = FALSE
    /\ held = [o \in Ops |-> "out"] /\ quiesce = 0
    /\ wake = FALSE /\ due = SlowSources /\ refetch = None
    /\ cache = [ifaces |-> Unknown, radio |-> Unknown, freq |-> 0]
    /\ cycle = Idle /\ fails = 0 /\ events = 0
    /\ cutShort = FALSE /\ crossed = FALSE

Next ==
    \/ StartFull \/ StartAux \/ Send \/ RouterReads \/ Fail \/ Finish \/ FinishAux \/ Emit
    \/ \E o \in Ops : QuiesceRaises(o) \/ QuiesceReturns(o) \/ Release(o) \/ RefreshAccess(o)
    \/ \E o \in Ops, s \in Shapes : Apply(o, s)
    \/ InterfacesAppear \/ Rediscover \/ SettleDelayPasses
    \/ CadencePasses(SlowSources \ {"aux"}) \/ CadencePasses({"aux"})
    \/ \E t \in Targets : RowChanges(t.key) \/ Add(t)

Spec == Init /\ [][Next]_vars

-----------------------------------------------------------------------------
TypeOK ==
    /\ target \in Targets /\ row \in {t.key : t \in Targets}
    /\ client = NoSession \/ client \in [key : {t.key : t \in Targets}, grants : 0..MaxEvents]
    /\ live \subseteq Ifaces /\ config \in Shapes
    /\ held \in [Ops -> {"out", "waiting", "in", "done"}]
    /\ quiesce \in 0..Cardinality(Ops)
    /\ due \subseteq SlowSources /\ refetch \in {None, "pending", "due"}
    /\ cycle.pc \in {"idle", "dial", "sent", "read", "emit"}
    /\ fails \in 0..2 /\ {wake, owed, cutShort, crossed} \subseteq BOOLEAN

\* From the moment Quiesce returns until its caller releases it, however many others
\* quiesce and release meanwhile and however often a release function is called, no
\* request to the router is in flight and no older poll is still being published: an
\* apply never shares the device with a poll (collector.go, addQuiesce and tick).
QuiesceIsBoundary == \A o \in Ops : held[o] = "in" => CycleFree

\* Once an apply's Rediscover has run its course the cached interface list is the one
\* the router settled on, not one read while a new interface was still coming up -
\* unless the second look was cancelled by a change of functions or of access, or taken
\* by a poll that had left before it was due (collector.go, Rediscover, needIfaces).
SettledList ==
    ~owed /\ refetch = None /\ "ifaces" \notin due /\ cache.ifaces.known /\ live = config
        => cache.ifaces.of = live \/ cutShort

\* A frequency list is kept only with the radio it was read from: whatever inventory,
\* refusal or identity change came between the question and the answer, a known list is
\* of the interface the radio is known by now (collector.go, reconcileRadios).
KnownIsAnswered == cache.freq # 0 => cache.radio.known /\ cache.freq = Preferred(cache.radio.of)

\* What the collector remembers of a router is what the router last said of itself.
CacheIsCurrent == TypeOK /\ SettledList /\ KnownIsAnswered

\* No poll runs on grants older than the last access refresh, and a session outlives
\* neither the endpoint nor the credential it was opened for - except one whose login
\* was under way while the row was replaced (collector.go, Add, RefreshAccess, dial).
SessionIsCurrent ==
    /\ cycle.pc \in {"sent", "read"} => cycle.client.grants = grants
    /\ client # NoSession /\ row = target.key => client.key = row \/ crossed

=============================================================================
