----------------------------- MODULE DeviceGate -----------------------------
(***************************************************************************)
(* The per-device operation gate (internal/daemon/device_operation.go) and *)
(* the operations that go through it: the bound apply, the un-adoption     *)
(* that deletes the inventory row, and the operations that know the device *)
(* only by its id (re-probe, ACL refresh, radio scan, capability install). *)
(*                                                                         *)
(* A gate entry is a heap object shared by pointer: the map holds one      *)
(* pointer per device id, every holder and waiter keeps its own.  SQLite   *)
(* reuses a deleted row's id, so an id may name another router by the time *)
(* a waiter is admitted; the entry's generation is the fence against that. *)
(***************************************************************************)
EXTENDS Integers, FiniteSets

CONSTANTS
    Proc,           \* goroutines that run device operations
    DeviceId,       \* reusable INTEGER PRIMARY KEYs of the devices table
    Mac,            \* stable router identities
    Op,             \* addresses of deviceOperation objects
    None,           \* nil pointer, absent row, unlocked mutex, no operation
    MaxGeneration   \* bound on op.generation (uint64 in the code)

ASSUME GateConstants ==
    /\ None \notin Proc \cup Mac \cup Op \cup DeviceId
    /\ MaxGeneration \in Nat
    /\ IsFiniteSet(Proc)

VARIABLES
    entries,    \* g.entries: device id -> address, None when absent
    users,      \* op.users
    generation, \* op.generation
    token,      \* op.token holds its element
    row,        \* inventory: device id -> MAC of the row
    lifecycle,  \* holder of Daemon.telemetryLifecycle
    pc,         \* where each goroutine is in its operation
    role,       \* which operation it runs
    dev,        \* the device id it was asked for
    ref,        \* its *deviceOperation
    gen,        \* the generation it captured when it joined
    cancelled,  \* its wait context is done
    captured,   \* apply: MAC of the row ApplySite read before it waited
    target,     \* the router it loaded after admission and works on
    joined,     \* history: the row when it joined the gate
    deletedSince \* history: that row was deleted after it joined

gateVars == <<entries, users, generation, token>>
history == <<joined, deletedSince>>
vars == <<gateVars, row, lifecycle, pc, role, dev, ref, gen, cancelled,
          captured, target, history>>

\* Between taking the token and giving it back.
Holding == {"admitted", "unfenced", "entered", "working", "deleted",
            "invalidated", "draining"}
\* Referencing the gate entry, counted in users.
Joined == {"waiting", "leaving"} \cup Holding
States == {"idle", "calling"} \cup Joined

TypeOK ==
    /\ entries \in [DeviceId -> Op \cup {None}]
    /\ users \in [Op -> Int]
    /\ generation \in [Op -> 0..MaxGeneration]
    /\ token \in [Op -> BOOLEAN]
    /\ row \in [DeviceId -> Mac \cup {None}]
    /\ lifecycle \in Proc \cup {None}
    /\ pc \in [Proc -> States]
    /\ role \in [Proc -> {"apply", "unadopt", "byId", "none"}]
    /\ dev \in [Proc -> DeviceId \cup {None}]
    /\ ref \in [Proc -> Op \cup {None}]
    /\ gen \in [Proc -> 0..MaxGeneration]
    /\ cancelled \in [Proc -> BOOLEAN]
    /\ captured \in [Proc -> Mac \cup {None}]
    /\ target \in [Proc -> Mac \cup {None}]
    /\ joined \in [Proc -> Mac \cup {None}]
    /\ deletedSince \in [Proc -> BOOLEAN]

Init ==
    /\ entries = [d \in DeviceId |-> None]
    /\ users = [o \in Op |-> 0]
    /\ generation = [o \in Op |-> 0]
    /\ token = [o \in Op |-> FALSE]
    /\ row \in [DeviceId -> Mac \cup {None}]
    /\ \A d, e \in DeviceId : row[d] = row[e] => d = e \/ row[d] = None
    /\ lifecycle = None
    /\ pc = [p \in Proc |-> "idle"]
    /\ role = [p \in Proc |-> "none"]
    /\ dev = [p \in Proc |-> None]
    /\ ref = [p \in Proc |-> None]
    /\ gen = [p \in Proc |-> 0]
    /\ cancelled = [p \in Proc |-> FALSE]
    /\ captured = [p \in Proc |-> None]
    /\ target = [p \in Proc |-> None]
    /\ joined = [p \in Proc |-> None]
    /\ deletedSince = [p \in Proc |-> FALSE]

\* Goroutine p moves from one point of its operation to another.
Step(p, from, to) ==
    /\ pc[p] = from
    /\ pc' = [pc EXCEPT ![p] = to]

----------------------------------------------------------------------------
(* The callers before they reach the gate.                                 *)

\* ApplySite captured the device row from its preview before it waits.
StartApply(p, d) ==
    /\ Step(p, "idle", "calling")
    /\ row[d] # None
    /\ role' = [role EXCEPT ![p] = "apply"]
    /\ dev' = [dev EXCEPT ![p] = d]
    /\ captured' = [captured EXCEPT ![p] = row[d]]
    /\ UNCHANGED <<gateVars, row, lifecycle, ref, gen, cancelled, target, history>>

\* Un-adopt and the other operations carry nothing but the id.
StartById(p, d, r) ==
    /\ Step(p, "idle", "calling")
    /\ role' = [role EXCEPT ![p] = r]
    /\ dev' = [dev EXCEPT ![p] = d]
    /\ UNCHANGED <<gateVars, row, lifecycle, ref, gen, cancelled, captured,
                   target, history>>

\* The request goes away, or the apply-drain deadline closes the wait context.
Cancel(p) ==
    /\ pc[p] \in {"calling", "waiting", "admitted"}
    /\ cancelled' = [cancelled EXCEPT ![p] = TRUE]
    /\ UNCHANGED <<gateVars, row, lifecycle, pc, role, dev, ref, gen, captured,
                   target, history>>

\* Everything local to the operation goes out of scope.
Forget(p) ==
    /\ role' = [role EXCEPT ![p] = "none"]
    /\ dev' = [dev EXCEPT ![p] = None]
    /\ ref' = [ref EXCEPT ![p] = None]
    /\ gen' = [gen EXCEPT ![p] = 0]
    /\ cancelled' = [cancelled EXCEPT ![p] = FALSE]
    /\ captured' = [captured EXCEPT ![p] = None]
    /\ target' = [target EXCEPT ![p] = None]
    /\ joined' = [joined EXCEPT ![p] = None]
    /\ deletedSince' = [deletedSince EXCEPT ![p] = FALSE]

----------------------------------------------------------------------------
(* acquire                                                                 *)

\* The first ctx.Err() check: nothing was touched.
Abandon(p) ==
    /\ Step(p, "calling", "idle")
    /\ cancelled[p]
    /\ Forget(p)
    /\ UNCHANGED <<gateVars, row, lifecycle>>

\* An address no map entry and no goroutine still points to.
Free(o) ==
    /\ \A d \in DeviceId : entries[d] # o
    /\ \A p \in Proc : ref[p] # o

\* Under g.mu: find or allocate the entry, count this user, read the generation.
Join(p) ==
    LET d == dev[p] IN
    /\ Step(p, "calling", "waiting")
    /\ ~cancelled[p]
    /\ \/ /\ entries[d] # None
          /\ users' = [users EXCEPT ![entries[d]] = @ + 1]
          /\ ref' = [ref EXCEPT ![p] = entries[d]]
          /\ gen' = [gen EXCEPT ![p] = generation[entries[d]]]
          /\ UNCHANGED <<entries, generation, token>>
       \/ /\ entries[d] = None
          /\ \E o \in Op :
               /\ Free(o)
               /\ entries' = [entries EXCEPT ![d] = o]
               /\ users' = [users EXCEPT ![o] = 1]
               /\ generation' = [generation EXCEPT ![o] = 0]
               /\ token' = [token EXCEPT ![o] = FALSE]
               /\ ref' = [ref EXCEPT ![p] = o]
               /\ gen' = [gen EXCEPT ![p] = 0]
    /\ joined' = [joined EXCEPT ![p] = row[d]]
    /\ UNCHANGED <<row, lifecycle, role, dev, cancelled, captured, target,
                   deletedSince>>

\* The send into the one-element channel.  When ctx.Done is ready too, select
\* may still choose this branch.
Admit(p) ==
    /\ Step(p, "waiting", "admitted")
    /\ ~token[ref[p]]
    /\ token' = [token EXCEPT ![ref[p]] = TRUE]
    /\ UNCHANGED <<entries, users, generation, row, lifecycle, role, dev, ref,
                   gen, cancelled, captured, target, history>>

\* The ctx.Done branch: done(held = false).
AbandonWait(p) ==
    /\ Step(p, "waiting", "leaving")
    /\ cancelled[p]
    /\ UNCHANGED <<gateVars, row, lifecycle, role, dev, ref, gen, cancelled,
                   captured, target, history>>

\* After the token: cancellation that raced with admission is refused.
CheckContext(p) ==
    /\ Step(p, "admitted", IF cancelled[p] THEN "draining" ELSE "unfenced")
    /\ UNCHANGED <<gateVars, row, lifecycle, role, dev, ref, gen, cancelled,
                   captured, target, history>>

\* Mutant of CheckGeneration: the stale waiter leaves without giving the token
\* back.
CheckGenerationKeepsToken(p) ==
    /\ Step(p, "unfenced",
            IF generation[ref[p]] # gen[p] THEN "leaving" ELSE "entered")
    /\ UNCHANGED <<gateVars, row, lifecycle, role, dev, ref, gen, cancelled,
                   captured, target, history>>

\* Under g.mu again: the entry's identity boundary moved while p waited.
CheckGeneration(p) ==
    /\ Step(p, "unfenced",
            IF generation[ref[p]] # gen[p] THEN "draining" ELSE "entered")
    /\ UNCHANGED <<gateVars, row, lifecycle, role, dev, ref, gen, cancelled,
                   captured, target, history>>

----------------------------------------------------------------------------
(* The admitted operation.                                                 *)

\* DeviceByID after admission; the apply also compares the MAC with the row it
\* captured before it waited.
Reload(p) ==
    LET found == row[dev[p]]
        refused == found = None \/ (role[p] = "apply" /\ found # captured[p]) IN
    /\ Step(p, "entered", IF refused THEN "draining" ELSE "working")
    /\ target' = [target EXCEPT ![p] = IF refused THEN None ELSE found]
    /\ UNCHANGED <<gateVars, row, lifecycle, role, dev, ref, gen, cancelled,
                   captured, history>>

\* The operation ends, with or without having done its work: release().
Finish(p) ==
    /\ Step(p, "working", "draining")
    /\ UNCHANGED <<gateVars, row, lifecycle, role, dev, ref, gen, cancelled,
                   captured, target, history>>

\* deleteDevice: take telemetryLifecycle and commit the row's deletion.
DeleteRow(p) ==
    /\ Step(p, "working", "deleted")
    /\ role[p] = "unadopt"
    /\ lifecycle = None
    /\ generation[ref[p]] < MaxGeneration
    /\ lifecycle' = p
    /\ row' = [row EXCEPT ![dev[p]] = None]
    /\ deletedSince' = [q \in Proc |->
                          deletedSince[q] \/ (dev[q] = dev[p] /\ pc[q] \in Joined)]
    /\ UNCHANGED <<gateVars, role, dev, ref, gen, cancelled, captured, target,
                   joined>>

\* Mutant of Invalidate: the fence is not moved.
InvalidateNothing(p) ==
    /\ Step(p, "deleted", "invalidated")
    /\ UNCHANGED <<gateVars, row, lifecycle, role, dev, ref, gen, cancelled,
                   captured, target, history>>

\* deleteDevice, after the commit: fence everyone who joined before it.
Invalidate(p) ==
    LET o == entries[dev[p]] IN
    /\ Step(p, "deleted", "invalidated")
    /\ generation' = IF o = None THEN generation
                     ELSE [generation EXCEPT ![o] = @ + 1]
    /\ UNCHANGED <<entries, users, token, row, lifecycle, role, dev, ref, gen,
                   cancelled, captured, target, history>>

\* The purge is over: deleteDevice returns and unlocks telemetryLifecycle.
EndDelete(p) ==
    /\ Step(p, "invalidated", "draining")
    /\ lifecycle' = None
    /\ UNCHANGED <<gateVars, row, role, dev, ref, gen, cancelled, captured,
                   target, history>>

\* Mutant of RegisterDevice: adoption does not wait for telemetryLifecycle.
RegisterUnlocked(d, m) ==
    /\ row[d] = None
    /\ \A e \in DeviceId : row[e] # m
    /\ row' = [row EXCEPT ![d] = m]
    /\ UNCHANGED <<gateVars, lifecycle, pc, role, dev, ref, gen, cancelled,
                   captured, target, history>>

\* registerDevice: adoption inserts a row, outside the gate but under
\* telemetryLifecycle; the new row may take the id of a deleted one.
RegisterDevice(d, m) ==
    /\ lifecycle = None
    /\ row[d] = None
    /\ \A e \in DeviceId : row[e] # m
    /\ row' = [row EXCEPT ![d] = m]
    /\ UNCHANGED <<gateVars, lifecycle, pc, role, dev, ref, gen, cancelled,
                   captured, target, history>>

----------------------------------------------------------------------------
(* done                                                                    *)

\* Receive the element back: blocks on an empty channel.
Drain(p) ==
    /\ Step(p, "draining", "leaving")
    /\ token[ref[p]]
    /\ token' = [token EXCEPT ![ref[p]] = FALSE]
    /\ UNCHANGED <<entries, users, generation, row, lifecycle, role, dev, ref,
                   gen, cancelled, captured, target, history>>

\* Mutant of Dropped: any user that leaves takes the entry out of the map.
DroppedByAnyone(p) == entries[dev[p]] = ref[p]

\* The map entry is dropped by its last user, if it is still this object's.
Dropped(p) == users[ref[p]] = 1 /\ entries[dev[p]] = ref[p]

\* Under g.mu: uncount this user, drop the entry with the last one.  The object
\* the last user leaves is garbage; its memory comes back zeroed.
Leave(p) ==
    /\ Step(p, "leaving", "idle")
    /\ users' = [users EXCEPT ![ref[p]] = @ - 1]
    /\ entries' = IF Dropped(p) THEN [entries EXCEPT ![dev[p]] = None] ELSE entries
    /\ generation' = [generation EXCEPT ![ref[p]] = IF users[ref[p]] = 1 THEN 0 ELSE @]
    /\ Forget(p)
    /\ UNCHANGED <<token, row, lifecycle>>

----------------------------------------------------------------------------

ProcStep(p) ==
    \/ Abandon(p) \/ Join(p) \/ AbandonWait(p) \/ CheckContext(p)
    \/ CheckGeneration(p) \/ Reload(p) \/ Finish(p) \/ DeleteRow(p)
    \/ Invalidate(p) \/ EndDelete(p) \/ Drain(p) \/ Leave(p)

Next ==
    \/ \E p \in Proc :
         \/ \E d \in DeviceId :
              \/ StartApply(p, d)
              \/ \E r \in {"unadopt", "byId"} : StartById(p, d, r)
         \/ Cancel(p)
         \/ Admit(p)
         \/ ProcStep(p)
    \/ \E d \in DeviceId, m \in Mac : RegisterDevice(d, m)

Spec == Init /\ [][Next]_vars

\* Every operation is bounded by a timeout, so it takes its steps; a Go channel
\* serves blocked senders in order, so a waiter is not overtaken for ever.
Fairness == \A p \in Proc : WF_vars(ProcStep(p)) /\ SF_vars(Admit(p))

FairSpec == Spec /\ Fairness

----------------------------------------------------------------------------
(* Properties                                                              *)

\* device_operation.go "serialises destructive operations per device": no two
\* goroutines hold the token for the same device id, across entry removal and
\* re-creation, cancellation and id reuse.
MutualExclusion ==
    \A p, q \in Proc :
        pc[p] \in Holding /\ pc[q] \in Holding /\ dev[p] = dev[q] => p = q

\* The goroutines that hold a pointer to o.
Refs(o) == {p \in Proc : ref[p] = o}

\* invalidate "must not remove the entry": every holder and waiter of an id
\* shares the object the map holds, and its users counter is their number; so
\* the last one out removes it and nothing is left behind per historical id.
EntriesCounted ==
    /\ \A p \in Proc : pc[p] \in Joined => ref[p] = entries[dev[p]]
    /\ \A d \in DeviceId : entries[d] # None =>
         /\ users[entries[d]] = Cardinality(Refs(entries[d]))
         /\ users[entries[d]] > 0

\* adopt.go's fence: an operation that joined while the id named one router
\* never works on the router that later took the id, even if it carried only
\* the id; and the row it works on is not deleted or replaced under it.
WorksOnJoinedRouter ==
    \A p \in Proc : pc[p] = "working" =>
        /\ row[dev[p]] = target[p]
        /\ joined[p] # None => target[p] = joined[p] /\ ~deletedSince[p]
        /\ role[p] = "apply" => target[p] = captured[p]

\* adopt.go: invalidation "makes every waiter that joined before this identity
\* boundary fail", while operations that begin against a later device with the
\* same id get the new generation: once no deletion is in progress, the fence
\* rejects exactly the waiters whose row was deleted since they joined.
FenceExact ==
    \A p \in Proc :
        pc[p] \in {"waiting", "admitted", "unfenced"} /\ lifecycle = None =>
            /\ deletedSince[p] => gen[p] # generation[ref[p]]
            /\ joined[p] # None /\ gen[p] # generation[ref[p]] => deletedSince[p]

\* A goroutine that reached the gate gets out of it: no lost token, no waiter
\* left behind by an entry that was dropped.
EveryWaiterReturns ==
    \A p \in Proc : (pc[p] = "waiting") ~> (pc[p] = "idle")

==============================================================================
