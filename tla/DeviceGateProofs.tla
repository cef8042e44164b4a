-------------------------- MODULE DeviceGateProofs --------------------------
(***************************************************************************)
(* Proofs about DeviceGate for every set of goroutines, device ids, MACs   *)
(* and addresses: the gate excludes, counts and fences.                    *)
(***************************************************************************)
EXTENDS DeviceGate, RecoveryJobs, FiniteSetTheorems, TLAPS

\* Who references which object, and what an operation knows at each point.
RefInv ==
    \A p \in Proc :
        /\ pc[p] \in Joined => dev[p] \in DeviceId /\ ref[p] \in Op
                                 /\ entries[dev[p]] = ref[p]
        /\ pc[p] \notin Joined => ref[p] = None
        /\ pc[p] # "idle" => dev[p] \in DeviceId

\* Two ids never share an object; an object's users are its references, and an
\* object in the map has one.
CountInv ==
    /\ \A d, e \in DeviceId : entries[d] = entries[e] /\ entries[d] # None => d = e
    /\ \A d \in DeviceId : entries[d] # None =>
         users[entries[d]] = Cardinality(Refs(entries[d])) /\ users[entries[d]] > 0

\* The channel is full while someone holds it, and one goroutine at most does.
TokenInv ==
    /\ \A p \in Proc : pc[p] \in Holding => token[ref[p]]
    /\ \A p, q \in Proc :
         pc[p] \in Holding /\ pc[q] \in Holding /\ ref[p] = ref[q] => p = q

\* telemetryLifecycle is held exactly through a deletion, whose row is gone
\* and whose entry has room for one more generation.
DeleteInv ==
    \A p \in Proc :
        /\ pc[p] \in {"deleted", "invalidated"} <=> lifecycle = p
        /\ pc[p] \in {"deleted", "invalidated"} => row[dev[p]] = None
        /\ pc[p] = "deleted" => generation[ref[p]] < MaxGeneration

Pending(d) == \E q \in Proc : pc[q] = "deleted" /\ dev[q] = d

\* A waiter's generation is behind exactly when its row was deleted, except
\* between the commit of a deletion and its invalidation.
FenceInv ==
    \A p \in Proc :
        /\ pc[p] \in {"waiting", "admitted", "unfenced"} =>
             /\ gen[p] <= generation[ref[p]]
             /\ deletedSince[p] => Pending(dev[p]) \/ gen[p] < generation[ref[p]]
             /\ joined[p] # None /\ ~deletedSince[p] => gen[p] = generation[ref[p]]
        /\ pc[p] \in Joined /\ joined[p] # None /\ ~deletedSince[p] =>
             row[dev[p]] = joined[p]
        /\ pc[p] \in {"entered", "working"} => ~deletedSince[p]
        /\ pc[p] \notin Joined => ~deletedSince[p]

WorkInv ==
    \A p \in Proc : pc[p] = "working" =>
        /\ target[p] \in Mac
        /\ row[dev[p]] = target[p]
        /\ role[p] = "apply" => target[p] = captured[p]

IndInv == TypeOK /\ RefInv /\ CountInv /\ TokenInv /\ DeleteInv /\ FenceInv /\ WorkInv

\* The references to an object are a finite set of goroutines.
LEMMA RefsFinite ==
    ASSUME NEW o
    PROVE  IsFiniteSet(Refs(o)) /\ Cardinality(Refs(o)) \in Nat
  BY GateConstants, FS_Subset, FS_CardinalityType DEF Refs

\* The only user of an object is its only reference.
LEMMA LastUser ==
    ASSUME IndInv, NEW p \in Proc, pc[p] \in Joined
    PROVE  /\ users[ref[p]] = Cardinality(Refs(ref[p]))
           /\ users[ref[p]] = 1 <=> Refs(ref[p]) = {p}
<1>1. p \in Refs(ref[p])
  BY DEF Refs
<1>2. users[ref[p]] = Cardinality(Refs(ref[p]))
  BY GateConstants DEF IndInv, RefInv, CountInv
<1>3. Cardinality(Refs(ref[p])) = 1 <=> Refs(ref[p]) = {p}
  BY <1>1, RefsFinite, FS_Singleton
<1> QED  BY <1>2, <1>3

\* A step that leaves the map, the counters and the pointers alone.
LEMMA CountFrame ==
    ASSUME CountInv, entries' = entries, users' = users, ref' = ref
    PROVE  CountInv'
  BY DEF CountInv, Refs

\* StartApply preserves the inductive invariant.
LEMMA StartApplyStep ==
    ASSUME IndInv, NEW p \in Proc, NEW d \in DeviceId, StartApply(p, d)
    PROVE  IndInv'
<1> USE DEF IndInv, StartApply, Step, gateVars, history
<1>1. TypeOK'
  BY DEF TypeOK, States, Joined, Holding
<1>2. RefInv'
  BY DEF TypeOK, RefInv, States, Joined, Holding
<1>3. CountInv'
  BY CountFrame
<1>4. TokenInv'
  BY DEF TypeOK, TokenInv, States, Joined, Holding
<1>5. DeleteInv'
  BY DEF TypeOK, DeleteInv, States, Joined, Holding
<1>6. FenceInv'
  BY DEF TypeOK, FenceInv, Pending, States, Joined, Holding
<1>7. WorkInv'
  BY DEF TypeOK, WorkInv, States, Joined, Holding
<1> QED  BY <1>1, <1>2, <1>3, <1>4, <1>5, <1>6, <1>7

\* StartById preserves the inductive invariant.
LEMMA StartByIdStep ==
    ASSUME IndInv, NEW p \in Proc, NEW d \in DeviceId, NEW r \in {"unadopt", "byId"}, StartById(p, d, r)
    PROVE  IndInv'
<1> USE DEF IndInv, StartById, Step, gateVars, history
<1>1. TypeOK'
  BY DEF TypeOK, States, Joined, Holding
<1>2. RefInv'
  BY DEF TypeOK, RefInv, States, Joined, Holding
<1>3. CountInv'
  BY CountFrame
<1>4. TokenInv'
  BY DEF TypeOK, TokenInv, States, Joined, Holding
<1>5. DeleteInv'
  BY DEF TypeOK, DeleteInv, States, Joined, Holding
<1>6. FenceInv'
  BY DEF TypeOK, FenceInv, Pending, States, Joined, Holding
<1>7. WorkInv'
  BY DEF TypeOK, WorkInv, States, Joined, Holding
<1> QED  BY <1>1, <1>2, <1>3, <1>4, <1>5, <1>6, <1>7

\* Cancel preserves the inductive invariant.
LEMMA CancelStep ==
    ASSUME IndInv, NEW p \in Proc, Cancel(p)
    PROVE  IndInv'
<1> USE DEF IndInv, Cancel, gateVars, history
<1>1. TypeOK'
  BY DEF TypeOK, States, Joined, Holding
<1>2. RefInv'
  BY DEF TypeOK, RefInv, States, Joined, Holding
<1>3. CountInv'
  BY CountFrame
<1>4. TokenInv'
  BY DEF TypeOK, TokenInv, States, Joined, Holding
<1>5. DeleteInv'
  BY DEF TypeOK, DeleteInv, States, Joined, Holding
<1>6. FenceInv'
  BY DEF TypeOK, FenceInv, Pending, States, Joined, Holding
<1>7. WorkInv'
  BY DEF TypeOK, WorkInv, States, Joined, Holding
<1> QED  BY <1>1, <1>2, <1>3, <1>4, <1>5, <1>6, <1>7

\* Admit preserves the inductive invariant.
LEMMA AdmitStep ==
    ASSUME IndInv, NEW p \in Proc, Admit(p)
    PROVE  IndInv'
<1> USE DEF IndInv, Admit, Step, gateVars, history
<1>1. TypeOK'
  BY DEF TypeOK, States, Joined, Holding
<1>2. RefInv'
  BY DEF TypeOK, RefInv, States, Joined, Holding
<1>3. CountInv'
  BY CountFrame
<1>4. TokenInv'
  BY DEF TypeOK, TokenInv, RefInv, States, Joined, Holding
<1>5. DeleteInv'
  BY DEF TypeOK, DeleteInv, States, Joined, Holding
<1>6. FenceInv'
  BY DEF TypeOK, FenceInv, Pending, States, Joined, Holding
<1>7. WorkInv'
  BY DEF TypeOK, WorkInv, States, Joined, Holding
<1> QED  BY <1>1, <1>2, <1>3, <1>4, <1>5, <1>6, <1>7

\* Abandon preserves the inductive invariant.
LEMMA AbandonStep ==
    ASSUME IndInv, NEW p \in Proc, Abandon(p)
    PROVE  IndInv'
<1> USE DEF IndInv, Abandon, Step, gateVars, history, Forget
<1>1. TypeOK'
  BY GateConstants DEF TypeOK, States, Joined, Holding
<1>2. RefInv'
  BY DEF TypeOK, RefInv, States, Joined, Holding
<1>3. CountInv'
  <2>1. ref' = ref
    BY DEF TypeOK, RefInv, Joined, Holding
  <2> QED  BY <2>1, CountFrame
<1>4. TokenInv'
  BY DEF TypeOK, TokenInv, States, Joined, Holding
<1>5. DeleteInv'
  BY DEF TypeOK, DeleteInv, States, Joined, Holding
<1>6. FenceInv'
  BY DEF TypeOK, FenceInv, Pending, States, Joined, Holding
<1>7. WorkInv'
  BY DEF TypeOK, WorkInv, States, Joined, Holding
<1> QED  BY <1>1, <1>2, <1>3, <1>4, <1>5, <1>6, <1>7

\* Join preserves the inductive invariant.
LEMMA JoinStep ==
    ASSUME IndInv, NEW p \in Proc, Join(p)
    PROVE  IndInv'
<1> USE DEF IndInv, Join, Step, Free
<1>1. TypeOK'
  <2>0. dev[p] \in DeviceId
    BY DEF RefInv
  <2>1. CASE entries[dev[p]] # None
    BY <2>0, <2>1 DEF TypeOK, States, Joined
  <2>2. CASE entries[dev[p]] = None
    <3>1. PICK o \in Op :
            /\ entries' = [entries EXCEPT ![dev[p]] = o]
            /\ users' = [users EXCEPT ![o] = 1]
            /\ generation' = [generation EXCEPT ![o] = 0]
            /\ token' = [token EXCEPT ![o] = FALSE]
            /\ ref' = [ref EXCEPT ![p] = o]
            /\ gen' = [gen EXCEPT ![p] = 0]
      BY <2>2
    <3>2. 0 \in 0..MaxGeneration
      BY GateConstants
    <3>3. pc' \in [Proc -> States] /\ joined' \in [Proc -> Mac \cup {None}]
      BY <2>0 DEF TypeOK, States, Joined
    <3>4. UNCHANGED <<row, lifecycle, role, dev, cancelled, captured, target,
                      deletedSince>>
      OBVIOUS
    <3> HIDE DEF Join
    <3>5. /\ entries' \in [DeviceId -> Op \cup {None}]
          /\ ref' \in [Proc -> Op \cup {None}]
      BY <3>1 DEF TypeOK
    <3>6. users' \in [Op -> Int]
      BY <3>1 DEF TypeOK
    <3>7. /\ generation' \in [Op -> 0..MaxGeneration]
          /\ gen' \in [Proc -> 0..MaxGeneration]
      BY <3>1, <3>2 DEF TypeOK
    <3>8. token' \in [Op -> BOOLEAN]
      BY <3>1 DEF TypeOK
    <3> QED  BY <3>3, <3>4, <3>5, <3>6, <3>7, <3>8 DEF TypeOK
  <2> QED  BY <2>1, <2>2
<1>2. RefInv'
  BY GateConstants DEF TypeOK, RefInv, States, Joined, Holding
<1>3. CountInv'
  <2> DEFINE d == dev[p]
             refsAfter(o) == {q \in Proc : ref'[q] = o}
  <2>0. d \in DeviceId /\ ref[p] = None /\ None \notin Op
    BY GateConstants DEF RefInv, Joined, Holding
  <2>1. CASE entries[d] # None
    <3>1. /\ entries' = entries /\ entries[d] \in Op
          /\ users' = [users EXCEPT ![entries[d]] = @ + 1]
          /\ ref' = [ref EXCEPT ![p] = entries[d]]
      BY <2>0, <2>1 DEF TypeOK
    <3>2. refsAfter(entries[d]) = Refs(entries[d]) \cup {p} /\ p \notin Refs(entries[d])
      BY <2>0, <3>1 DEF TypeOK, Refs
    <3>3. /\ Cardinality(refsAfter(entries[d])) = Cardinality(Refs(entries[d])) + 1
          /\ Cardinality(Refs(entries[d])) \in Nat
      BY <3>2, RefsFinite, FS_AddElement
    <3>4. /\ users'[entries[d]] = Cardinality(refsAfter(entries[d]))
          /\ users'[entries[d]] > 0
      BY <2>0, <2>1, <3>1, <3>3 DEF TypeOK, CountInv
    <3>5. ASSUME NEW e \in DeviceId, e # d, entries[e] # None
          PROVE  /\ users'[entries[e]] = Cardinality(refsAfter(entries[e]))
                 /\ users'[entries[e]] > 0
      <4>1. entries[e] # entries[d] /\ entries[e] \in Op
        BY <2>0, <3>5 DEF CountInv, TypeOK
      <4>2. refsAfter(entries[e]) = Refs(entries[e])
        BY <2>0, <3>1, <3>5, <4>1 DEF TypeOK, Refs
      <4>3. users'[entries[e]] = users[entries[e]]
        BY <3>1, <4>1 DEF TypeOK
      <4> QED  BY <3>5, <4>2, <4>3 DEF CountInv
    <3>6. ASSUME NEW e \in DeviceId, entries'[e] # None
          PROVE  /\ users'[entries'[e]] = Cardinality(refsAfter(entries'[e]))
                 /\ users'[entries'[e]] > 0
      <4>1. CASE e = d
        BY <3>1, <3>4, <4>1
      <4>2. CASE e # d
        BY <3>1, <3>5, <3>6, <4>2
      <4> QED  BY <4>1, <4>2
    <3> QED  BY <3>1, <3>6 DEF CountInv, Refs
  <2>2. CASE entries[d] = None
    <3>1. PICK o \in Op :
            /\ Free(o)
            /\ entries' = [entries EXCEPT ![d] = o]
            /\ users' = [users EXCEPT ![o] = 1]
            /\ ref' = [ref EXCEPT ![p] = o]
      BY <2>2
    <3>2. refsAfter(o) = {p}
      BY <2>0, <3>1 DEF TypeOK, Refs
    <3>3. Cardinality({p}) = 1
      BY FS_Singleton
    <3>4. users'[o] = 1
      BY <3>1 DEF TypeOK
    <3>a. users'[o] = Cardinality(refsAfter(o)) /\ users'[o] > 0
      <4> HIDE DEF Join, Step
      <4> QED  BY <3>2, <3>3, <3>4
    <3>5. entries'[d] = o /\ \A e \in DeviceId : e # d => entries'[e] = entries[e] /\ entries[e] # o
      BY <2>0, <3>1 DEF TypeOK
    <3>6. ASSUME NEW e \in DeviceId, e # d, entries[e] # None
          PROVE  /\ users'[entries[e]] = Cardinality(refsAfter(entries[e]))
                 /\ users'[entries[e]] > 0
      <4>1. refsAfter(entries[e]) = Refs(entries[e])
        BY <2>0, <3>1, <3>5, <3>6 DEF TypeOK, Refs
      <4>2. users'[entries[e]] = users[entries[e]]
        BY <3>1, <3>5, <3>6 DEF TypeOK
      <4> QED  BY <3>6, <4>1, <4>2 DEF CountInv
    <3>7. ASSUME NEW e \in DeviceId, entries'[e] # None
          PROVE  /\ users'[entries'[e]] = Cardinality(refsAfter(entries'[e]))
                 /\ users'[entries'[e]] > 0
      <4>1. CASE e = d
        BY <3>a, <3>5, <4>1
      <4>2. CASE e # d
        BY <3>5, <3>6, <3>7, <4>2
      <4> QED  BY <4>1, <4>2
    <3>8. \A e, f \in DeviceId : entries'[e] = entries'[f] /\ entries'[e] # None => e = f
      BY <3>5 DEF CountInv
    <3> QED  BY <3>7, <3>8 DEF CountInv, Refs
  <2> QED  BY <2>1, <2>2
<1>4. TokenInv'
  BY DEF TypeOK, TokenInv, RefInv, States, Joined, Holding
<1>5. DeleteInv'
  BY DEF TypeOK, DeleteInv, RefInv, States, Joined, Holding
<1>6. FenceInv'
  BY DEF TypeOK, FenceInv, RefInv, Pending, States, Joined, Holding
<1>7. WorkInv'
  BY DEF TypeOK, WorkInv, States, Joined, Holding
<1> QED  BY <1>1, <1>2, <1>3, <1>4, <1>5, <1>6, <1>7

\* AbandonWait preserves the inductive invariant.
LEMMA AbandonWaitStep ==
    ASSUME IndInv, NEW p \in Proc, AbandonWait(p)
    PROVE  IndInv'
<1> USE DEF IndInv, AbandonWait, Step, gateVars, history
<1>1. TypeOK'
  BY DEF TypeOK, States, Joined, Holding
<1>2. RefInv'
  BY DEF TypeOK, RefInv, States, Joined, Holding
<1>3. CountInv'
  BY CountFrame
<1>4. TokenInv'
  BY DEF TypeOK, TokenInv, States, Joined, Holding
<1>5. DeleteInv'
  BY DEF TypeOK, DeleteInv, States, Joined, Holding
<1>6. FenceInv'
  BY DEF TypeOK, FenceInv, Pending, States, Joined, Holding
<1>7. WorkInv'
  BY DEF TypeOK, WorkInv, States, Joined, Holding
<1> QED  BY <1>1, <1>2, <1>3, <1>4, <1>5, <1>6, <1>7

\* CheckContext preserves the inductive invariant.
LEMMA CheckContextStep ==
    ASSUME IndInv, NEW p \in Proc, CheckContext(p)
    PROVE  IndInv'
<1> USE DEF IndInv, CheckContext, Step, gateVars, history
<1>1. TypeOK'
  BY DEF TypeOK, States, Joined, Holding
<1>2. RefInv'
  BY DEF TypeOK, RefInv, States, Joined, Holding
<1>3. CountInv'
  BY CountFrame
<1>4. TokenInv'
  BY DEF TypeOK, TokenInv, States, Joined, Holding
<1>5. DeleteInv'
  BY DEF TypeOK, DeleteInv, States, Joined, Holding
<1>6. FenceInv'
  BY DEF TypeOK, FenceInv, Pending, States, Joined, Holding
<1>7. WorkInv'
  BY DEF TypeOK, WorkInv, States, Joined, Holding
<1> QED  BY <1>1, <1>2, <1>3, <1>4, <1>5, <1>6, <1>7

\* CheckGeneration preserves the inductive invariant.
LEMMA CheckGenerationStep ==
    ASSUME IndInv, NEW p \in Proc, CheckGeneration(p)
    PROVE  IndInv'
<1> USE DEF IndInv, CheckGeneration, Step, gateVars, history
<1>1. TypeOK'
  BY DEF TypeOK, States, Joined, Holding
<1>2. RefInv'
  BY DEF TypeOK, RefInv, States, Joined, Holding
<1>3. CountInv'
  BY CountFrame
<1>4. TokenInv'
  BY DEF TypeOK, TokenInv, States, Joined, Holding
<1>5. DeleteInv'
  BY DEF TypeOK, DeleteInv, States, Joined, Holding
<1>6. FenceInv'
  BY DEF TypeOK, FenceInv, RefInv, TokenInv, Pending, States, Joined, Holding
<1>7. WorkInv'
  BY DEF TypeOK, WorkInv, States, Joined, Holding
<1> QED  BY <1>1, <1>2, <1>3, <1>4, <1>5, <1>6, <1>7

\* Reload preserves the inductive invariant.
LEMMA ReloadStep ==
    ASSUME IndInv, NEW p \in Proc, Reload(p)
    PROVE  IndInv'
<1> USE DEF IndInv, Reload, Step, gateVars, history
<1>1. TypeOK'
  BY DEF TypeOK, RefInv, States, Joined, Holding
<1>2. RefInv'
  BY DEF TypeOK, RefInv, States, Joined, Holding
<1>3. CountInv'
  BY CountFrame
<1>4. TokenInv'
  BY DEF TypeOK, TokenInv, States, Joined, Holding
<1>5. DeleteInv'
  BY DEF TypeOK, DeleteInv, States, Joined, Holding
<1>6. FenceInv'
  BY DEF TypeOK, FenceInv, Pending, States, Joined, Holding
<1>7. WorkInv'
  BY DEF TypeOK, WorkInv, RefInv, States, Joined, Holding
<1> QED  BY <1>1, <1>2, <1>3, <1>4, <1>5, <1>6, <1>7

\* Finish preserves the inductive invariant.
LEMMA FinishStep ==
    ASSUME IndInv, NEW p \in Proc, Finish(p)
    PROVE  IndInv'
<1> USE DEF IndInv, Finish, Step, gateVars, history
<1>1. TypeOK'
  BY DEF TypeOK, States, Joined, Holding
<1>2. RefInv'
  BY DEF TypeOK, RefInv, States, Joined, Holding
<1>3. CountInv'
  BY CountFrame
<1>4. TokenInv'
  BY DEF TypeOK, TokenInv, States, Joined, Holding
<1>5. DeleteInv'
  BY DEF TypeOK, DeleteInv, States, Joined, Holding
<1>6. FenceInv'
  BY DEF TypeOK, FenceInv, Pending, States, Joined, Holding
<1>7. WorkInv'
  BY DEF TypeOK, WorkInv, States, Joined, Holding
<1> QED  BY <1>1, <1>2, <1>3, <1>4, <1>5, <1>6, <1>7

\* DeleteRow preserves the inductive invariant.
LEMMA DeleteRowStep ==
    ASSUME IndInv, NEW p \in Proc, DeleteRow(p)
    PROVE  IndInv'
<1> USE DEF IndInv, DeleteRow, Step, gateVars, history
<1>1. TypeOK'
  BY DEF TypeOK, States, Joined, Holding
<1>2. RefInv'
  BY DEF TypeOK, RefInv, States, Joined, Holding
<1>3. CountInv'
  BY CountFrame
<1>4. TokenInv'
  BY DEF TypeOK, TokenInv, States, Joined, Holding
<1>5. DeleteInv'
  BY GateConstants DEF TypeOK, DeleteInv, RefInv, States, Joined, Holding
<1>6. FenceInv'
  BY DEF TypeOK, FenceInv, RefInv, TokenInv, Pending, States, Joined, Holding
<1>7. WorkInv'
  BY DEF TypeOK, WorkInv, RefInv, TokenInv, States, Joined, Holding
<1> QED  BY <1>1, <1>2, <1>3, <1>4, <1>5, <1>6, <1>7

\* Invalidate preserves the inductive invariant.
LEMMA InvalidateStep ==
    ASSUME IndInv, NEW p \in Proc, Invalidate(p)
    PROVE  IndInv'
<1> USE DEF IndInv, Invalidate, Step, gateVars, history
<1>1. TypeOK'
  BY GateConstants DEF TypeOK, RefInv, TokenInv, DeleteInv, States, Joined, Holding
<1>2. RefInv'
  BY DEF TypeOK, RefInv, States, Joined, Holding
<1>3. CountInv'
  BY CountFrame
<1>4. TokenInv'
  BY DEF TypeOK, TokenInv, States, Joined, Holding
<1>5. DeleteInv'
  BY DEF TypeOK, DeleteInv, States, Joined, Holding
<1>6. FenceInv'
  BY GateConstants DEF TypeOK, FenceInv, RefInv, TokenInv, DeleteInv, CountInv, Pending, Refs, States, Joined, Holding
<1>7. WorkInv'
  BY DEF TypeOK, WorkInv, States, Joined, Holding
<1> QED  BY <1>1, <1>2, <1>3, <1>4, <1>5, <1>6, <1>7

\* EndDelete preserves the inductive invariant.
LEMMA EndDeleteStep ==
    ASSUME IndInv, NEW p \in Proc, EndDelete(p)
    PROVE  IndInv'
<1> USE DEF IndInv, EndDelete, Step, gateVars, history
<1>1. TypeOK'
  BY DEF TypeOK, States, Joined, Holding
<1>2. RefInv'
  BY DEF TypeOK, RefInv, States, Joined, Holding
<1>3. CountInv'
  BY CountFrame
<1>4. TokenInv'
  BY DEF TypeOK, TokenInv, States, Joined, Holding
<1>5. DeleteInv'
  BY GateConstants DEF TypeOK, DeleteInv, States, Joined, Holding
<1>6. FenceInv'
  BY DEF TypeOK, FenceInv, Pending, States, Joined, Holding
<1>7. WorkInv'
  BY DEF TypeOK, WorkInv, States, Joined, Holding
<1> QED  BY <1>1, <1>2, <1>3, <1>4, <1>5, <1>6, <1>7

\* Drain preserves the inductive invariant.
LEMMA DrainStep ==
    ASSUME IndInv, NEW p \in Proc, Drain(p)
    PROVE  IndInv'
<1> USE DEF IndInv, Drain, Step, gateVars, history
<1>1. TypeOK'
  BY DEF TypeOK, States, Joined, Holding
<1>2. RefInv'
  BY DEF TypeOK, RefInv, States, Joined, Holding
<1>3. CountInv'
  BY CountFrame
<1>4. TokenInv'
  BY DEF TypeOK, TokenInv, States, Joined, Holding
<1>5. DeleteInv'
  BY DEF TypeOK, DeleteInv, States, Joined, Holding
<1>6. FenceInv'
  BY DEF TypeOK, FenceInv, Pending, States, Joined, Holding
<1>7. WorkInv'
  BY DEF TypeOK, WorkInv, States, Joined, Holding
<1> QED  BY <1>1, <1>2, <1>3, <1>4, <1>5, <1>6, <1>7

\* Leave preserves the inductive invariant.
LEMMA LeaveStep ==
    ASSUME IndInv, NEW p \in Proc, Leave(p)
    PROVE  IndInv'
<1> USE DEF IndInv, Leave, Step, Forget, Dropped
<1>0. /\ users[ref[p]] = Cardinality(Refs(ref[p]))
      /\ users[ref[p]] = 1 <=> Refs(ref[p]) = {p}
  BY LastUser DEF Joined
<1>1. TypeOK'
  BY GateConstants DEF TypeOK, RefInv, States, Joined, Holding
<1>2. RefInv'
  <2>1. \A q \in Proc : q # p /\ pc[q] \in Joined /\ Dropped(p) => dev[q] # dev[p]
    BY <1>0 DEF RefInv, Refs
  <2> QED  BY <2>1 DEF TypeOK, RefInv, States, Joined, Holding
<1>3. CountInv'
  <2> DEFINE refsAfter(o) == {q \in Proc : ref'[q] = o}
  <2>1. /\ dev[p] \in DeviceId /\ ref[p] \in Op /\ entries[dev[p]] = ref[p]
        /\ None \notin Op
    BY GateConstants DEF RefInv, Joined
  <2>2. refsAfter(ref[p]) = Refs(ref[p]) \ {p} /\ p \in Refs(ref[p])
    BY <2>1 DEF TypeOK, Refs
  <2>3. Cardinality(refsAfter(ref[p])) = Cardinality(Refs(ref[p])) - 1
    BY <2>2, RefsFinite, FS_RemoveElement
  <2>4. users'[ref[p]] = users[ref[p]] - 1
    BY <2>1 DEF TypeOK
  <2>5. ASSUME NEW o \in Op, o # ref[p]
        PROVE  users'[o] = users[o] /\ refsAfter(o) = Refs(o)
    BY <2>1, <2>5 DEF TypeOK, Refs
  <2>6. \A e \in DeviceId : entries'[e] # None =>
            /\ entries'[e] = entries[e] /\ entries[e] \in Op
            /\ entries[e] = ref[p] => users[ref[p]] # 1
    BY <2>1 DEF TypeOK, CountInv
  <2>7. ASSUME NEW e \in DeviceId, entries'[e] # None
        PROVE  /\ users'[entries'[e]] = Cardinality(refsAfter(entries'[e]))
               /\ users'[entries'[e]] > 0
    <3>1. CASE entries[e] = ref[p]
      <4>1. users[ref[p]] \in Int /\ users[ref[p]] > 0 /\ users[ref[p]] # 1
        BY <2>1, <2>6, <2>7, <3>1 DEF TypeOK, CountInv
      <4>2. entries'[e] = ref[p]
        BY <2>6, <2>7, <3>1
      <4>3. users'[ref[p]] = Cardinality(refsAfter(ref[p])) /\ users'[ref[p]] > 0
        <5> HIDE DEF Leave, Step, Forget, Dropped, refsAfter
        <5> QED  BY <1>0, <2>3, <2>4, <4>1
      <4> QED  BY <4>2, <4>3
    <3>2. CASE entries[e] # ref[p]
      <4>1. entries'[e] = entries[e] /\ entries[e] \in Op
        BY <2>6, <2>7
      <4>2. /\ users[entries[e]] = Cardinality(Refs(entries[e]))
            /\ users[entries[e]] > 0
        BY <2>7, <4>1 DEF CountInv
      <4>3. /\ users'[entries[e]] = users[entries[e]]
            /\ refsAfter(entries[e]) = Refs(entries[e])
        BY <2>5, <3>2, <4>1
      <4> QED  BY <4>1, <4>2, <4>3
    <3> QED  BY <3>1, <3>2
  <2> QED  BY <2>6, <2>7 DEF CountInv, Refs
<1>4. TokenInv'
  BY DEF TypeOK, TokenInv, States, Joined, Holding
<1>5. DeleteInv'
  BY GateConstants DEF TypeOK, DeleteInv, States, Joined, Holding
<1>6. FenceInv'
  <2>1. \A q \in Proc : q # p /\ pc[q] \in Joined =>
            ref[q] \in Op /\ generation'[ref[q]] = generation[ref[q]]
    BY <1>0 DEF TypeOK, RefInv, Refs
  <2>2. /\ pc' = [pc EXCEPT ![p] = "idle"] /\ pc[p] = "leaving"
        /\ \A q \in Proc : q # p => /\ dev'[q] = dev[q] /\ ref'[q] = ref[q]
                                     /\ gen'[q] = gen[q] /\ joined'[q] = joined[q]
                                     /\ deletedSince'[q] = deletedSince[q]
        /\ ~deletedSince'[p] /\ row' = row
    BY DEF TypeOK
  <2>3. \A q \in Proc : pc'[q] = IF q = p THEN "idle" ELSE pc[q]
    BY <2>2 DEF TypeOK
  <2>4. \A q \in Proc : q # p => (Pending(dev[q]) => Pending(dev[q])')
    BY <2>2, <2>3 DEF Pending
  <2> HIDE DEF Leave, Step, Forget, Dropped, Pending
  <2> QED  BY <2>1, <2>2, <2>3, <2>4 DEF FenceInv, Joined, Holding
<1>7. WorkInv'
  BY DEF TypeOK, WorkInv, States, Joined, Holding
<1> QED  BY <1>1, <1>2, <1>3, <1>4, <1>5, <1>6, <1>7

\* RegisterDevice preserves the inductive invariant.
LEMMA RegisterDeviceStep ==
    ASSUME IndInv, NEW d \in DeviceId, NEW m \in Mac, RegisterDevice(d, m)
    PROVE  IndInv'
<1> USE DEF IndInv, RegisterDevice, gateVars, history
<1>1. TypeOK'
  BY DEF TypeOK, States, Joined, Holding
<1>2. RefInv'
  BY DEF TypeOK, RefInv, States, Joined, Holding
<1>3. CountInv'
  BY CountFrame
<1>4. TokenInv'
  BY DEF TypeOK, TokenInv, States, Joined, Holding
<1>5. DeleteInv'
  BY GateConstants DEF TypeOK, DeleteInv, States, Joined, Holding
<1>6. FenceInv'
  BY DEF TypeOK, FenceInv, Pending, States, Joined, Holding
<1>7. WorkInv'
  BY GateConstants DEF TypeOK, WorkInv, States, Joined, Holding
<1> QED  BY <1>1, <1>2, <1>3, <1>4, <1>5, <1>6, <1>7

\* The invariant is inductive.
LEMMA IndInvStep ==
    ASSUME IndInv, [Next]_vars
    PROVE  IndInv'
<1>1. CASE UNCHANGED vars
  BY <1>1 DEF vars, gateVars, history, IndInv, TypeOK, RefInv, CountInv, Refs,
     TokenInv, DeleteInv, FenceInv, Pending, WorkInv
<1>2. ASSUME NEW p \in Proc, NEW d \in DeviceId, StartApply(p, d)
      PROVE  IndInv'
  BY <1>2, StartApplyStep
<1>3. ASSUME NEW p \in Proc, NEW d \in DeviceId, NEW r \in {"unadopt", "byId"},
             StartById(p, d, r)
      PROVE  IndInv'
  BY <1>3, StartByIdStep
<1>4. ASSUME NEW p \in Proc, Cancel(p) \/ Admit(p)
      PROVE  IndInv'
  BY <1>4, CancelStep, AdmitStep
<1>5. ASSUME NEW p \in Proc, ProcStep(p)
      PROVE  IndInv'
  BY <1>5, AbandonStep, JoinStep, AbandonWaitStep, CheckContextStep,
     CheckGenerationStep, ReloadStep, FinishStep, DeleteRowStep, InvalidateStep,
     EndDeleteStep, DrainStep, LeaveStep DEF ProcStep
<1>6. ASSUME NEW d \in DeviceId, NEW m \in Mac, RegisterDevice(d, m)
      PROVE  IndInv'
  BY <1>6, RegisterDeviceStep
<1> QED  BY <1>1, <1>2, <1>3, <1>4, <1>5, <1>6 DEF Next

\* The invariant holds initially.
LEMMA IndInvInit == Init => IndInv
<1> SUFFICES ASSUME Init PROVE IndInv
  OBVIOUS
<1>1. TypeOK
  BY GateConstants DEF Init, TypeOK, States
<1>2. RefInv /\ CountInv /\ TokenInv /\ DeleteInv /\ FenceInv /\ WorkInv
  BY GateConstants DEF Init, RefInv, CountInv, TokenInv, DeleteInv, FenceInv,
     WorkInv, Joined, Holding
<1> QED  BY <1>1, <1>2 DEF IndInv

\* The invariant holds in every reachable state.
LEMMA IndInvAlways == Spec => []IndInv
  BY IndInvInit, IndInvStep, PTL DEF Spec

\* What the goroutines know about the gate is always well typed: in particular
\* a goroutine past Join never dereferences a nil entry.
THEOREM GateTypeCorrect == Spec => []TypeOK
<1>1. IndInv => TypeOK
  BY DEF IndInv
<1> QED  BY <1>1, IndInvAlways, PTL

\* deviceOperationGate.acquire admits one operation per device id at a time,
\* for any number of goroutines, ids and cancellations.
THEOREM GateExcludes == Spec => []MutualExclusion
<1>1. IndInv => MutualExclusion
  BY DEF IndInv, MutualExclusion, RefInv, TokenInv, Joined
<1> QED  BY <1>1, IndInvAlways, PTL

\* The map entry is the one object every user of the id references, users is
\* their number, and no entry outlives its last user.
THEOREM GateCounts == Spec => []EntriesCounted
<1>1. IndInv => EntriesCounted
  BY DEF IndInv, EntriesCounted, RefInv, CountInv
<1> QED  BY <1>1, IndInvAlways, PTL

\* An operation that joined the gate for one router never works on the router
\* that took over its id, and no row changes under a working operation.
THEOREM GateFences == Spec => []WorksOnJoinedRouter
<1>1. IndInv => WorksOnJoinedRouter
  BY DEF IndInv, WorksOnJoinedRouter, WorkInv, FenceInv, Joined, Holding
<1> QED  BY <1>1, IndInvAlways, PTL

\* The generation fence rejects the waiters whose row was deleted and no other.
THEOREM GateFenceExact == Spec => []FenceExact
<1>1. ASSUME IndInv PROVE FenceExact
  <2>1. ASSUME lifecycle = None
        PROVE  \A d : ~Pending(d)
    BY <1>1, <2>1, GateConstants DEF IndInv, DeleteInv, Pending
  <2>2. ASSUME NEW p \in Proc, pc[p] \in {"waiting", "admitted", "unfenced"},
               lifecycle = None
        PROVE  /\ deletedSince[p] => gen[p] # generation[ref[p]]
               /\ joined[p] # None /\ gen[p] # generation[ref[p]] => deletedSince[p]
    <3>1. gen[p] \in Int /\ generation[ref[p]] \in Int
      BY <1>1, <2>2 DEF IndInv, TypeOK, RefInv, Joined, Holding
    <3> QED  BY <1>1, <2>1, <2>2, <3>1 DEF IndInv, FenceInv
  <2> QED  BY <2>2 DEF FenceExact
<1> QED  BY <1>1, IndInvAlways, PTL

-----------------------------------------------------------------------------
(***************************************************************************)
(* RecoveryJobs for any jobs, uploads and previews, every failure of a     *)
(* removal, cancellation, close and crash. FilesNamed keeps names a start- *)
(* up does not know off the disk; BackupInv and RestoreInv say whose each  *)
(* file is at every step of a worker, so that a file whose owner is done   *)
(* has been removed or published.                                          *)
(***************************************************************************)

\* The elements of a picked subsequence are those at the indices picked.
LEMMA PickedFacts ==
    ASSUME NEW D, NEW s \in Seq(D), NEW K, K \subseteq DOMAIN s
    PROVE  /\ Picked(s, K) \in Seq(D)
           /\ \A x : x \in ToSet(Picked(s, K)) <=> \E i \in K : x = s[i]
<1>1. IsFiniteSet(K) /\ K \subseteq Nat
  <2>1. DOMAIN s = 1 .. Len(s) /\ Len(s) \in Nat
    OBVIOUS
  <2>2. IsFiniteSet(1 .. Len(s))
    BY <2>1, FS_Interval
  <2>3. IsFiniteSet(K)
    BY <2>1, <2>2, FS_Subset
  <2> QED  BY <2>1, <2>3
<1>2. PICK n \in Nat : n = Cardinality(K)
  BY <1>1, FS_CardinalityType
<1>3. PICK rank : rank = [i \in K |-> Cardinality({h \in K : h <= i})]
  OBVIOUS
<1>4. \A i \in K : rank[i] \in 1..n
  <2>1. SUFFICES ASSUME NEW i \in K
                 PROVE  Cardinality({h \in K : h <= i}) \in 1..n
    BY <1>3
  <2>2. PICK B : B = {h \in K : h <= i}
    OBVIOUS
  <2>3. B \subseteq K /\ i \in B
    BY <1>1, <2>2
  <2>4. IsFiniteSet(B) /\ Cardinality(B) <= n
    BY <1>1, <1>2, <2>3, FS_Subset
  <2>5. Cardinality(B) \in Nat /\ Cardinality(B) # 0
    BY <2>3, <2>4, FS_CardinalityType, FS_EmptySet
  <2> QED  BY <2>2, <2>4, <2>5
<1>5. \A i, j \in K : i < j => rank[i] < rank[j]
  <2>1. SUFFICES ASSUME NEW i \in K, NEW j \in K, i < j
                 PROVE  rank[i] < rank[j]
    OBVIOUS
  <2>2. PICK B, C : B = {h \in K : h <= i} /\ C = {h \in K : h <= j}
    OBVIOUS
  <2>3. B \subseteq C /\ B # C
    BY <1>1, <2>1, <2>2
  <2>4. IsFiniteSet(C)
    BY <1>1, <2>2, FS_Subset
  <2>5. IsFiniteSet(B) /\ Cardinality(B) <= Cardinality(C) /\ (Cardinality(B) = Cardinality(C) => B = C)
    BY <2>3, <2>4, FS_Subset
  <2>6. Cardinality(B) \in Nat /\ Cardinality(C) \in Nat
    BY <2>4, <2>5, FS_CardinalityType
  <2> QED  BY <1>3, <2>2, <2>3, <2>5, <2>6
<1>6. \A i, j \in K : rank[i] = rank[j] => i = j
  <2>1. SUFFICES ASSUME NEW i \in K, NEW j \in K, i # j
                 PROVE  rank[i] # rank[j]
    OBVIOUS
  <2>2. rank[i] \in Nat /\ rank[j] \in Nat
    BY <1>4
  <2>3. i < j \/ j < i
    BY <1>1, <2>1
  <2> QED  BY <1>5, <2>2, <2>3
<1>7. rank \in Injection(K, 1..n)
  BY <1>3, <1>4, <1>6 DEF Injection, IsInjective
<1>8. rank \in Surjection(K, 1..n)
  <2>1. IsFiniteSet(1..n) /\ Cardinality(1..n) = n
    BY FS_Interval
  <2> QED  BY <1>2, <1>7, <2>1, FS_Injection
<1>9. \A k \in 1..n : \E i \in K : Cardinality({h \in K : h <= i}) = k
  BY <1>3, <1>8 DEF Surjection
<1>10. PICK at : at = [k \in 1..n |-> CHOOSE i \in K : Cardinality({h \in K : h <= i}) = k]
  OBVIOUS
<1>11. \A k \in 1..n : at[k] \in K /\ rank[at[k]] = k
  BY <1>3, <1>9, <1>10
<1>12. Picked(s, K) = [k \in 1..n |-> s[at[k]]]
  BY <1>2, <1>10 DEF Picked
<1>13. \A i \in K : s[i] \in D
  OBVIOUS
<1>14. Picked(s, K) \in Seq(D) /\ DOMAIN Picked(s, K) = 1..n
  BY <1>11, <1>12, <1>13
<1>15. ASSUME NEW i \in K PROVE s[i] \in ToSet(Picked(s, K))
  <2>1. rank[i] \in 1..n /\ at[rank[i]] = i
    BY <1>4, <1>6, <1>11
  <2> QED  BY <1>12, <1>14, <2>1 DEF ToSet
<1>16. ASSUME NEW x \in ToSet(Picked(s, K)) PROVE \E i \in K : x = s[i]
  <2>1. PICK k \in 1..n : x = Picked(s, K)[k]
    BY <1>14, <1>16 DEF ToSet
  <2> QED  BY <1>11, <1>12, <2>1
<1> QED  BY <1>14, <1>15, <1>16

LEMMA WithoutFacts ==
    ASSUME NEW D, NEW s \in Seq(D), NEW S
    PROVE  Without(s, S) \in Seq(D) /\ ToSet(Without(s, S)) = ToSet(s) \ S
<1>1. PICK K : K = {i \in DOMAIN s : s[i] \notin S}
  OBVIOUS
<1>2. Without(s, S) = Picked(s, K) /\ K \subseteq DOMAIN s
  BY <1>1 DEF Without
<1>3. \A x : x \in ToSet(s) \ S <=> \E i \in K : x = s[i]
  BY <1>1 DEF ToSet
<1> QED  BY <1>2, <1>3, PickedFacts

LEMMA OldestFacts ==
    ASSUME NEW s, NEW S, NEW n
    PROVE  Oldest(s, S, n) \subseteq S
BY DEF Oldest

LEMMA JoinedElems ==
    ASSUME NEW D, NEW s \in Seq(D), NEW t \in Seq(D)
    PROVE  s \o t \in Seq(D) /\ ToSet(s \o t) = ToSet(s) \cup ToSet(t)
<1>1. /\ DOMAIN s = 1..Len(s) /\ DOMAIN t = 1..Len(t) /\ Len(s) \in Nat /\ Len(t) \in Nat
      /\ s \o t \in Seq(D) /\ DOMAIN (s \o t) = 1..(Len(s) + Len(t))
  OBVIOUS
<1>2. \A i \in DOMAIN s : i \in DOMAIN (s \o t) /\ (s \o t)[i] = s[i]
  BY <1>1
<1>3. \A i \in DOMAIN t : i + Len(s) \in DOMAIN (s \o t) /\ (s \o t)[i + Len(s)] = t[i]
  BY <1>1
<1>4. \A i \in DOMAIN (s \o t) : i \in DOMAIN s \/ (i - Len(s) \in DOMAIN t /\ (s \o t)[i] = t[i - Len(s)])
  BY <1>1
<1>5. \A x : x \in ToSet(s \o t) <=> x \in ToSet(s) \/ x \in ToSet(t)
  <2>1. ASSUME NEW x \in ToSet(s \o t) PROVE x \in ToSet(s) \/ x \in ToSet(t)
    <3>1. PICK i \in DOMAIN (s \o t) : x = (s \o t)[i]
      BY <2>1 DEF ToSet
    <3>2. CASE i \in DOMAIN s
      BY <1>2, <3>1, <3>2 DEF ToSet
    <3>3. CASE i \notin DOMAIN s
      <4>1. PICK k : k = i - Len(s)
        OBVIOUS
      <4>2. k \in DOMAIN t /\ x = t[k]
        BY <1>4, <3>1, <3>3, <4>1
      <4> QED  BY <4>2 DEF ToSet
    <3> QED  BY <3>2, <3>3
  <2>2. ASSUME NEW x \in ToSet(s) PROVE x \in ToSet(s \o t)
    <3>1. PICK i \in DOMAIN s : x = s[i]
      BY <2>2 DEF ToSet
    <3>2. i \in DOMAIN (s \o t) /\ x = (s \o t)[i]
      BY <1>2, <3>1
    <3> QED  BY <3>2 DEF ToSet
  <2>3. ASSUME NEW x \in ToSet(t) PROVE x \in ToSet(s \o t)
    <3>1. PICK i \in DOMAIN t : x = t[i]
      BY <2>3 DEF ToSet
    <3>2. PICK k : k = i + Len(s)
      OBVIOUS
    <3>3. k \in DOMAIN (s \o t) /\ x = (s \o t)[k]
      BY <1>3, <3>1, <3>2
    <3> QED  BY <3>3 DEF ToSet
  <2> QED  BY <2>1, <2>2, <2>3
<1> QED  BY <1>1, <1>5

LEMMA AppendedElems ==
    ASSUME NEW D, NEW s \in Seq(D), NEW x \in D
    PROVE  Append(s, x) \in Seq(D) /\ ToSet(Append(s, x)) = ToSet(s) \cup {x}
<1>1. /\ DOMAIN s = 1..Len(s) /\ Len(s) \in Nat
      /\ Append(s, x) \in Seq(D) /\ DOMAIN Append(s, x) = 1..(Len(s) + 1)
      /\ Append(s, x)[Len(s) + 1] = x /\ \A i \in 1..Len(s) : Append(s, x)[i] = s[i]
  OBVIOUS
<1> QED  BY <1>1 DEF ToSet

LEMMA FewElems ==
    /\ ToSet(<<>>) = {} /\ \A D : <<>> \in Seq(D)
    /\ \A D : \A x \in D : <<x>> \in Seq(D) /\ ToSet(<<x>>) = {x}
BY DEF ToSet

LEMMA ListedElems ==
    ASSUME NEW D, NEW s \in Seq(D)
    PROVE  ToSet(s) \subseteq D
BY DEF ToSet

-----------------------------------------------------------------------------
BackupKinds == OwnedBackupKinds \cup {"stage"}
JobRows == [st : {"none", "running"} \cup Terminal, exp : BOOLEAN, asked : BOOLEAN, stop : BOOLEAN]
PreviewRows == [st : {"none", "running"} \cup Terminal, of : Uploads \cup {Nobody},
                exp : BOOLEAN, asked : BOOLEAN, stop : BOOLEAN, shown : {"sent", "other"}]

\* Every name on disk is one that some clean-up knows.
FilesNamed ==
    /\ up \in {"up", "down"}
    /\ disk \subseteq (BackupKinds \cup OwnedRestoreKinds \cup OrphanKinds) \X (Jobs \cup Uploads \cup Previews)

BackupTypes ==
    /\ order \in Seq(Jobs) /\ active \in Jobs \cup {Nobody}
    /\ job \in [Jobs -> JobRows] /\ worker \in [Jobs -> 0..12]

\* The job whose worker is at work is the active one, and retention leaves it alone.
BackupsRun ==
    /\ \A j \in Jobs : worker[j] \in 1..10 =>
          active = j /\ j \in ToSet(order) /\ job[j].st = "running" /\ ~job[j].exp
    /\ \A j \in Jobs : j \notin ToSet(order) => job[j] = NoJob
    /\ \A j \in Jobs : job[j].asked => job[j].stop /\ job[j].st # "completed"

BackupOwned(f) ==
    \/ f[1] = "stage"
    \/ f[2] \in Jobs /\ worker[f[2]] \in 1..10 /\ f \in Files(f[2], worker[f[2]])
    \/ f[2] \in Jobs /\ f \in Path(job, f[2])

BackupFiles == up = "up" => \A f \in disk \ stuck : f[1] \in BackupKinds => BackupOwned(f)

BackupInv == BackupTypes /\ BackupsRun /\ BackupFiles

RestoreTypes ==
    /\ uploads \in Seq(Uploads) /\ previews \in Seq(Previews)
    /\ sending \in [Uploads -> {"no", "counted", "writing", "linked", "final", "listed"}]
    /\ preview \in [Previews -> PreviewRows]
    /\ running \in Previews \cup {Nobody} /\ confirming \in Previews \cup {Nobody}
    /\ inspector \in [Previews -> {"no", "queued", "verified", "inspecting", "inspected", "checked", "failed", "leaving"}]
    /\ confirm \in [at : {"no", "begun", "verified", "preparing", "prepared", "leaving"}, read : {"sent", "other"}]
    /\ intent \in [made : BOOLEAN, read : {"sent", "other"}, shown : {"sent", "other"}]

\* One preview or one confirmation at a time, and an upload is received before it is listed.
RestoresRun ==
    /\ up = "down" => uploads = <<>> /\ previews = <<>>
    /\ \A u \in ToSet(uploads) : sending[u] \in {"no", "listed"}
    /\ running = Nobody \/ confirming = Nobody
    /\ \A p \in Previews : inspector[p] \notin {"no", "leaving"} => running = p
    /\ confirm.at = "no" <=> confirming = Nobody
    /\ \A p \in Previews : preview[p].asked => preview[p].stop /\ preview[p].st # "completed"

RestoreOwned(f) ==
    \/ f[2] \in Uploads /\ f \in UploadFiles(f[2], sending[f[2]])
    \/ f[1] = "upload" /\ f[2] \in ToSet(uploads)
    \/ f[2] \in Previews /\ f \in Scratch(f[2]) /\ inspector[f[2]] = "inspecting"
    \/ confirming = f[2] /\ f \in Work(f[2]) /\ confirm.at \in {"preparing", "prepared"}
    \/ f[1] = "pair" /\ intent.made

RestoreFiles ==
    up = "up" => \A f \in disk \ stuck :
        /\ f[1] \notin BackupKinds => RestoreOwned(f)
        /\ f[1] = "upload" /\ sending[f[2]] = "listed" => f[2] \in ToSet(uploads)
        /\ f[1] \in OrphanKinds /\ confirm.at = "prepared" => f[1] = "pair"

RestoreInv == RestoreTypes /\ RestoresRun /\ ReferencedStays /\ ConfirmedIsPreviewed /\ RestoreFiles

JobsInv == FilesNamed /\ BackupInv /\ RestoreInv

-----------------------------------------------------------------------------
LEMMA PrunedFacts ==
    ASSUME NEW ord \in Seq(Jobs), NEW jb, NEW act, NEW left
    PROVE  /\ Pruned(ord, jb, act, left) \in Seq(Jobs)
           /\ ToSet(Pruned(ord, jb, act, left)) \subseteq ToSet(ord)
           /\ act \in ToSet(ord) /\ ~jb[act].exp => act \in ToSet(Pruned(ord, jb, act, left))
<1>1. PICK fresh : fresh = Without(ord, {j \in Jobs : jb[j].exp} \ Kept(jb, left))
  OBVIOUS
<1>2. /\ fresh \in Seq(Jobs) /\ ToSet(fresh) \subseteq ToSet(ord)
      /\ act \in ToSet(ord) /\ ~jb[act].exp => act \in ToSet(fresh)
  BY <1>1, WithoutFacts
<1>3. PICK n, S : /\ n = Len(fresh) - (IF act = Nobody THEN 0 ELSE 1) - HistoryLimit
                  /\ S = Oldest(fresh, Jobs \ (Kept(jb, left) \cup {act}), n)
  OBVIOUS
<1>4. act \notin S
  BY <1>3, OldestFacts
<1>5. Pruned(ord, jb, act, left) = Without(fresh, S)
  BY <1>1, <1>3 DEF Pruned
<1> QED  BY <1>2, <1>4, <1>5, WithoutFacts

LEMMA RoomedFacts ==
    ASSUME NEW ord \in Seq(Jobs), NEW jb, NEW left
    PROVE  Roomed(ord, jb, left) \in Seq(Jobs) /\ ToSet(Roomed(ord, jb, left)) \subseteq ToSet(ord)
BY WithoutFacts DEF Roomed

\* A completed preview, and the one the manager is busy with, keeps its upload.
LEMMA PrunedUploadsFacts ==
    ASSUME RestoreTypes, ReferencedStays,
           NEW pv, NEW out, NEW busy, NEW left,
           NEW us, us = PrunedUploads(pv, out, busy, left),
           NEW ps, ps = PreviewRoom(UnexpiredPreviews(pv, busy), busy)
    PROVE  /\ us \in Seq(Uploads) /\ ToSet(us) \subseteq ToSet(uploads)
           /\ ps \in Seq(Previews) /\ ToSet(ps) \subseteq ToSet(previews)
           /\ busy \cap ToSet(previews) \subseteq ToSet(ps)
           /\ \A p \in ToSet(ps) : preview[p].of \in ToSet(us)
<1>1. uploads \in Seq(Uploads) /\ previews \in Seq(Previews)
  BY DEF RestoreTypes
<1>2. PICK qs : qs = UnexpiredPreviews(pv, busy)
  OBVIOUS
<1>3. /\ qs \in Seq(Previews) /\ ToSet(qs) \subseteq ToSet(previews)
      /\ busy \cap ToSet(previews) \subseteq ToSet(qs)
  BY <1>1, <1>2, WithoutFacts DEF UnexpiredPreviews
<1>4. /\ ps \in Seq(Previews) /\ ToSet(ps) \subseteq ToSet(qs)
      /\ busy \cap ToSet(qs) \subseteq ToSet(ps)
  <2>1. PICK S : S = Oldest(qs, Previews \ busy, Len(qs) - RestoreLimit + 1)
    OBVIOUS
  <2>2. S \cap busy = {} /\ ps = Without(qs, S)
    BY <1>2, <2>1, OldestFacts DEF PreviewRoom
  <2> QED  BY <1>3, <2>2, WithoutFacts
<1>5. \A p \in ToSet(ps) : Referenced(qs, preview[p].of) /\ Referenced(ps, preview[p].of)
  BY <1>4 DEF Referenced, ToSet
<1>6. PICK vs : vs = Without(uploads, {u \in out : ~Referenced(qs, u)} \ LeftOver(left))
  OBVIOUS
<1>7. /\ vs \in Seq(Uploads) /\ ToSet(vs) \subseteq ToSet(uploads)
      /\ \A p \in ToSet(ps) : preview[p].of \in ToSet(vs)
  BY <1>1, <1>3, <1>4, <1>5, <1>6, WithoutFacts DEF ReferencedStays
<1>8. PICK S : S = Oldest(vs, {u \in Uploads : ~Referenced(ps, u)} \ LeftOver(left),
                          Len(vs) + Cardinality(Sending) - RestoreLimit + 1)
  OBVIOUS
<1>9. \A p \in ToSet(ps) : preview[p].of \notin S
  BY <1>5, <1>8, OldestFacts
<1>10. us = Without(vs, S)
  BY <1>2, <1>6, <1>8 DEF PrunedUploads
<1> QED  BY <1>3, <1>4, <1>7, <1>9, <1>10, WithoutFacts

LEMMA TrailFacts ==
    /\ Trail[1] = {} /\ "artifact" \in Trail[10] /\ Trail[10] = {"artifact"}
    /\ \A i \in 1..10 : Trail[i] \subseteq BackupKinds
    /\ \A i \in 1..10 : "artifact" \in Trail[i] => i > 7
<1>1. /\ Trail[1] = {} /\ Trail[2] = {"stage"} /\ Trail[3] = {"stage", "rootTemp"} /\ Trail[4] = {"rootTemp"}
      /\ Trail[5] = {"rootTemp", "snapshot"} /\ Trail[6] = {"snapshot"} /\ Trail[7] = {"snapshot", "portTemp"}
      /\ Trail[8] = {"snapshot", "portTemp", "artifact"} /\ Trail[9] = {"snapshot", "artifact"}
      /\ Trail[10] = {"artifact"}
  BY DEF Trail
<1>2. \A i \in 1..10 : i \in {1, 2, 3, 4, 5, 6, 7, 8, 9, 10}
  OBVIOUS
<1> QED  BY <1>1, <1>2 DEF BackupKinds, OwnedBackupKinds

LEMMA UploadFilesFacts ==
    ASSUME NEW u
    PROVE  /\ UploadFiles(u, "no") = {} /\ UploadFiles(u, "counted") = {}
           /\ UploadFiles(u, "writing") = {UploadTemp(u)}
           /\ UploadFiles(u, "linked") = {UploadTemp(u), UploadFile(u)}
           /\ UploadFiles(u, "final") = {UploadFile(u)} /\ UploadFiles(u, "listed") = {UploadFile(u)}
BY DEF UploadFiles

LEMMA KindsApart ==
    /\ \A k \in OwnedRestoreKinds \cup OrphanKinds : k \notin BackupKinds
    /\ OwnedRestoreKinds \cap OrphanKinds = {}
BY DEF BackupKinds, OwnedBackupKinds, OwnedRestoreKinds, OrphanKinds

-----------------------------------------------------------------------------
\* What concerns the restores is not touched by a step of the exports, and the other way round.
LEMMA RestoresAlone ==
    ASSUME RestoreInv, UNCHANGED restoreVars, UNCHANGED up,
           \A f \in disk : f[1] \notin BackupKinds => f \in disk',
           \A f \in disk' \ stuck' : f[1] \notin BackupKinds => f \in disk \ stuck
    PROVE  RestoreInv'
<1>1. \A u : UploadFile(u)[1] \notin BackupKinds
  BY DEF UploadFile, BackupKinds, OwnedBackupKinds
<1>2. RestoreTypes'
  BY DEF RestoreInv, RestoreTypes, restoreVars
<1>3. RestoresRun'
  BY DEF RestoreInv, RestoresRun, restoreVars
<1>4. ReferencedStays'
  BY <1>1 DEF RestoreInv, ReferencedStays, HasVerified, restoreVars
<1>5. ConfirmedIsPreviewed'
  BY DEF RestoreInv, ConfirmedIsPreviewed, restoreVars
<1>6. RestoreFiles'
  <2>1. SUFFICES ASSUME up = "up", NEW f \in disk' \ stuck'
                 PROVE  /\ f[1] \notin BackupKinds => RestoreOwned(f)'
                        /\ f[1] = "upload" /\ sending'[f[2]] = "listed" => f[2] \in ToSet(uploads')
                        /\ f[1] \in OrphanKinds /\ confirm'.at = "prepared" => f[1] = "pair"
    BY DEF RestoreFiles
  <2>2. RestoreOwned(f)' <=> RestoreOwned(f)
    BY DEF RestoreOwned, restoreVars
  <2>3. UNCHANGED <<sending, uploads, confirm>>
    BY DEF restoreVars
  <2>4. CASE f[1] \notin BackupKinds
    BY <2>1, <2>2, <2>3, <2>4 DEF RestoreInv, RestoreFiles
  <2>5. CASE f[1] \in BackupKinds
    BY <2>5 DEF BackupKinds, OwnedBackupKinds, OrphanKinds
  <2> QED  BY <2>4, <2>5
<1> QED  BY <1>2, <1>3, <1>4, <1>5, <1>6 DEF RestoreInv

LEMMA BackupsAlone ==
    ASSUME BackupInv, UNCHANGED backupVars, UNCHANGED up,
           \A f \in disk' \ stuck' : f[1] \in BackupKinds => f \in disk \ stuck
    PROVE  BackupInv'
<1>1. BackupTypes' /\ BackupsRun'
  BY DEF BackupInv, BackupTypes, BackupsRun, backupVars
<1>2. \A f : BackupOwned(f)' <=> BackupOwned(f)
  BY DEF BackupOwned, Files, Path, backupVars
<1>3. BackupFiles'
  BY <1>2 DEF BackupInv, BackupFiles
<1> QED  BY <1>1, <1>3 DEF BackupInv

-----------------------------------------------------------------------------
\* Each step of the exports.
LEMMA BackupTable ==
    ASSUME BackupTypes
    PROVE  /\ \A j \in Jobs : job[j] \in JobRows
           /\ NoJob \in JobRows /\ ToSet(order) \subseteq Jobs
           /\ \A jb, j : Path(jb, j) \subseteq {<<"artifact", j>>}
           /\ \A jb, j : jb[j].st # "completed" => Path(jb, j) = {}
           /\ \A ja, jb, j : ja[j].st = jb[j].st => Path(ja, j) = Path(jb, j)
BY ListedElems DEF BackupTypes, JobRows, NoJob, Path

\* What pruning a table does.
LEMMA RetainKeeps ==
    ASSUME JobsInv, UNCHANGED <<up, restoreVars>>,
           NEW jb \in [Jobs -> JobRows], NEW ord \in Seq(Jobs), ToSet(ord) \subseteq ToSet(order),
           NEW d, d \subseteq disk, NEW left,
           \A f \in disk \ d : f[1] \in BackupKinds,
           \A j \in Jobs : j \notin ToSet(order) => jb[j] = NoJob,
           \A j \in Jobs : jb[j].asked => jb[j].stop /\ jb[j].st # "completed",
           \A j \in Jobs : worker'[j] \in 1..10 =>
               active' = j /\ j \in ToSet(ord) /\ jb[j].st = "running" /\ ~jb[j].exp,
           order' = ord, active' \in Jobs \cup {Nobody}, worker' \in [Jobs -> 0..12],
           job' = [j \in Jobs |-> IF j \in ToSet(ord) THEN jb[j] ELSE NoJob],
           disk' = d \ ((UNION {Path(jb, j) : j \in ToSet(order) \ ToSet(ord)}) \ left),
           \A f \in disk' : f \in left \cup stuck => f \in stuck',
           up = "up" => \A f \in d \ (stuck \cup left) : f[1] \in BackupKinds =>
               \/ f[1] = "stage"
               \/ f[2] \in Jobs /\ worker'[f[2]] \in 1..10 /\ f \in Files(f[2], worker'[f[2]])
               \/ f[2] \in Jobs /\ f \in Path(jb, f[2])
    PROVE  JobsInv'
<1> USE DEF JobsInv
<1>1. /\ \A j \in Jobs : job'[j] \in JobRows /\ (j \in ToSet(ord) => job'[j] = jb[j])
      /\ \A j \in Jobs : j \notin ToSet(ord) => job'[j] = NoJob
  BY BackupTable DEF BackupInv
<1>2. BackupTypes'
  BY <1>1 DEF BackupTypes
<1>3. BackupsRun'
  BY <1>1 DEF BackupsRun, NoJob
<1>4. disk' \subseteq disk /\ \A f \in disk \ disk' : f[1] \in BackupKinds
  BY BackupTable DEF BackupInv, BackupKinds, OwnedBackupKinds
<1>5. \A f \in disk' \ stuck' : f \in d \ (stuck \cup left)
  OBVIOUS
<1>6. BackupFiles'
  <2>1. SUFFICES ASSUME up = "up", NEW f \in disk' \ stuck', f[1] \in BackupKinds
                 PROVE  BackupOwned(f)'
    BY DEF BackupFiles
  <2>2. CASE f[2] \in Jobs /\ f \in Path(jb, f[2])
    <3>1. CASE f[2] \in ToSet(ord)
      BY <1>1, <2>2, <3>1 DEF BackupOwned, Path
    <3>2. CASE f[2] \in ToSet(order) \ ToSet(ord)
      BY <1>5, <2>1, <2>2, <3>2
    <3>3. CASE f[2] \notin ToSet(order)
      BY <2>2, <3>3, BackupTable DEF NoJob, BackupInv
    <3> QED  BY <3>1, <3>2, <3>3
  <2>3. CASE f[1] = "stage" \/ (f[2] \in Jobs /\ worker'[f[2]] \in 1..10 /\ f \in Files(f[2], worker'[f[2]]))
    BY <2>3 DEF BackupOwned, Files
  <2>4. \/ f[1] = "stage" \/ (f[2] \in Jobs /\ worker'[f[2]] \in 1..10 /\ f \in Files(f[2], worker'[f[2]]))
        \/ f[2] \in Jobs /\ f \in Path(jb, f[2])
    BY <1>5, <2>1
  <2> QED  BY <2>2, <2>3, <2>4
<1>7. RestoreInv'
  BY <1>4, <1>5, RestoresAlone
<1>8. FilesNamed'
  BY <1>4 DEF FilesNamed
<1> QED  BY <1>2, <1>3, <1>6, <1>7, <1>8 DEF BackupInv

LEMMA ExportSteps ==
    ASSUME JobsInv, UNCHANGED restoreVars, NEW j \in Jobs,
           \/ StartBackup(j) \/ Snapshot(j) \/ Encrypt(j) \/ DropSnapshot(j) \/ Complete(j)
           \/ Abort(j) \/ LeaveBackup(j) \/ CancelBackup(j)
    PROVE  JobsInv'
<1> USE DEF JobsInv, BackupInv
<1>1. /\ order \in Seq(Jobs) /\ active \in Jobs \cup {Nobody} /\ up = "up"
      /\ job \in [Jobs -> JobRows] /\ worker \in [Jobs -> 0..12]
      /\ disk \subseteq (BackupKinds \cup OwnedRestoreKinds \cup OrphanKinds) \X (Jobs \cup Uploads \cup Previews)
  BY DEF BackupTypes, FilesNamed, StartBackup, Snapshot, Encrypt, DropSnapshot, Complete, Abort, LeaveBackup, CancelBackup
<1>2. \A f \in disk \ stuck : f[1] \in BackupKinds => BackupOwned(f)
  BY <1>1 DEF BackupFiles
<1>3. CASE StartBackup(j)
  <2>1. PICK left, kept :
          /\ kept = Roomed(Pruned(order, job, Nobody, left), job, left)
          /\ order' = Append(kept, j)
          /\ job' = [k \in Jobs |-> IF k = j THEN [NoJob EXCEPT !.st = "running"]
                                    ELSE IF k \in ToSet(kept) THEN job[k] ELSE NoJob]
          /\ Removes(disk, left \cup UNION {Path(job, k) : k \in ToSet(order) \ ToSet(kept)}, left)
    BY <1>3 DEF StartBackup
  <2>2. kept \in Seq(Jobs) /\ ToSet(kept) \subseteq ToSet(order)
    BY <1>1, <2>1, PrunedFacts, RoomedFacts
  <2>3. order' \in Seq(Jobs) /\ ToSet(order') = ToSet(kept) \cup {j}
    BY <2>1, <2>2, AppendedElems
  <2>4. /\ active = Nobody /\ j \notin ToSet(order) /\ worker[j] = 0 /\ UNCHANGED <<up, closing>>
        /\ active' = j /\ worker' = [worker EXCEPT ![j] = 1]
    BY <1>3 DEF StartBackup, Idle
  <2>5. \A k \in Jobs : worker[k] \notin 1..10
    BY <2>4, BackupAssumption DEF BackupsRun
  <2>6. PICK new : new = [NoJob EXCEPT !.st = "running"]
    OBVIOUS
  <2>7. new \in JobRows /\ new.st = "running" /\ ~new.exp /\ ~new.asked
    BY <2>6 DEF NoJob, JobRows
  <2>8. BackupTypes'
    BY <1>1, <2>1, <2>2, <2>3, <2>4, <2>6, <2>7, BackupTable DEF BackupTypes
  <2>9. BackupsRun'
    <3>1. \A k \in Jobs : worker'[k] \in 1..10 => k = j
      BY <1>1, <2>4, <2>5
    <3>2. \A k \in Jobs : job'[k] = (IF k = j THEN new ELSE IF k \in ToSet(kept) THEN job[k] ELSE NoJob)
      BY <2>1, <2>6
    <3> QED  BY <2>3, <2>4, <2>7, <3>1, <3>2 DEF BackupsRun, NoJob
  <2>10. /\ disk' \subseteq disk
         /\ \A f \in disk \ disk' : f[1] \in BackupKinds
         /\ \A f \in disk' \ stuck' :
               f \in disk \ stuck /\ f \notin UNION {Path(job, k) : k \in ToSet(order) \ ToSet(kept)}
    BY <2>1, BackupTable DEF Removes, BackupKinds, OwnedBackupKinds
  <2>11. BackupFiles'
    <3>1. SUFFICES ASSUME NEW f \in disk' \ stuck', f[1] \in BackupKinds
                   PROVE  BackupOwned(f)'
      BY DEF BackupFiles
    <3>2. f[1] = "stage" \/ (f[2] \in Jobs /\ f \in Path(job, f[2]))
      BY <1>2, <2>5, <2>10, <3>1 DEF BackupOwned
    <3>3. CASE f[2] \in Jobs /\ f \in Path(job, f[2])
      <4>1. f[2] \in ToSet(order) /\ f[2] \in ToSet(kept) /\ f[2] # j
        BY <2>4, <2>10, <3>1, <3>3, BackupTable DEF BackupsRun, NoJob
      <4>2. job'[f[2]] = job[f[2]]
        BY <2>1, <3>3, <4>1
      <4> QED  BY <3>3, <4>2 DEF BackupOwned, Path
    <3> QED  BY <3>2, <3>3 DEF BackupOwned
  <2>12. RestoreInv'
    BY <2>4, <2>10, RestoresAlone
  <2> QED  BY <2>4, <2>8, <2>9, <2>10, <2>11, <2>12 DEF FilesNamed
<1>4. CASE Snapshot(j) \/ Encrypt(j) \/ DropSnapshot(j)
  <2>1. PICK n \in 1..9 : n = worker[j]
    BY <1>4 DEF Snapshot, Encrypt, DropSnapshot
  <2>2. /\ worker' = [worker EXCEPT ![j] = n + 1]
        /\ disk' = (disk \ Files(j, n)) \cup Files(j, n + 1)
        /\ UNCHANGED <<up, stuck, order, job, active>>
    BY <1>4, <2>1 DEF Snapshot, Encrypt, DropSnapshot, StepTo
  <2>3. \A f \in Files(j, n) \cup Files(j, n + 1) : f[1] \in BackupKinds /\ f[2] = j /\ f = <<f[1], f[2]>>
    BY <2>1, TrailFacts DEF Files
  <2>4. worker' \in [Jobs -> 0..12] /\ worker'[j] = n + 1 /\ \A k \in Jobs : k # j => worker'[k] = worker[k]
    BY <1>1, <2>1, <2>2
  <2>5. BackupTypes' /\ BackupsRun'
    BY <2>1, <2>2, <2>4 DEF BackupTypes, BackupsRun
  <2>6. BackupFiles'
    <3>1. SUFFICES ASSUME NEW f \in disk' \ stuck', f[1] \in BackupKinds
                   PROVE  BackupOwned(f)'
      BY DEF BackupFiles
    <3>2. CASE f \in Files(j, n + 1)
      BY <2>1, <2>3, <2>4, <3>2 DEF BackupOwned, Files
    <3>3. CASE f \notin Files(j, n + 1)
      <4>1. f \in disk \ stuck /\ f \notin Files(j, n)
        BY <2>2, <3>1, <3>3
      <4>2. BackupOwned(f)
        BY <1>2, <3>1, <4>1
      <4>3. f[2] # j \/ f[1] = "stage" \/ f \in Path(job, f[2])
        BY <2>1, <4>1, <4>2 DEF BackupOwned
      <4> QED  BY <2>2, <2>4, <4>2, <4>3 DEF BackupOwned, Path, Files
    <3> QED  BY <3>2, <3>3
  <2>7. RestoreInv'
    BY <2>2, <2>3, RestoresAlone
  <2>8. FilesNamed'
    BY <1>1, <2>2, <2>3 DEF FilesNamed
  <2> QED  BY <2>5, <2>6, <2>7, <2>8
<1>5. CASE Complete(j)
  <2>1. /\ worker[j] = 10 /\ ~job[j].stop /\ active' = Nobody /\ worker' = [worker EXCEPT ![j] = 12]
        /\ UNCHANGED <<up, closing, requests>>
        /\ Prune([job EXCEPT ![j].st = "completed"], Nobody, disk)
    BY <1>5 DEF Complete, MayComplete, Leaving, BackupsRun
  <2>2. active = j /\ j \in ToSet(order) /\ job[j].st = "running"
    BY <2>1 DEF BackupsRun
  <2>3. PICK jb : jb = [job EXCEPT ![j].st = "completed"]
    OBVIOUS
  <2>4. PICK left, ord : /\ ord = Pruned(order, jb, Nobody, left)
                         /\ Retain(ord, jb, disk, left, Pruned(order, jb, Nobody, {}))
    BY <2>1, <2>3 DEF Prune
  <2>5. /\ jb \in [Jobs -> JobRows] /\ \A k \in Jobs : k # j => jb[k] = job[k]
        /\ jb[j].st = "completed" /\ jb[j].asked = job[j].asked /\ jb[j].stop = job[j].stop
    BY <1>1, <2>3 DEF JobRows, Terminal
  <2>6. ord \in Seq(Jobs) /\ ToSet(ord) \subseteq ToSet(order)
    BY <1>1, <2>4, PrunedFacts
  <2>7. \A k \in Jobs : k \notin ToSet(order) => jb[k] = NoJob
    BY <2>2, <2>5 DEF BackupsRun
  <2>8. \A k \in Jobs : jb[k].asked => jb[k].stop /\ jb[k].st # "completed"
    BY <2>1, <2>5 DEF BackupsRun
  <2>9. worker' \in [Jobs -> 0..12] /\ \A k \in Jobs : worker'[k] \notin 1..10
    BY <1>1, <2>1, <2>2 DEF BackupsRun
  <2>10. /\ order' = ord
         /\ job' = [k \in Jobs |-> IF k \in ToSet(ord) THEN jb[k] ELSE NoJob]
         /\ disk' = disk \ ((UNION {Path(jb, k) : k \in ToSet(order) \ ToSet(ord)}) \ left)
         /\ stuck' = (stuck \cup left) \cap disk'
    BY <2>4, <2>6, <2>7 DEF Retain, Removes
  <2>11. \A f \in disk \ (stuck \cup left) : f[1] \in BackupKinds =>
            f[1] = "stage" \/ (f[2] \in Jobs /\ f \in Path(jb, f[2]))
    <3>1. SUFFICES ASSUME NEW f \in disk \ (stuck \cup left), f[1] \in BackupKinds
                   PROVE  f[1] = "stage" \/ (f[2] \in Jobs /\ f \in Path(jb, f[2]))
      OBVIOUS
    <3>2. BackupOwned(f)
      BY <1>2, <3>1
    <3>3. CASE f[2] \in Jobs /\ worker[f[2]] \in 1..10 /\ f \in Files(f[2], worker[f[2]])
      <4>1. f[2] = j /\ f = <<"artifact", j>>
        BY <2>1, <2>2, <3>3, TrailFacts DEF Files, BackupsRun
      <4> QED  BY <2>5, <4>1 DEF Path
    <3>4. CASE f[2] \in Jobs /\ f \in Path(job, f[2])
      BY <2>2, <2>5, <3>4 DEF Path
    <3> QED  BY <3>2, <3>3, <3>4 DEF BackupOwned
  <2> QED  BY <2>1, <2>5, <2>6, <2>7, <2>8, <2>9, <2>10, <2>11, RetainKeeps
<1>6. CASE Abort(j)
  <2> DEFINE jb0(st) == [job EXCEPT ![j].st = st]
             ord0(st, left) == Pruned(order, jb0(st), Nobody, left)
             d0(left) == disk \ (Files(j, worker[j]) \ left)
  <2>a. PICK left, st :
          /\ st \in {"failed", "cancelled"}
          /\ order' = ord0(st, left)
          /\ job' = [k \in Jobs |-> IF k \in ToSet(ord0(st, left)) THEN jb0(st)[k] ELSE NoJob]
          /\ Removes(disk, Files(j, worker[j]) \cup left
                             \cup UNION {Path(jb0(st), k) : k \in ToSet(order) \ ToSet(ord0(st, left))}, left)
    BY <1>6, ZenonT(60) DEF Abort
  <2>b. PICK jb, ord, d : jb = jb0(st) /\ ord = ord0(st, left) /\ d = d0(left)
    OBVIOUS
  <2>1. /\ st \in {"failed", "cancelled"} /\ jb = [job EXCEPT ![j].st = st]
        /\ ord = Pruned(order, jb, Nobody, left) /\ d = disk \ (Files(j, worker[j]) \ left)
    BY <2>a, <2>b
  <2> HIDE DEF jb0, ord0, d0
  <2>c. order' = ord /\ job' = [k \in Jobs |-> IF k \in ToSet(ord) THEN jb[k] ELSE NoJob]
    BY <2>a, <2>b
  <2>d. /\ disk' = d \ ((UNION {Path(jb, k) : k \in ToSet(order) \ ToSet(ord)}) \ left)
        /\ stuck' = (stuck \cup left) \cap disk'
    BY <2>1, <2>a, <2>b DEF Removes
  <2>2. worker[j] \in 1..10 /\ active' = Nobody /\ worker' = [worker EXCEPT ![j] = 11] /\ UNCHANGED <<up, closing, requests>>
    BY <1>6 DEF Abort, Failing
  <2>3. active = j /\ j \in ToSet(order) /\ job[j].st = "running"
    BY <2>2 DEF BackupsRun
  <2>4. /\ jb \in [Jobs -> JobRows] /\ \A k \in Jobs : k # j => jb[k] = job[k]
        /\ jb[j].st = st /\ jb[j].asked = job[j].asked /\ jb[j].stop = job[j].stop
    BY <1>1, <2>1 DEF JobRows, Terminal
  <2>5. ord \in Seq(Jobs) /\ ToSet(ord) \subseteq ToSet(order)
    BY <1>1, <2>1, PrunedFacts
  <2>6. \A k \in Jobs : k \notin ToSet(order) => jb[k] = NoJob
    BY <2>3, <2>4 DEF BackupsRun
  <2>7. \A k \in Jobs : jb[k].asked => jb[k].stop /\ jb[k].st # "completed"
    BY <2>1, <2>4 DEF BackupsRun
  <2>8. worker' \in [Jobs -> 0..12] /\ \A k \in Jobs : worker'[k] \notin 1..10
    BY <1>1, <2>2, <2>3 DEF BackupsRun
  <2>9. /\ order' = ord
        /\ job' = [k \in Jobs |-> IF k \in ToSet(ord) THEN jb[k] ELSE NoJob]
        /\ disk' = d \ ((UNION {Path(jb, k) : k \in ToSet(order) \ ToSet(ord)}) \ left)
        /\ stuck' = (stuck \cup left) \cap disk'
    BY <2>c, <2>d
  <2>10. d \subseteq disk /\ \A f \in disk \ d : f[1] \in BackupKinds
    BY <2>1, <2>2, TrailFacts DEF Files
  <2>11. \A f \in d \ (stuck \cup left) : f[1] \in BackupKinds =>
            f[1] = "stage" \/ (f[2] \in Jobs /\ f \in Path(jb, f[2]))
    <3>1. SUFFICES ASSUME NEW f \in d \ (stuck \cup left), f[1] \in BackupKinds
                   PROVE  f[1] = "stage" \/ (f[2] \in Jobs /\ f \in Path(jb, f[2]))
      OBVIOUS
    <3>2. BackupOwned(f) /\ f \notin Files(j, worker[j])
      BY <1>2, <2>1, <3>1
    <3>3. CASE f[2] \in Jobs /\ worker[f[2]] \in 1..10 /\ f \in Files(f[2], worker[f[2]])
      BY <2>3, <3>2, <3>3 DEF BackupsRun
    <3>4. CASE f[2] \in Jobs /\ f \in Path(job, f[2])
      BY <2>3, <2>4, <3>4 DEF Path
    <3> QED  BY <3>2, <3>3, <3>4 DEF BackupOwned
  <2>12. up = "up" => \A f \in d \ (stuck \cup left) : f[1] \in BackupKinds =>
            \/ f[1] = "stage"
            \/ f[2] \in Jobs /\ worker'[f[2]] \in 1..10 /\ f \in Files(f[2], worker'[f[2]])
            \/ f[2] \in Jobs /\ f \in Path(jb, f[2])
    BY <2>11
  <2>13. \A f \in disk' : f \in left \cup stuck => f \in stuck'
    BY <2>9
  <2>14. \A k \in Jobs : worker'[k] \in 1..10 =>
            active' = k /\ k \in ToSet(ord) /\ jb[k].st = "running" /\ ~jb[k].exp
    BY <2>8
  <2> HIDE DEF JobsInv, BackupInv
  <2> QED  BY <2>2, <2>4, <2>5, <2>6, <2>7, <2>8, <2>9, <2>10, <2>12, <2>13, <2>14, RetainKeeps, ZenonT(60)
<1>7. CASE LeaveBackup(j)
  <2>1. PICK again, left : /\ again \subseteq {"snapshot", "artifact"} \X {j}
                           /\ Removes(disk, again \cap disk, left)
    BY <1>7 DEF LeaveBackup
  <2>2. worker[j] \in {11, 12} /\ worker' = [worker EXCEPT ![j] = 0] /\ UNCHANGED <<up, closing, requests, order, job, active>>
    BY <1>7 DEF LeaveBackup, Failing, Leaving, Idle
  <2>3. /\ disk' \subseteq disk /\ \A f \in disk \ disk' : f[1] \in BackupKinds
        /\ \A f \in disk' \ stuck' : f \in disk \ stuck
    BY <2>1 DEF Removes, BackupKinds, OwnedBackupKinds
  <2>4. worker' \in [Jobs -> 0..12] /\ \A k \in Jobs : worker[k] \in 1..10 \/ worker'[k] \in 1..10 => worker'[k] = worker[k]
    BY <1>1, <2>2
  <2>5. BackupTypes' /\ BackupsRun'
    BY <2>2, <2>4 DEF BackupTypes, BackupsRun
  <2>6. BackupFiles'
    <3>1. \A f : BackupOwned(f) => BackupOwned(f)'
      BY <2>2, <2>4 DEF BackupOwned, Path, Files
    <3> QED  BY <1>2, <2>3, <3>1 DEF BackupFiles
  <2>7. RestoreInv'
    BY <2>2, <2>3, RestoresAlone
  <2>8. FilesNamed'
    BY <1>1, <2>2, <2>3 DEF FilesNamed
  <2> QED  BY <2>5, <2>6, <2>7, <2>8
<1>8. CASE CancelBackup(j)
  <2>1. /\ job[j].st = "running" /\ j \in ToSet(order) /\ job' = [job EXCEPT ![j].asked = TRUE, ![j].stop = TRUE]
        /\ UNCHANGED <<up, disk, stuck, order, active, worker>>
    BY <1>8 DEF CancelBackup, shared
  <2>2. /\ job' \in [Jobs -> JobRows] /\ \A k \in Jobs : k # j => job'[k] = job[k]
        /\ job'[j].st = "running" /\ job'[j].exp = job[j].exp /\ job'[j].stop
    BY <1>1, <2>1 DEF JobRows
  <2>3. BackupTypes'
    BY <2>1, <2>2 DEF BackupTypes
  <2>4. BackupsRun'
    BY <2>1, <2>2 DEF BackupsRun, NoJob
  <2>5. BackupFiles'
    <3>1. \A f : BackupOwned(f) => BackupOwned(f)'
      BY <2>1, <2>2 DEF BackupOwned, Path, Files
    <3> QED  BY <1>2, <2>1, <3>1 DEF BackupFiles
  <2>6. RestoreInv' /\ FilesNamed'
    BY <2>1, RestoresAlone DEF FilesNamed
  <2> QED  BY <2>3, <2>4, <2>5, <2>6
<1> QED  BY <1>3, <1>4, <1>5, <1>6, <1>7, <1>8

LEMMA ExportSweeps ==
    ASSUME JobsInv, UNCHANGED restoreVars, SweepBackups \/ EndBackups
    PROVE  JobsInv'
<1> USE DEF JobsInv, BackupInv
<1>1. /\ order \in Seq(Jobs) /\ active \in Jobs \cup {Nobody} /\ up = "up"
      /\ job \in [Jobs -> JobRows] /\ worker \in [Jobs -> 0..12]
      /\ disk \subseteq (BackupKinds \cup OwnedRestoreKinds \cup OrphanKinds) \X (Jobs \cup Uploads \cup Previews)
  BY DEF BackupTypes, FilesNamed, SweepBackups, EndBackups
<1>2. \A f \in disk \ stuck : f[1] \in BackupKinds => BackupOwned(f)
  BY <1>1 DEF BackupFiles
<1>3. CASE SweepBackups
  <2>1. UNCHANGED <<up, closing, requests, active, worker>> /\ Prune(job, active, disk)
    BY <1>3 DEF SweepBackups
  <2>2. PICK left, ord : /\ ord = Pruned(order, job, active, left)
                         /\ Retain(ord, job, disk, left, Pruned(order, job, active, {}))
    BY <2>1 DEF Prune
  <2>3. /\ ord \in Seq(Jobs) /\ ToSet(ord) \subseteq ToSet(order)
        /\ active \in ToSet(order) /\ ~job[active].exp => active \in ToSet(ord)
    BY <1>1, <2>2, PrunedFacts
  <2>4. PICK jb : jb = job
    OBVIOUS
  <2>5. \A k \in Jobs : k \notin ToSet(order) => jb[k] = NoJob
    BY <2>4 DEF BackupsRun
  <2>6. \A k \in Jobs : jb[k].asked => jb[k].stop /\ jb[k].st # "completed"
    BY <2>4 DEF BackupsRun
  <2>7. \A k \in Jobs : worker'[k] \in 1..10 =>
           active' = k /\ k \in ToSet(ord) /\ jb[k].st = "running" /\ ~jb[k].exp
    BY <2>1, <2>3, <2>4 DEF BackupsRun
  <2>8. /\ order' = ord
        /\ job' = [k \in Jobs |-> IF k \in ToSet(ord) THEN jb[k] ELSE NoJob]
        /\ disk' = disk \ ((UNION {Path(jb, k) : k \in ToSet(order) \ ToSet(ord)}) \ left)
        /\ stuck' = (stuck \cup left) \cap disk'
    BY <2>2, <2>3, <2>4, <2>5 DEF Retain, Removes
  <2>9. \A f \in disk \ (stuck \cup left) : f[1] \in BackupKinds =>
            \/ f[1] = "stage"
            \/ f[2] \in Jobs /\ worker'[f[2]] \in 1..10 /\ f \in Files(f[2], worker'[f[2]])
            \/ f[2] \in Jobs /\ f \in Path(jb, f[2])
    BY <1>2, <2>1, <2>4 DEF BackupOwned
  <2>10. jb \in [Jobs -> JobRows] /\ active' \in Jobs \cup {Nobody} /\ worker' \in [Jobs -> 0..12]
    BY <1>1, <2>1, <2>4
  <2>11. ord \in Seq(Jobs) /\ ToSet(ord) \subseteq ToSet(order) /\ UNCHANGED <<up, restoreVars>>
    BY <2>1, <2>3
  <2> QED  BY <2>5, <2>6, <2>7, <2>8, <2>9, <2>10, <2>11, RetainKeeps
<1>4. CASE EndBackups
  <2>1. PICK files, left : /\ files = {f \in disk : f[2] \in ToSet(order) /\ (f[1] = "snapshot" \/ f \in Path(job, f[2]))}
                           /\ disk' = disk \ (files \ left) /\ stuck' = (stuck \cup left) \cap disk'
    BY <1>4 DEF EndBackups, Removes
  <2>2. /\ order' = <<>> /\ active' = Nobody /\ job' = [k \in Jobs |-> NoJob]
        /\ BackupSlots = {} /\ UNCHANGED <<up, worker>>
    BY <1>4 DEF EndBackups
  <2>3. \A k \in Jobs : worker[k] = 0
    BY <2>2 DEF BackupSlots, Idle
  <2>4. BackupTypes'
    BY <1>1, <2>2, FewElems DEF BackupTypes, NoJob, JobRows
  <2>5. BackupsRun'
    BY <2>2, <2>3 DEF BackupsRun, NoJob
  <2>6. /\ disk' \subseteq disk /\ \A f \in disk \ disk' : f[1] \in BackupKinds
        /\ \A f \in disk' \ stuck' : f \in disk \ stuck /\ f \notin files
    BY <2>1, BackupTable DEF BackupKinds, OwnedBackupKinds
  <2>7. BackupFiles'
    <3>1. SUFFICES ASSUME NEW f \in disk' \ stuck', f[1] \in BackupKinds
                   PROVE  f[1] = "stage"
      BY DEF BackupFiles, BackupOwned
    <3>2. f[1] = "stage" \/ (f[2] \in Jobs /\ f \in Path(job, f[2]))
      BY <1>2, <2>3, <2>6, <3>1 DEF BackupOwned
    <3>3. ASSUME f[2] \in Jobs, f \in Path(job, f[2]) PROVE FALSE
      <4>1. f[2] \in ToSet(order)
        BY <3>3 DEF BackupsRun, NoJob, Path
      <4> QED  BY <2>1, <2>6, <3>1, <3>3, <4>1
    <3> QED  BY <3>2, <3>3
  <2>8. RestoreInv'
    BY <2>2, <2>6, RestoresAlone
  <2> QED  BY <1>1, <2>2, <2>4, <2>5, <2>6, <2>7, <2>8 DEF FilesNamed
<1> QED  BY <1>3, <1>4

-----------------------------------------------------------------------------
\* Each step of the restores. What a prune leaves: the listed uploads are on disk, the
\* previews keep theirs, and what it removes is an upload that is no longer listed.
LEMMA RestoreTable ==
    ASSUME RestoreTypes
    PROVE  /\ ToSet(uploads) \subseteq Uploads /\ ToSet(previews) \subseteq Previews
           /\ \A p \in Previews : preview[p] \in PreviewRows
           /\ NoPreview \in PreviewRows /\ ~NoPreview.asked /\ NoPreview.st = "none"
           /\ \A u : UploadFile(u) = <<"upload", u>> /\ UploadFile(u)[1] = "upload" /\ UploadFile(u)[2] = u
BY ListedElems DEF RestoreTypes, PreviewRows, NoPreview, UploadFile

LEMMA PruneKeeps ==
    ASSUME JobsInv, NEW pv \in [Previews -> PreviewRows], NEW out, NEW busy, NEW new \in Seq(Previews),
           PruneRestores(pv, out, busy, new)
    PROVE  /\ uploads' \in Seq(Uploads) /\ previews' \in Seq(Previews) /\ preview' \in [Previews -> PreviewRows]
           /\ ToSet(uploads') \subseteq ToSet(uploads)
           /\ ToSet(previews') \subseteq ToSet(previews) \cup ToSet(new)
           /\ ToSet(new) \cup (busy \cap ToSet(previews)) \subseteq ToSet(previews')
           /\ \A p \in ToSet(previews') : p \in ToSet(new) \/ preview[p].of \in ToSet(uploads')
           /\ \A p \in ToSet(previews') : preview'[p] = pv[p]
           /\ \A p \in Previews : p \notin ToSet(previews') => preview'[p] = NoPreview
           /\ disk' \subseteq disk
           /\ \A p \in ToSet(previews') : p \in ToSet(new) \/ (UploadFile(preview[p].of) \in disk => UploadFile(preview[p].of) \in disk')
           /\ \A f \in disk' \ stuck' :
                 f \in disk \ stuck /\ \A u \in ToSet(uploads) \ ToSet(uploads') : f # UploadFile(u)
<1> USE DEF JobsInv, RestoreInv
<1> DEFINE us0(left) == PrunedUploads(pv, out, busy, left)
           ps0 == PreviewRoom(UnexpiredPreviews(pv, busy), busy)
<1>a. PICK left, unlinked :
         /\ unlinked \in {{}, left} /\ LeftOver(left) \cap ToSet(us0({})) = {}
         /\ uploads' = us0(left) /\ previews' = ps0 \o new
         /\ preview' = [p \in Previews |-> IF p \in ToSet(ps0 \o new) THEN pv[p] ELSE NoPreview]
         /\ disk' = disk \ ({UploadFile(u) : u \in ToSet(uploads) \ ToSet(us0(left))} \cup unlinked)
         /\ stuck' = (stuck \cup left) \cap disk'
  BY DEF PruneRestores
<1>b. PICK us, full, ps : us = us0(left) /\ full = us0({}) /\ ps = ps0
  OBVIOUS
<1>1. /\ us = PrunedUploads(pv, out, busy, left) /\ ps = PreviewRoom(UnexpiredPreviews(pv, busy), busy)
      /\ full = PrunedUploads(pv, out, busy, {})
  BY <1>b
<1> HIDE DEF us0, ps0
<1>2. /\ uploads' = us /\ previews' = ps \o new
      /\ preview' = [p \in Previews |-> IF p \in ToSet(ps \o new) THEN pv[p] ELSE NoPreview]
  BY <1>a, <1>b
<1>3. /\ disk' = disk \ ({UploadFile(u) : u \in ToSet(uploads) \ ToSet(us)} \cup unlinked)
      /\ stuck' = (stuck \cup left) \cap disk' /\ LeftOver(left) \cap ToSet(full) = {}
  BY <1>a, <1>b
<1>4. /\ us \in Seq(Uploads) /\ ToSet(us) \subseteq ToSet(uploads)
      /\ ps \in Seq(Previews) /\ ToSet(ps) \subseteq ToSet(previews)
      /\ busy \cap ToSet(previews) \subseteq ToSet(ps)
      /\ \A p \in ToSet(ps) : preview[p].of \in ToSet(us)
  BY <1>1, PrunedUploadsFacts
<1>5. previews' \in Seq(Previews) /\ ToSet(previews') = ToSet(ps) \cup ToSet(new)
  BY <1>2, <1>4, JoinedElems
<1>6. /\ \A p \in ToSet(previews') : p \in Previews /\ preview'[p] = pv[p]
      /\ \A p \in Previews : p \notin ToSet(previews') => preview'[p] = NoPreview
  BY <1>2, <1>5, ListedElems
<1>7. preview' \in [Previews -> PreviewRows]
  BY <1>2, RestoreTable
<1>8. /\ disk' \subseteq disk
      /\ \A f \in disk' \ stuck' : f \in disk \ stuck /\ \A u \in ToSet(uploads) \ ToSet(us) : f # UploadFile(u)
  BY <1>3
<1>9. uploads' \in Seq(Uploads) /\ ToSet(uploads') \subseteq ToSet(uploads) /\ uploads' = us
  BY <1>2, <1>4
<1>10. \A p \in ToSet(previews') : p \in ToSet(new) \/ preview[p].of \in ToSet(uploads')
  BY <1>4, <1>5, <1>9
<1>11. \A p \in ToSet(ps) : preview[p].of \in Uploads /\ preview[p].of \in ToSet(us) /\ UploadFile(preview[p].of) \notin left
  <2>1. \A p \in ToSet(ps) : preview[p].of \in ToSet(full)
    BY <1>1, PrunedUploadsFacts
  <2>2. \A p \in ToSet(ps) : preview[p].of \in Uploads
    BY <1>4, RestoreTable
  <2> QED  BY <1>3, <1>4, <2>1, <2>2 DEF LeftOver
<1>12. \A p \in ToSet(ps) : UploadFile(preview[p].of) \in disk => UploadFile(preview[p].of) \in disk'
  BY <1>a, <1>3, <1>11, RestoreTable
<1> QED  BY <1>4, <1>5, <1>6, <1>7, <1>8, <1>9, <1>10, <1>12

\* A prune, and what its caller does to the requests, the previews and the confirmation.
LEMMA PruneStep ==
    ASSUME JobsInv, up = "up", UNCHANGED <<up, backupVars, intent>>,
           NEW pv \in [Previews -> PreviewRows], NEW out, NEW busy, NEW new \in Seq(Previews),
           PruneRestores(pv, out, busy, new),
           \A p \in ToSet(previews) : pv[p].of = preview[p].of,
           \A p \in Previews : pv[p].asked => pv[p].stop /\ pv[p].st # "completed",
           \A p \in ToSet(new) : pv[p].of \in ToSet(uploads'),
           sending' \in [Uploads -> {"no", "counted", "writing", "linked", "final", "listed"}],
           \A u \in Uploads : sending'[u] # sending[u] => sending'[u] = "counted" /\ sending[u] = "no" /\ u \notin ToSet(uploads),
           running' \in ToSet(previews') \cup {Nobody}, confirming' \in ToSet(previews') \cup {Nobody},
           running' = Nobody \/ confirming' = Nobody,
           inspector' \in [Previews -> {"no", "queued", "verified", "inspecting", "inspected", "checked", "failed", "leaving"}],
           \A p \in Previews : inspector'[p] \notin {"no", "leaving"} => running' = p,
           \A p \in Previews : inspector[p] = "inspecting" => inspector'[p] = "inspecting",
           \A p \in ToSet(previews) \cup ToSet(new) :
               pv[p].st = "completed" \/ inspector'[p] \in {"verified", "inspecting", "inspected", "checked"}
                   => HasVerified(p) /\ p \notin ToSet(new),
           confirm' \in [at : {"no", "begun", "verified", "preparing", "prepared", "leaving"}, read : {"sent", "other"}],
           confirm'.at = "no" <=> confirming' = Nobody,
           confirming' # Nobody => pv[confirming'].st = "completed",
           confirm.at \in {"preparing", "prepared"} \/ confirm'.at \in {"preparing", "prepared"}
               => UNCHANGED <<confirm, confirming>>
    PROVE  JobsInv'
<1> USE DEF JobsInv, RestoreInv
<1>1. /\ uploads' \in Seq(Uploads) /\ previews' \in Seq(Previews) /\ preview' \in [Previews -> PreviewRows]
      /\ ToSet(uploads') \subseteq ToSet(uploads)
      /\ ToSet(previews') \subseteq ToSet(previews) \cup ToSet(new)
      /\ \A p \in ToSet(previews') : p \in ToSet(new) \/ preview[p].of \in ToSet(uploads')
      /\ \A p \in ToSet(previews') : preview'[p] = pv[p]
      /\ \A p \in Previews : p \notin ToSet(previews') => preview'[p] = NoPreview
      /\ disk' \subseteq disk
      /\ \A p \in ToSet(previews') : p \in ToSet(new) \/ (UploadFile(preview[p].of) \in disk => UploadFile(preview[p].of) \in disk')
      /\ \A f \in disk' \ stuck' :
            f \in disk \ stuck /\ \A u \in ToSet(uploads) \ ToSet(uploads') : f # UploadFile(u)
  BY PruneKeeps
<1>2. ToSet(previews') \subseteq Previews /\ ToSet(uploads') \subseteq Uploads
  BY <1>1, ListedElems
<1>3. RestoreTypes'
  BY <1>1, <1>2 DEF RestoreTypes
<1>4. \A u \in ToSet(uploads') : sending'[u] = sending[u] /\ sending[u] \in {"no", "listed"}
  BY <1>1, <1>2 DEF RestoresRun
<1>5. RestoresRun'
  <2>1. \A p \in Previews : preview'[p].asked => preview'[p].stop /\ preview'[p].st # "completed"
    BY <1>1, <1>2, RestoreTable
  <2>2. up' = "up"
    OBVIOUS
  <2> QED  BY <1>4, <2>1, <2>2 DEF RestoresRun
<1>6. ReferencedStays'
  <2>1. \A p \in ToSet(previews') : preview'[p].of \in ToSet(uploads')
    BY <1>1
  <2>2. confirming' # Nobody => preview'[confirming'].st = "completed"
    BY <1>1
  <2>3. ASSUME NEW p \in ToSet(previews'), HasVerified(p)'
        PROVE  UploadFile(preview'[p].of) \in disk'
    <3>1. HasVerified(p) /\ p \in ToSet(previews) /\ preview'[p] = pv[p] /\ p \notin ToSet(new)
      BY <1>1, <2>3 DEF HasVerified
    <3>2. UploadFile(preview[p].of) \in disk /\ pv[p].of = preview[p].of
      BY <3>1 DEF ReferencedStays
    <3> QED  BY <1>1, <3>1, <3>2
  <2> QED  BY <2>1, <2>2, <2>3 DEF ReferencedStays
<1>7. ConfirmedIsPreviewed'
  BY DEF ConfirmedIsPreviewed
<1>8. RestoreFiles'
  <2>1. SUFFICES ASSUME NEW f \in disk' \ stuck'
                 PROVE  /\ f[1] \notin BackupKinds => RestoreOwned(f)'
                        /\ f[1] = "upload" /\ sending'[f[2]] = "listed" => f[2] \in ToSet(uploads')
                        /\ f[1] \in OrphanKinds /\ confirm'.at = "prepared" => f[1] = "pair"
    BY DEF RestoreFiles
  <2>2. f \in disk \ stuck /\ \A u \in ToSet(uploads) \ ToSet(uploads') : f # UploadFile(u)
    BY <1>1
  <2>3. /\ f[1] \notin BackupKinds => RestoreOwned(f)
        /\ f[1] = "upload" /\ sending[f[2]] = "listed" => f[2] \in ToSet(uploads)
        /\ f[1] \in OrphanKinds /\ confirm.at = "prepared" => f[1] = "pair"
    BY <2>2 DEF RestoreFiles
  <2>4. f = <<f[1], f[2]>>
    BY <2>2 DEF FilesNamed
  <2>5. f[1] = "upload" /\ f[2] \in ToSet(uploads) => f[2] \in ToSet(uploads')
    BY <2>2, <2>4, RestoreTable
  <2>6. ASSUME RestoreOwned(f) PROVE RestoreOwned(f)'
    <3>1. CASE f[2] \in Uploads /\ f \in UploadFiles(f[2], sending[f[2]])
      <4>1. sending'[f[2]] = sending[f[2]]
        BY <3>1, UploadFilesFacts
      <4> QED  BY <3>1, <4>1 DEF RestoreOwned
    <3>2. CASE f[1] = "upload" /\ f[2] \in ToSet(uploads)
      BY <2>5, <3>2 DEF RestoreOwned
    <3>3. CASE f[2] \in Previews /\ f \in Scratch(f[2]) /\ inspector[f[2]] = "inspecting"
      BY <3>3 DEF RestoreOwned
    <3>4. CASE confirming = f[2] /\ f \in Work(f[2]) /\ confirm.at \in {"preparing", "prepared"}
      BY <3>4 DEF RestoreOwned
    <3>5. CASE f[1] = "pair" /\ intent.made
      BY <3>5 DEF RestoreOwned
    <3> QED  BY <2>6, <3>1, <3>2, <3>3, <3>4, <3>5 DEF RestoreOwned
  <2>7. f[1] = "upload" /\ sending'[f[2]] = "listed" => f[2] \in ToSet(uploads')
    <3>1. SUFFICES ASSUME f[1] = "upload", sending'[f[2]] = "listed" PROVE f[2] \in ToSet(uploads')
      OBVIOUS
    <3>2. RestoreOwned(f)
      BY <2>3, <3>1 DEF BackupKinds, OwnedBackupKinds
    <3>3. f[2] \in Uploads
      BY <3>1, <3>2, RestoreTable DEF RestoreOwned, Scratch, Extracted, Work
    <3> QED  BY <2>3, <2>5, <3>1, <3>3
  <2> QED  BY <2>3, <2>6, <2>7
<1>9. BackupInv'
  BY <1>1, BackupsAlone
<1>10. FilesNamed'
  BY <1>1 DEF FilesNamed
<1> QED  BY <1>3, <1>5, <1>6, <1>7, <1>8, <1>9, <1>10

LEMMA PruningSteps ==
    ASSUME JobsInv,
           \/ SweepRestores \/ (\E u \in Uploads : BeginUpload(u))
           \/ (\E p \in Previews, u \in Uploads : StartPreview(p, u))
           \/ (\E p \in Previews : CompletePreview(p)) \/ (\E p \in Previews : FailPreview(p))
           \/ (\E p \in Previews : BeginConfirm(p)) \/ EndConfirm
    PROVE  JobsInv'
<1> USE DEF JobsInv, RestoreInv
<1>1. /\ running \in ToSet(previews) \cup {Nobody} /\ confirming \in ToSet(previews) \cup {Nobody}
      /\ running = Nobody \/ confirming = Nobody
      /\ preview \in [Previews -> PreviewRows]
  BY DEF RestoresRun, ReferencedStays, RestoreTypes
<1>2. <<>> \in Seq(Previews) /\ ToSet(<<>>) = {} /\ \A p \in Previews : <<p>> \in Seq(Previews) /\ ToSet(<<p>>) = {p}
  BY FewElems
<1>3. CASE SweepRestores
  <2>1. PICK pv, out, busy, new : pv = preview /\ out = expired /\ busy = {running, confirming} /\ new = <<>>
    OBVIOUS
  <2>2. PruneRestores(pv, out, busy, new)
    BY <1>3, <2>1 DEF SweepRestores, PruneRestores, Removes
  <2>3. pv \in [Previews -> PreviewRows] /\ new \in Seq(Previews) /\ ToSet(new) = {}
    BY <1>1, <1>2, <2>1
  <2>4. UNCHANGED <<up, backupVars, intent, sending, running, inspector, confirming, confirm>> /\ up = "up"
    BY <1>3 DEF SweepRestores, Serving
  <2>5. busy \cap ToSet(previews) \subseteq ToSet(previews')
    BY <2>2, <2>3, PruneKeeps
  <2>6. running \in ToSet(previews') \cup {Nobody} /\ confirming \in ToSet(previews') \cup {Nobody}
    BY <1>1, <2>1, <2>5
  <2> QED  BY <1>1, <2>1, <2>2, <2>3, <2>4, <2>6, PruneStep DEF RestoreTypes, RestoresRun, ReferencedStays, HasVerified
<1>4. CASE \E u \in Uploads : BeginUpload(u)
  <2>0. PICK u \in Uploads : BeginUpload(u)
    BY <1>4
  <2>1. PICK pv, out, busy, new : pv = preview /\ out = expired /\ busy = {running, confirming} /\ new = <<>>
    OBVIOUS
  <2>2. PruneRestores(pv, out, busy, new)
    BY <2>0, <2>1 DEF BeginUpload, PruneRestores, Removes
  <2>3. pv \in [Previews -> PreviewRows] /\ new \in Seq(Previews) /\ ToSet(new) = {}
    BY <1>1, <1>2, <2>1
  <2>4. /\ UNCHANGED <<up, backupVars, intent, running, inspector, confirming, confirm>> /\ up = "up"
        /\ sending' = [sending EXCEPT ![u] = "counted"] /\ u \notin ToSet(uploads) /\ sending[u] = "no"
    BY <2>0 DEF BeginUpload, Serving
  <2>5. busy \cap ToSet(previews) \subseteq ToSet(previews')
    BY <2>2, <2>3, PruneKeeps
  <2>6. running \in ToSet(previews') \cup {Nobody} /\ confirming \in ToSet(previews') \cup {Nobody}
    BY <1>1, <2>1, <2>5
  <2>7. /\ sending' \in [Uploads -> {"no", "counted", "writing", "linked", "final", "listed"}]
        /\ \A v \in Uploads : sending'[v] # sending[v] => sending'[v] = "counted" /\ sending[v] = "no" /\ v \notin ToSet(uploads)
    BY <2>4 DEF RestoreTypes
  <2>8. \A q \in Previews : pv[q].asked => pv[q].stop /\ pv[q].st # "completed"
    BY <2>1 DEF RestoresRun
  <2>9. confirming' # Nobody => pv[confirming'].st = "completed"
    BY <2>1, <2>4 DEF ReferencedStays
  <2>10. /\ inspector' \in [Previews -> {"no", "queued", "verified", "inspecting", "inspected", "checked", "failed", "leaving"}]
         /\ \A q \in Previews : inspector'[q] \notin {"no", "leaving"} => running' = q
         /\ confirm' \in [at : {"no", "begun", "verified", "preparing", "prepared", "leaving"}, read : {"sent", "other"}]
         /\ confirm'.at = "no" <=> confirming' = Nobody
         /\ running' = Nobody \/ confirming' = Nobody
    BY <1>1, <2>4 DEF RestoreTypes, RestoresRun
  <2>11. \A q \in ToSet(previews) : pv[q].of = preview[q].of
    BY <2>1
  <2>12. \A q \in ToSet(previews) \cup ToSet(new) :
            pv[q].st = "completed" \/ inspector'[q] \in {"verified", "inspecting", "inspected", "checked"}
                => HasVerified(q) /\ q \notin ToSet(new)
    BY <2>1, <2>3, <2>4 DEF HasVerified
  <2> QED  BY <2>2, <2>3, <2>4, <2>6, <2>7, <2>8, <2>9, <2>10, <2>11, <2>12, PruneStep
<1>5. CASE \E p \in Previews, u \in Uploads : StartPreview(p, u)
  <2>0. PICK p \in Previews, u \in Uploads : StartPreview(p, u)
    BY <1>5
  <2>1. PICK pv, out, busy, new :
          pv = [preview EXCEPT ![p] = [NoPreview EXCEPT !.st = "running", !.of = u]] /\ out = expired /\ busy = {} /\ new = <<p>>
    OBVIOUS
  <2>2. PruneRestores(pv, out, busy, new)
    BY <2>0, <2>1 DEF StartPreview, PruneRestores, Removes
  <2>3. /\ pv \in [Previews -> PreviewRows] /\ new \in Seq(Previews) /\ ToSet(new) = {p}
        /\ pv[p].of = u /\ ~pv[p].asked /\ \A q \in Previews : q # p => pv[q] = preview[q]
    BY <1>1, <1>2, <2>1 DEF NoPreview, PreviewRows
  <2>4. /\ UNCHANGED <<up, backupVars, intent, sending, confirming, confirm>> /\ up = "up"
        /\ running = Nobody /\ confirming = Nobody /\ p \notin ToSet(previews)
        /\ inspector' = [inspector EXCEPT ![p] = "queued"] /\ running' = p /\ u \in ToSet(uploads') /\ inspector[p] = "no"
    BY <2>0 DEF StartPreview, Serving
  <2>5. ToSet(new) \subseteq ToSet(previews')
    BY <2>2, <2>3, PruneKeeps
  <2>6. \A q \in ToSet(previews) : pv[q].of = preview[q].of
    BY <2>3, <2>4, RestoreTable
  <2>7. /\ inspector' \in [Previews -> {"no", "queued", "verified", "inspecting", "inspected", "checked", "failed", "leaving"}]
        /\ \A q \in Previews : inspector'[q] \notin {"no", "leaving"} => running' = q
        /\ \A q \in Previews : inspector[q] = "inspecting" => inspector'[q] = "inspecting"
    BY <2>4, RecoveryAssumption DEF RestoreTypes, RestoresRun
  <2>8. \A q \in Previews : pv[q].asked => pv[q].stop /\ pv[q].st # "completed"
    BY <2>3 DEF RestoresRun
  <2>9. \A q \in ToSet(new) : pv[q].of \in ToSet(uploads')
    BY <2>3, <2>4
  <2>10. /\ inspector' \in [Previews -> {"no", "queued", "verified", "inspecting", "inspected", "checked", "failed", "leaving"}]
         /\ \A q \in Previews : inspector'[q] \notin {"no", "leaving"} => running' = q
         /\ confirm' \in [at : {"no", "begun", "verified", "preparing", "prepared", "leaving"}, read : {"sent", "other"}]
         /\ confirm'.at = "no" <=> confirming' = Nobody
         /\ running' = Nobody \/ confirming' = Nobody
    BY <1>1, <2>4, <2>7 DEF RestoreTypes, RestoresRun
  <2>11. sending' \in [Uploads -> {"no", "counted", "writing", "linked", "final", "listed"}]
    BY <2>4 DEF RestoreTypes
  <2>12. running' \in ToSet(previews') \cup {Nobody} /\ confirming' = Nobody
    BY <2>3, <2>4, <2>5
  <2>13. \A q \in ToSet(previews) \cup ToSet(new) :
            pv[q].st = "completed" \/ inspector'[q] \in {"verified", "inspecting", "inspected", "checked"}
                => HasVerified(q) /\ q \notin ToSet(new)
    <3>1. pv[p].st = "running" /\ inspector'[p] = "queued"
      BY <1>1, <2>1, <2>4 DEF RestoreTypes
    <3>2. \A q \in ToSet(previews) : q # p /\ q \in Previews /\ pv[q] = preview[q] /\ inspector'[q] = inspector[q]
      BY <2>3, <2>4, RestoreTable DEF RestoreTypes
    <3> QED  BY <2>3, <3>1, <3>2 DEF HasVerified
  <2> QED  BY <2>2, <2>3, <2>4, <2>6, <2>7, <2>8, <2>9, <2>10, <2>11, <2>12, <2>13, PruneStep
<1>6. CASE \E p \in Previews : CompletePreview(p) \/ FailPreview(p)
  <2>0. PICK p \in Previews, st \in {"failed", "cancelled", "completed"} :
           /\ up = "up" /\ inspector[p] \in {"queued", "verified", "inspected", "checked", "failed"}
           /\ st = "completed" => inspector[p] = "checked" /\ ~preview[p].asked
           /\ FinishAs(p, st)
    <3>1. CASE \E p \in Previews : CompletePreview(p)
      BY <3>1 DEF CompletePreview
    <3>2. CASE \E p \in Previews : FailPreview(p)
      BY <3>2 DEF FailPreview
    <3> QED  BY <1>6, <3>1, <3>2
  <2>1. PICK pv, out, busy, new :
          /\ pv = [preview EXCEPT ![p].st = st]
          /\ out = (IF st = "completed" THEN expired \ {preview[p].of} ELSE expired)
          /\ busy = {confirming} /\ new = <<>>
    OBVIOUS
  <2>2. PruneRestores(pv, out, busy, new)
    BY <2>0, <2>1 DEF FinishAs, PruneRestores, Removes
  <2>3. /\ pv \in [Previews -> PreviewRows] /\ new \in Seq(Previews) /\ ToSet(new) = {}
        /\ pv[p].st = st /\ pv[p].of = preview[p].of /\ pv[p].asked = preview[p].asked /\ pv[p].stop = preview[p].stop
        /\ \A q \in Previews : q # p => pv[q] = preview[q]
    BY <1>1, <1>2, <2>1 DEF PreviewRows, Terminal
  <2>4. /\ UNCHANGED <<up, backupVars, intent, sending, confirming, confirm>>
        /\ running = p /\ confirming = Nobody /\ running' = Nobody /\ inspector' = [inspector EXCEPT ![p] = "leaving"]
    BY <1>1, <2>0, RestoreTable, RecoveryAssumption DEF FinishAs, RestoresRun
  <2>5. \A q \in ToSet(previews) : pv[q].of = preview[q].of
    BY <2>3, RestoreTable
  <2>6. \A q \in Previews : pv[q].asked => pv[q].stop /\ pv[q].st # "completed"
    BY <2>0, <2>3 DEF RestoresRun
  <2>7. /\ inspector' \in [Previews -> {"no", "queued", "verified", "inspecting", "inspected", "checked", "failed", "leaving"}]
        /\ \A q \in Previews : inspector'[q] \notin {"no", "leaving"} => running' = q
        /\ \A q \in Previews : inspector[q] = "inspecting" => inspector'[q] = "inspecting"
    BY <2>0, <2>4 DEF RestoreTypes, RestoresRun
  <2>8. \A q \in ToSet(previews) \cup ToSet(new) :
           pv[q].st = "completed" \/ inspector'[q] \in {"verified", "inspecting", "inspected", "checked"}
               => HasVerified(q) /\ q \notin ToSet(new)
    BY <2>0, <2>3, <2>4, RestoreTable DEF HasVerified, RestoreTypes
  <2> QED  BY <2>0, <2>2, <2>3, <2>4, <2>5, <2>6, <2>7, <2>8, PruneStep DEF RestoreTypes, RestoresRun
<1>7. CASE \E p \in Previews : BeginConfirm(p)
  <2>0. PICK p \in Previews : BeginConfirm(p)
    BY <1>7
  <2>1. PICK pv, out, busy, new : pv = preview /\ out = expired /\ busy = {running, confirming} /\ new = <<>>
    OBVIOUS
  <2>2. PruneRestores(pv, out, busy, new)
    BY <2>0, <2>1 DEF BeginConfirm, PruneRestores, Removes
  <2>3. pv \in [Previews -> PreviewRows] /\ new \in Seq(Previews) /\ ToSet(new) = {}
    BY <1>1, <1>2, <2>1
  <2>4. /\ UNCHANGED <<up, backupVars, intent, sending, running, inspector>> /\ up = "up"
        /\ running = Nobody /\ confirming = Nobody /\ confirm.at = "no" /\ preview'[p].st = "completed"
        /\ confirming' = p /\ confirm' = [NoConfirm EXCEPT !.at = "begun"]
    BY <2>0 DEF BeginConfirm, Serving
  <2>5. p \in ToSet(previews') /\ pv[p].st = "completed"
    BY <2>2, <2>3, <2>4, PruneKeeps, RestoreTable
  <2>6. /\ confirm' \in [at : {"no", "begun", "verified", "preparing", "prepared", "leaving"}, read : {"sent", "other"}]
        /\ confirm'.at = "begun"
    BY <2>4 DEF NoConfirm
  <2>7. p # Nobody
    BY RecoveryAssumption
  <2> QED  BY <1>1, <2>1, <2>2, <2>3, <2>4, <2>5, <2>6, <2>7, PruneStep DEF RestoreTypes, RestoresRun, HasVerified
<1>8. CASE EndConfirm
  <2>1. PICK pv, out, busy, new : pv = preview /\ out = expired /\ busy = {running} /\ new = <<>>
    OBVIOUS
  <2>2. PruneRestores(pv, out, busy, new)
    BY <1>8, <2>1 DEF EndConfirm, PruneRestores, Removes
  <2>3. pv \in [Previews -> PreviewRows] /\ new \in Seq(Previews) /\ ToSet(new) = {}
    BY <1>1, <1>2, <2>1
  <2>4. /\ UNCHANGED <<up, backupVars, intent, sending, running, inspector>> /\ up = "up"
        /\ confirm.at = "leaving" /\ confirming' = Nobody /\ confirm' = NoConfirm
    BY <1>8 DEF EndConfirm
  <2>5. busy \cap ToSet(previews) \subseteq ToSet(previews')
    BY <2>2, <2>3, PruneKeeps
  <2>6. running \in ToSet(previews') \cup {Nobody}
    BY <1>1, <2>1, <2>5
  <2>7. /\ confirm' \in [at : {"no", "begun", "verified", "preparing", "prepared", "leaving"}, read : {"sent", "other"}]
        /\ confirm'.at = "no"
    BY <2>4 DEF NoConfirm
  <2> QED  BY <1>1, <2>1, <2>2, <2>3, <2>4, <2>6, <2>7, PruneStep DEF RestoreTypes, RestoresRun, HasVerified
<1> QED  BY <1>3, <1>4, <1>5, <1>6, <1>7, <1>8

\* A step that leaves the table of previews and uploads in their order.
LEMMA UploadSteps1 ==
    ASSUME JobsInv, NEW u \in Uploads, AdvanceUpload(u) \/ ListUpload(u) \/ EndUpload(u) \/ Rewrite(u)
    PROVE  JobsInv'
<1> USE DEF JobsInv, RestoreInv
<1>1. /\ UNCHANGED <<up, backupVars, previews, preview, running, inspector, confirming, confirm, intent>> /\ up = "up"
      /\ sending \in [Uploads -> {"no", "counted", "writing", "linked", "final", "listed"}]
      /\ uploads \in Seq(Uploads) /\ ToSet(uploads) \subseteq Uploads
  BY RestoreTable DEF AdvanceUpload, ListUpload, EndUpload, Rewrite, Serving, RestoreTypes, shared
<1>2. \A f \in disk \ stuck :
         /\ f[1] \notin BackupKinds => RestoreOwned(f)
         /\ f[1] = "upload" /\ sending[f[2]] = "listed" => f[2] \in ToSet(uploads)
         /\ f[1] \in OrphanKinds /\ confirm.at = "prepared" => f[1] = "pair"
  BY <1>1 DEF RestoreFiles
<1>3. /\ \A v : UploadFile(v) = <<"upload", v>> /\ UploadTemp(v) = <<"upTemp", v>>
      /\ "upload" \notin BackupKinds /\ "upTemp" \notin BackupKinds
      /\ "upload" \notin OrphanKinds /\ "upTemp" \notin OrphanKinds
      /\ "upload" \in OwnedRestoreKinds /\ "upTemp" \in OwnedRestoreKinds
  BY DEF UploadFile, UploadTemp, BackupKinds, OwnedBackupKinds, OrphanKinds, OwnedRestoreKinds
<1>4. \A v \in Uploads : UploadFiles(v, sending[v]) \subseteq {UploadFile(v), UploadTemp(v)}
  BY <1>1, UploadFilesFacts
<1>5. CASE UNCHANGED <<disk, stuck, uploads, sending>>
  <2>1. RestoreTypes' /\ RestoresRun' /\ ReferencedStays' /\ ConfirmedIsPreviewed'
    BY <1>1, <1>5 DEF RestoreTypes, RestoresRun, ReferencedStays, HasVerified, ConfirmedIsPreviewed
  <2>2. \A f : RestoreOwned(f)' <=> RestoreOwned(f)
    BY <1>1, <1>5 DEF RestoreOwned
  <2>3. RestoreFiles'
    BY <1>1, <1>2, <1>5, <2>2 DEF RestoreFiles
  <2> QED  BY <1>1, <1>5, <2>1, <2>3, BackupsAlone DEF FilesNamed
<1>6. CASE ListUpload(u)
  <2>1. /\ sending[u] = "final" /\ UploadFile(u) \in disk /\ UNCHANGED <<disk, stuck>>
        /\ sending' = [sending EXCEPT ![u] = "listed"] /\ uploads' = Append(uploads, u)
    BY <1>6 DEF ListUpload, Verified, shared
  <2>2. uploads' \in Seq(Uploads) /\ ToSet(uploads') = ToSet(uploads) \cup {u}
    BY <1>1, <2>1, AppendedElems
  <2>3. /\ sending' \in [Uploads -> {"no", "counted", "writing", "linked", "final", "listed"}]
        /\ sending'[u] = "listed" /\ \A v \in Uploads : v # u => sending'[v] = sending[v]
    BY <1>1, <2>1
  <2>4. RestoreTypes'
    BY <1>1, <2>2, <2>3 DEF RestoreTypes
  <2>5. RestoresRun'
    BY <1>1, <2>1, <2>2, <2>3 DEF RestoresRun
  <2>6. ReferencedStays' /\ ConfirmedIsPreviewed'
    BY <1>1, <2>1, <2>2 DEF ReferencedStays, HasVerified, ConfirmedIsPreviewed
  <2>7. ASSUME NEW f, RestoreOwned(f) PROVE RestoreOwned(f)'
    <3>1. CASE f[2] \in Uploads /\ f \in UploadFiles(f[2], sending[f[2]])
      BY <2>1, <2>3, <3>1, UploadFilesFacts DEF RestoreOwned
    <3>2. CASE ~(f[2] \in Uploads /\ f \in UploadFiles(f[2], sending[f[2]]))
      BY <1>1, <2>2, <2>7, <3>2 DEF RestoreOwned
    <3> QED  BY <3>1, <3>2
  <2>8. ASSUME NEW f \in disk \ stuck, f[1] = "upload", sending'[f[2]] = "listed" PROVE f[2] \in ToSet(uploads')
    <3>1. RestoreOwned(f)
      BY <1>2, <1>3, <2>8
    <3>2. f[2] \in Uploads
      BY <1>1, <2>8, <3>1 DEF RestoreOwned, Scratch, Extracted, Work
    <3> QED  BY <1>2, <2>2, <2>3, <2>8, <3>2
  <2>9. RestoreFiles'
    BY <1>1, <1>2, <2>1, <2>7, <2>8 DEF RestoreFiles
  <2> QED  BY <1>1, <2>1, <2>4, <2>5, <2>6, <2>9, BackupsAlone DEF FilesNamed
<1>7. CASE AdvanceUpload(u) \/ (EndUpload(u) /\ sending[u] # "listed")
  <2>1. PICK s \in {"no", "writing", "linked", "final"} : sending' = [sending EXCEPT ![u] = s]
    BY <1>1, <1>7 DEF AdvanceUpload, EndUpload, UploadSteps
  <2>2. /\ UNCHANGED uploads /\ sending[u] \in {"counted", "writing", "linked", "final"}
        /\ s = "no" => disk' \subseteq disk
        /\ disk' \subseteq disk \cup UploadFiles(u, s)
        /\ disk \ UploadFiles(u, sending[u]) \subseteq disk'
        /\ \A f \in disk' \ stuck' : (f \in disk \ stuck /\ f \notin UploadFiles(u, sending[u])) \/ f \in UploadFiles(u, s)
    BY <1>1, <1>7, <2>1 DEF AdvanceUpload, EndUpload, UploadSteps, Removes, Survivors
  <2>3. /\ sending' \in [Uploads -> {"no", "counted", "writing", "linked", "final", "listed"}]
        /\ sending'[u] = s /\ \A v \in Uploads : v # u => sending'[v] = sending[v]
    BY <1>1, <2>1
  <2>4. u \notin ToSet(uploads)
    BY <2>2 DEF RestoresRun
  <2>5. UploadFiles(u, s) \subseteq {UploadFile(u), UploadTemp(u)}
    BY <2>1, UploadFilesFacts
  <2>6. RestoreTypes'
    BY <1>1, <2>2, <2>3 DEF RestoreTypes
  <2>7. \A v \in ToSet(uploads) : UploadFile(v) \in disk => UploadFile(v) \in disk'
    BY <1>1, <1>3, <1>4, <2>2, <2>4
  <2>8. RestoresRun'
    BY <1>1, <2>2, <2>3, <2>4 DEF RestoresRun
  <2>9. ReferencedStays' /\ ConfirmedIsPreviewed'
    BY <1>1, <2>2, <2>7 DEF ReferencedStays, HasVerified, ConfirmedIsPreviewed
  <2>10. RestoreFiles'
    <3>1. SUFFICES ASSUME NEW f \in disk' \ stuck'
                   PROVE  /\ f[1] \notin BackupKinds => RestoreOwned(f)'
                          /\ f[1] = "upload" /\ sending'[f[2]] = "listed" => f[2] \in ToSet(uploads')
                          /\ f[1] \in OrphanKinds /\ confirm'.at = "prepared" => f[1] = "pair"
      BY DEF RestoreFiles
    <3>2. CASE f \in UploadFiles(u, s)
      BY <1>3, <2>1, <2>3, <2>5, <3>2 DEF RestoreOwned
    <3>3. CASE f \in disk \ stuck /\ f \notin UploadFiles(u, sending[u])
      <4>1. RestoreOwned(f) => RestoreOwned(f)'
        BY <1>1, <2>2, <2>3, <3>3 DEF RestoreOwned
      <4>2. f[1] = "upload" /\ sending'[f[2]] = "listed" => f[2] \in ToSet(uploads')
        <5>1. SUFFICES ASSUME f[1] = "upload", sending'[f[2]] = "listed" PROVE f[2] \in ToSet(uploads)
          BY <2>2
        <5>2. RestoreOwned(f)
          BY <1>2, <1>3, <3>3, <5>1
        <5>3. f[2] \in Uploads /\ f[2] # u
          BY <1>1, <2>1, <2>3, <5>1, <5>2 DEF RestoreOwned, Scratch, Extracted, Work
        <5> QED  BY <1>2, <2>3, <3>3, <5>1, <5>3
      <4> QED  BY <1>1, <1>2, <3>3, <4>1, <4>2
    <3> QED  BY <2>2, <3>1, <3>2, <3>3
  <2>11. FilesNamed'
    <3>1. UploadFiles(u, s) \subseteq (BackupKinds \cup OwnedRestoreKinds \cup OrphanKinds) \X (Jobs \cup Uploads \cup Previews)
      BY <1>3, <2>5
    <3> QED  BY <1>1, <2>2, <3>1 DEF FilesNamed
  <2>12. BackupInv'
    <3>1. \A f \in disk' \ stuck' : f[1] \in BackupKinds => f \in disk \ stuck
      BY <1>3, <2>2, <2>5
    <3> QED  BY <1>1, <3>1, BackupsAlone
  <2> QED  BY <2>6, <2>8, <2>9, <2>10, <2>11, <2>12
<1>8. CASE EndUpload(u) /\ sending[u] = "listed"
  <2>1. /\ UNCHANGED <<disk, stuck, uploads>> /\ sending' = [sending EXCEPT ![u] = "no"]
    BY <1>8 DEF EndUpload
  <2>2. /\ sending' \in [Uploads -> {"no", "counted", "writing", "linked", "final", "listed"}]
        /\ sending'[u] = "no" /\ \A v \in Uploads : v # u => sending'[v] = sending[v]
    BY <1>1, <2>1
  <2>3. RestoreTypes' /\ RestoresRun' /\ ReferencedStays' /\ ConfirmedIsPreviewed'
    BY <1>1, <2>1, <2>2 DEF RestoreTypes, RestoresRun, ReferencedStays, HasVerified, ConfirmedIsPreviewed
  <2>4. ASSUME NEW f \in disk \ stuck, f[1] \notin BackupKinds PROVE RestoreOwned(f)'
    <3>1. RestoreOwned(f)
      BY <1>2, <2>4
    <3>2. CASE f[2] = u /\ f \in UploadFiles(u, sending[u])
      BY <1>2, <1>3, <1>8, <2>1, <2>4, <3>2, UploadFilesFacts DEF RestoreOwned
    <3>3. CASE ~(f[2] = u /\ f \in UploadFiles(u, sending[u]))
      BY <1>1, <2>1, <2>2, <3>1, <3>3 DEF RestoreOwned
    <3> QED  BY <3>2, <3>3
  <2>5. ASSUME NEW f \in disk \ stuck, f[1] = "upload", sending'[f[2]] = "listed" PROVE f[2] \in ToSet(uploads)
    <3>1. RestoreOwned(f)
      BY <1>2, <1>3, <2>5
    <3>2. f[2] \in Uploads /\ f[2] # u
      BY <1>1, <2>2, <2>5, <3>1 DEF RestoreOwned, Scratch, Extracted, Work
    <3> QED  BY <1>2, <2>2, <2>5, <3>2
  <2>6. RestoreFiles'
    BY <1>1, <1>2, <2>1, <2>4, <2>5 DEF RestoreFiles
  <2> QED  BY <1>1, <2>1, <2>3, <2>6, BackupsAlone DEF FilesNamed
<1>9. CASE Rewrite(u)
  BY <1>5, <1>9 DEF Rewrite
<1> QED  BY <1>6, <1>7, <1>8, <1>9

LEMMA PreviewSteps ==
    ASSUME JobsInv, NEW p \in Previews,
           \/ InspectUpload(p) \/ ExtractUpload(p) \/ ClearScratch(p) \/ CheckPreview(p)
           \/ LeavePreview(p) \/ CancelPreview(p)
    PROVE  JobsInv'
<1> USE DEF JobsInv, RestoreInv
<1>1. /\ UNCHANGED <<up, backupVars, uploads, sending, previews, running, confirming, confirm, intent>> /\ up = "up"
      /\ preview \in [Previews -> PreviewRows]
      /\ inspector \in [Previews -> {"no", "queued", "verified", "inspecting", "inspected", "checked", "failed", "leaving"}]
  BY DEF InspectUpload, ExtractUpload, ClearScratch, CheckPreview, LeavePreview, CancelPreview, RestoreTypes, shared
<1>2. \A f \in disk \ stuck :
         /\ f[1] \notin BackupKinds => RestoreOwned(f)
         /\ f[1] = "upload" /\ sending[f[2]] = "listed" => f[2] \in ToSet(uploads)
         /\ f[1] \in OrphanKinds /\ confirm.at = "prepared" => f[1] = "pair"
  BY <1>1 DEF RestoreFiles
<1>3. /\ preview' \in [Previews -> PreviewRows]
      /\ \A q \in Previews : preview'[q].of = preview[q].of /\ preview'[q].st = preview[q].st
      /\ \A q \in Previews : preview'[q].asked => preview'[q].stop /\ preview'[q].st # "completed"
  <2>1. CASE UNCHANGED preview
    BY <1>1, <2>1 DEF RestoresRun
  <2>2. CASE ExtractUpload(p)
    <3>1. PICK b \in {"sent", "other"} : preview' = [preview EXCEPT ![p].shown = b]
      BY <2>2 DEF ExtractUpload, Bytes
    <3>2. PICK x : x = [preview[p] EXCEPT !.shown = b]
      OBVIOUS
    <3>3. preview[p] \in PreviewRows
      BY <1>1
    <3>4. /\ x \in PreviewRows /\ x.of = preview[p].of /\ x.st = preview[p].st
          /\ x.asked = preview[p].asked /\ x.stop = preview[p].stop
      BY <3>2, <3>3 DEF PreviewRows
    <3>5. preview' = [preview EXCEPT ![p] = x]
      BY <3>1, <3>2
    <3>6. preview' \in [Previews -> PreviewRows] /\ \A q \in Previews : preview'[q] = (IF q = p THEN x ELSE preview[q])
      BY <1>1, <3>4, <3>5
    <3>7. \A q \in Previews : preview[q].asked => preview[q].stop /\ preview[q].st # "completed"
      BY DEF RestoresRun
    <3>8. ASSUME NEW q \in Previews
          PROVE  /\ preview'[q].of = preview[q].of /\ preview'[q].st = preview[q].st
                 /\ preview'[q].asked => preview'[q].stop /\ preview'[q].st # "completed"
      <4>1. CASE q = p
        <5>1. preview'[q] = x
          BY <3>6, <4>1
        <5>2. x.asked => x.stop /\ x.st # "completed"
          BY <3>4, <3>7
        <5> QED  BY <3>4, <4>1, <5>1, <5>2
      <4>2. CASE q # p
        BY <3>6, <3>7, <4>2
      <4> QED  BY <4>1, <4>2
    <3> QED  BY <3>6, <3>8
  <2>3. CASE CancelPreview(p)
    <3>1. preview' = [preview EXCEPT ![p].asked = TRUE, ![p].stop = TRUE] /\ preview[p].st = "running"
      BY <2>3 DEF CancelPreview
    <3>2. PICK r \in PreviewRows : r = preview[p]
      BY <1>1
    <3>3. PICK x : x = [r EXCEPT !.asked = TRUE, !.stop = TRUE]
      OBVIOUS
    <3>4. x \in PreviewRows /\ x.of = r.of /\ x.st = r.st /\ x.stop /\ x.st = "running"
      BY <3>1, <3>2, <3>3 DEF PreviewRows
    <3>5. preview' = [preview EXCEPT ![p] = x]
      BY <1>1, <3>1, <3>2, <3>3
    <3>6. preview' \in [Previews -> PreviewRows] /\ \A q \in Previews : preview'[q] = (IF q = p THEN x ELSE preview[q])
      BY <1>1, <3>4, <3>5
    <3>7. \A q \in Previews : preview[q].asked => preview[q].stop /\ preview[q].st # "completed"
      BY DEF RestoresRun
    <3> QED  BY <3>2, <3>4, <3>6, <3>7
  <2> QED  BY <2>1, <2>2, <2>3 DEF InspectUpload, ClearScratch, CheckPreview, LeavePreview
<1>4. /\ inspector' \in [Previews -> {"no", "queued", "verified", "inspecting", "inspected", "checked", "failed", "leaving"}]
      /\ \A q \in Previews : q # p => inspector'[q] = inspector[q]
      /\ inspector'[p] \notin {"no", "leaving"} => inspector[p] \notin {"no", "leaving"}
  BY <1>1 DEF InspectUpload, ExtractUpload, ClearScratch, CheckPreview, LeavePreview, CancelPreview
<1>5. PICK S : /\ S \in {{}, Scratch(p)}
               /\ inspector'[p] = "inspecting" => S = {}
               /\ inspector[p] = "inspecting" => (inspector'[p] = "inspecting" \/ S = Scratch(p))
               /\ disk \ S \subseteq disk'
               /\ disk' \subseteq disk \cup Scratch(p)
               /\ \A f \in disk' \ stuck' : (f \in disk \ stuck /\ f \notin S) \/ (f \in Scratch(p) /\ inspector'[p] = "inspecting")
  <2>1. CASE InspectUpload(p) \/ CheckPreview(p) \/ LeavePreview(p) \/ CancelPreview(p)
    <3>1. UNCHANGED <<disk, stuck>> /\ (inspector[p] = "inspecting" => inspector'[p] = "inspecting")
      BY <1>1, <2>1 DEF InspectUpload, CheckPreview, LeavePreview, CancelPreview, shared
    <3>2. PICK S : S = {}
      OBVIOUS
    <3> QED  BY <3>1, <3>2
  <2>2. CASE ExtractUpload(p)
    <3>1. disk' = disk \cup Scratch(p) /\ UNCHANGED stuck /\ inspector[p] = "verified" /\ inspector'[p] = "inspecting"
      BY <1>1, <2>2 DEF ExtractUpload
    <3>2. PICK S : S = {}
      OBVIOUS
    <3> QED  BY <3>1, <3>2
  <2>3. CASE ClearScratch(p)
    <3>1. /\ \E left : disk' = disk \ (Scratch(p) \ left) /\ stuck' = (stuck \cup left) \cap disk'
          /\ inspector'[p] # "inspecting"
      BY <1>1, <2>3 DEF ClearScratch, Removes
    <3>2. PICK S : S = Scratch(p)
      OBVIOUS
    <3> QED  BY <3>1, <3>2
  <2> QED  BY <2>1, <2>2, <2>3
<1>6. \A f \in Scratch(p) : f = <<f[1], p>> /\ f[1] \in {"extract", "scratch"} /\ f[2] = p
  BY DEF Scratch, Extracted
<1>7. /\ {"extract", "scratch"} \subseteq OwnedRestoreKinds /\ {"extract", "scratch"} \cap (BackupKinds \cup OrphanKinds) = {}
      /\ "upload" \notin {"extract", "scratch"}
  BY DEF OwnedRestoreKinds, BackupKinds, OwnedBackupKinds, OrphanKinds
<1>8. \A u : UploadFile(u) \in disk => UploadFile(u) \in disk'
  BY <1>5, <1>6, <1>7 DEF UploadFile
<1>9. RestoreTypes'
  BY <1>1, <1>3, <1>4 DEF RestoreTypes
<1>10. RestoresRun'
  BY <1>1, <1>3, <1>4, <1>8 DEF RestoresRun
<1>11. ReferencedStays'
  <2>1. ToSet(previews) \subseteq Previews /\ confirming \in Previews \cup {Nobody}
    BY RestoreTable DEF RestoreTypes
  <2>2. ASSUME NEW q \in ToSet(previews)
        PROVE  /\ preview'[q].of \in ToSet(uploads)
               /\ HasVerified(q)' => UploadFile(preview'[q].of) \in disk'
    <3>1. q \in Previews /\ preview'[q].of = preview[q].of /\ preview'[q].st = preview[q].st
      BY <1>3, <2>1, <2>2
    <3>2. preview[q].of \in ToSet(uploads) /\ (HasVerified(q) => UploadFile(preview[q].of) \in disk)
      BY <2>2 DEF ReferencedStays
    <3>3. HasVerified(q)' => HasVerified(q) \/ UploadFile(preview[q].of) \in disk
      <4>1. CASE q # p
        BY <1>4, <3>1, <4>1 DEF HasVerified
      <4>2. CASE q = p
        BY <1>1, <3>1, <4>2 DEF HasVerified, InspectUpload, ExtractUpload, ClearScratch, CheckPreview, LeavePreview, CancelPreview, Verified
      <4> QED  BY <4>1, <4>2
    <3> QED  BY <1>8, <3>1, <3>2, <3>3
  <2>3. confirming # Nobody => preview'[confirming].st = "completed"
    BY <1>3, <2>1 DEF ReferencedStays
  <2> QED  BY <1>1, <2>2, <2>3 DEF ReferencedStays
<1>12. ConfirmedIsPreviewed'
  BY <1>1 DEF ConfirmedIsPreviewed
<1>13. RestoreFiles'
  <2>1. SUFFICES ASSUME NEW f \in disk' \ stuck'
                 PROVE  /\ f[1] \notin BackupKinds => RestoreOwned(f)'
                        /\ f[1] = "upload" /\ sending'[f[2]] = "listed" => f[2] \in ToSet(uploads')
                        /\ f[1] \in OrphanKinds /\ confirm'.at = "prepared" => f[1] = "pair"
    BY DEF RestoreFiles
  <2>2. CASE f \in Scratch(p) /\ inspector'[p] = "inspecting"
    BY <1>6, <1>7, <2>2 DEF RestoreOwned
  <2>3. CASE f \in disk \ stuck /\ f \notin S
    <3>1. ASSUME RestoreOwned(f) PROVE RestoreOwned(f)'
      <4>1. CASE f[2] \in Previews /\ f \in Scratch(f[2]) /\ inspector[f[2]] = "inspecting"
        <5>1. inspector'[f[2]] = "inspecting"
          BY <1>4, <1>5, <2>3, <4>1
        <5> QED  BY <4>1, <5>1 DEF RestoreOwned
      <4>2. CASE ~(f[2] \in Previews /\ f \in Scratch(f[2]) /\ inspector[f[2]] = "inspecting")
        BY <1>1, <3>1, <4>2 DEF RestoreOwned
      <4> QED  BY <4>1, <4>2
    <3> QED  BY <1>1, <1>2, <2>3, <3>1
  <2> QED  BY <1>5, <2>1, <2>2, <2>3
<1>14. FilesNamed'
  <2>1. Scratch(p) \subseteq (BackupKinds \cup OwnedRestoreKinds \cup OrphanKinds) \X (Jobs \cup Uploads \cup Previews)
    BY <1>6, <1>7
  <2> QED  BY <1>1, <1>5, <2>1 DEF FilesNamed
<1>15. BackupInv'
  <2>1. \A f \in disk' \ stuck' : f[1] \in BackupKinds => f \in disk \ stuck
    BY <1>5, <1>6, <1>7
  <2> QED  BY <1>1, <2>1, BackupsAlone
<1> QED  BY <1>9, <1>10, <1>11, <1>12, <1>13, <1>14, <1>15

LEMMA ConfirmSteps ==
    ASSUME JobsInv, VerifyConfirm \/ PrepareConfirm \/ Prepared \/ MakeIntent \/ FailConfirm
    PROVE  JobsInv'
<1> USE DEF JobsInv, RestoreInv
<1>1. /\ UNCHANGED <<up, backupVars, uploads, sending, previews, preview, running, inspector, confirming>> /\ up = "up"
      /\ confirm \in [at : {"no", "begun", "verified", "preparing", "prepared", "leaving"}, read : {"sent", "other"}]
      /\ intent \in [made : BOOLEAN, read : {"sent", "other"}, shown : {"sent", "other"}]
      /\ confirm.at # "no" /\ confirming \in Previews
  BY DEF VerifyConfirm, PrepareConfirm, Prepared, MakeIntent, FailConfirm, RestoreTypes, RestoresRun, shared, Serving
<1>2. \A f \in disk \ stuck :
         /\ f[1] \notin BackupKinds => RestoreOwned(f)
         /\ f[1] = "upload" /\ sending[f[2]] = "listed" => f[2] \in ToSet(uploads)
         /\ f[1] \in OrphanKinds /\ confirm.at = "prepared" => f[1] = "pair"
  BY <1>1 DEF RestoreFiles
<1>3. \A f \in Work(confirming) : f = <<f[1], confirming>> /\ f[1] \in OrphanKinds /\ f[2] = confirming
  BY DEF Work, OrphanKinds
<1>4. /\ OrphanKinds \cap (BackupKinds \cup OwnedRestoreKinds) = {} /\ "upload" \in OwnedRestoreKinds /\ "pair" \in OrphanKinds
      /\ {"extract", "scratch", "upTemp"} \subseteq OwnedRestoreKinds
  BY DEF OwnedRestoreKinds, BackupKinds, OwnedBackupKinds, OrphanKinds
<1>5. \A f : f[1] \in OrphanKinds /\ RestoreOwned(f) =>
         (f \in Work(confirming) /\ confirm.at \in {"preparing", "prepared"}) \/ (f[1] = "pair" /\ intent.made)
  <2>1. SUFFICES ASSUME NEW f, f[1] \in OrphanKinds, RestoreOwned(f)
                 PROVE  (f \in Work(confirming) /\ confirm.at \in {"preparing", "prepared"}) \/ (f[1] = "pair" /\ intent.made)
    OBVIOUS
  <2>2. ~(f[2] \in Uploads /\ f \in UploadFiles(f[2], sending[f[2]]))
    <3>1. SUFFICES ASSUME f[2] \in Uploads, f \in UploadFiles(f[2], sending[f[2]]) PROVE FALSE
      OBVIOUS
    <3>2. sending[f[2]] \in {"no", "counted", "writing", "linked", "final", "listed"}
      BY <3>1 DEF RestoreTypes
    <3>3. f \in {UploadFile(f[2]), UploadTemp(f[2])}
      BY <3>1, <3>2, UploadFilesFacts
    <3> QED  BY <1>4, <2>1, <3>3 DEF UploadFile, UploadTemp
  <2>3. ~(f[2] \in Previews /\ f \in Scratch(f[2]))
    BY <1>4, <2>1 DEF Scratch, Extracted
  <2> QED  BY <1>4, <2>1, <2>2, <2>3 DEF RestoreOwned
<1>6. /\ confirm' \in [at : {"no", "begun", "verified", "preparing", "prepared", "leaving"}, read : {"sent", "other"}]
      /\ confirm'.at # "no"
      /\ intent' \in [made : BOOLEAN, read : {"sent", "other"}, shown : {"sent", "other"}]
      /\ intent'.made => intent'.read = intent'.shown
  <2>1. CASE MakeIntent
    <3>1. /\ intent' = [made |-> TRUE, read |-> confirm.read, shown |-> preview[confirming].shown]
          /\ confirm.read = preview[confirming].shown /\ confirm' = [confirm EXCEPT !.at = "leaving"]
      BY <2>1 DEF MakeIntent, SamePlan
    <3> QED  BY <1>1, <3>1
  <2>2. CASE PrepareConfirm
    <3>1. confirm' = [at |-> "preparing", read |-> Bytes(preview[confirming].of)] /\ UNCHANGED intent
          /\ Bytes(preview[confirming].of) \in {"sent", "other"}
      BY <2>2 DEF PrepareConfirm, Bytes
    <3> QED  BY <1>1, <3>1 DEF ConfirmedIsPreviewed
  <2>3. CASE VerifyConfirm \/ Prepared \/ FailConfirm
    <3>1. UNCHANGED intent /\ \E at \in {"verified", "prepared", "leaving"} : confirm' = [confirm EXCEPT !.at = at]
      BY <2>3 DEF VerifyConfirm, Prepared, FailConfirm
    <3> QED  BY <1>1, <3>1 DEF ConfirmedIsPreviewed
  <2> QED  BY <2>1, <2>2, <2>3
<1>7. /\ disk \ Work(confirming) \subseteq disk' /\ disk' \subseteq disk \cup Work(confirming)
      /\ \A f \in disk' \ stuck' :
            \/ f \in disk \ stuck
            \/ f \in Work(confirming) /\ confirm'.at = "preparing"
      /\ \A f \in disk' \ stuck' : f[1] \in OrphanKinds /\ confirm'.at = "prepared" => f[1] = "pair"
      /\ \A f \in disk' \ stuck' : f \in Work(confirming) /\ confirm.at \in {"preparing", "prepared"} =>
            confirm'.at \in {"preparing", "prepared"} \/ (f[1] = "pair" /\ intent'.made)
      /\ intent.made => intent'.made
  <2>1. CASE VerifyConfirm
    BY <1>1, <1>2, <2>1 DEF VerifyConfirm, shared
  <2>2. CASE PrepareConfirm
    BY <1>1, <2>2 DEF PrepareConfirm
  <2>3. CASE Prepared
    <3>1. /\ disk' = disk \ (Work(confirming) \ {<<"pair", confirming>>}) /\ UNCHANGED <<stuck, intent>>
          /\ confirm'.at = "prepared" /\ confirm.at = "preparing"
      BY <1>1, <2>3 DEF Prepared
    <3>2. ASSUME NEW f \in disk' \ stuck', f[1] \in OrphanKinds PROVE f[1] = "pair"
      <4>1. f \in disk \ stuck /\ RestoreOwned(f)
        BY <1>2, <1>4, <3>1, <3>2
      <4>2. f \in Work(confirming) => f = <<"pair", confirming>>
        BY <3>1, <3>2
      <4> QED  BY <1>5, <3>2, <4>1, <4>2
    <3> QED  BY <3>1, <3>2
  <2>4. CASE MakeIntent
    <3>1. UNCHANGED <<disk, stuck>> /\ confirm.at = "prepared" /\ confirm'.at = "leaving" /\ intent'.made
      BY <1>1, <2>4 DEF MakeIntent, shared
    <3> QED  BY <1>2, <1>3, <3>1
  <2>5. CASE FailConfirm
    <3>1. /\ \E left : disk' = disk \ (Work(confirming) \ left) /\ stuck' = (stuck \cup left) \cap disk'
          /\ UNCHANGED intent /\ confirm'.at = "leaving"
      BY <1>1, <2>5 DEF FailConfirm, Removes
    <3> QED  BY <3>1
  <2> QED  BY <2>1, <2>2, <2>3, <2>4, <2>5
<1>8. \A u : UploadFile(u) \in disk => UploadFile(u) \in disk'
  BY <1>3, <1>4, <1>7 DEF UploadFile
<1>9. RestoreTypes'
  BY <1>1, <1>6 DEF RestoreTypes
<1>10. RestoresRun'
  BY <1>1, <1>6, <1>8 DEF RestoresRun
<1>11. ReferencedStays' /\ ConfirmedIsPreviewed'
  BY <1>1, <1>6, <1>8 DEF ReferencedStays, HasVerified, ConfirmedIsPreviewed
<1>12. RestoreFiles'
  <2>1. SUFFICES ASSUME NEW f \in disk' \ stuck'
                 PROVE  /\ f[1] \notin BackupKinds => RestoreOwned(f)'
                        /\ f[1] = "upload" /\ sending'[f[2]] = "listed" => f[2] \in ToSet(uploads')
                        /\ f[1] \in OrphanKinds /\ confirm'.at = "prepared" => f[1] = "pair"
    BY DEF RestoreFiles
  <2>2. CASE f \in Work(confirming) /\ confirm'.at = "preparing"
    BY <1>1, <1>3, <1>4, <2>2 DEF RestoreOwned
  <2>3. CASE f \in disk \ stuck
    <3>1. ASSUME RestoreOwned(f) PROVE RestoreOwned(f)'
      <4>1. CASE confirming = f[2] /\ f \in Work(f[2]) /\ confirm.at \in {"preparing", "prepared"}
        BY <1>1, <1>7, <2>1, <4>1 DEF RestoreOwned
      <4>2. CASE f[1] = "pair" /\ intent.made
        BY <1>7, <4>2 DEF RestoreOwned
      <4>3. CASE ~(confirming = f[2] /\ f \in Work(f[2]) /\ confirm.at \in {"preparing", "prepared"}) /\ ~(f[1] = "pair" /\ intent.made)
        BY <1>1, <3>1, <4>3 DEF RestoreOwned
      <4> QED  BY <4>1, <4>2, <4>3
    <3> QED  BY <1>1, <1>2, <1>7, <2>1, <2>3, <3>1
  <2> QED  BY <1>7, <2>1, <2>2, <2>3
<1>13. FilesNamed'
  <2>1. Work(confirming) \subseteq (BackupKinds \cup OwnedRestoreKinds \cup OrphanKinds) \X (Jobs \cup Uploads \cup Previews)
    BY <1>1, <1>3
  <2> QED  BY <1>1, <1>7, <2>1 DEF FilesNamed
<1>14. BackupInv'
  <2>1. \A f \in disk' \ stuck' : f[1] \in BackupKinds => f \in disk \ stuck
    BY <1>3, <1>4, <1>7
  <2> QED  BY <1>1, <2>1, BackupsAlone
<1> QED  BY <1>9, <1>10, <1>11, <1>12, <1>13, <1>14

LEMMA WholeSteps ==
    ASSUME JobsInv, RetentionPasses \/ CloseJobs \/ EndRestores \/ Crash \/ Restart
    PROVE  JobsInv'
<1> USE DEF JobsInv, RestoreInv, BackupInv
<1>1. CASE RetentionPasses \/ CloseJobs
  <2>1. /\ UNCHANGED <<up, disk, stuck, order, active, worker, uploads, sending, previews, running, inspector, confirming, confirm, intent>>
        /\ up = "up"
    BY <1>1 DEF RetentionPasses, CloseJobs, Serving, shared
  <2>2. /\ job \in [Jobs -> JobRows] /\ preview \in [Previews -> PreviewRows]
        /\ \A j \in Jobs : job[j] \in JobRows /\ \A p \in Previews : preview[p] \in PreviewRows
    BY DEF BackupTypes, RestoreTypes
  <2>3. /\ job' \in [Jobs -> JobRows]
        /\ \A j \in Jobs : /\ job'[j].st = job[j].st /\ job'[j].asked = job[j].asked /\ (job[j].stop => job'[j].stop)
                           /\ job[j].st \notin Terminal => job'[j].exp = job[j].exp
                           /\ job[j] = NoJob => job'[j] = NoJob
    <3>1. CASE RetentionPasses
      <4>1. job' = [j \in Jobs |-> [job[j] EXCEPT !.exp = @ \/ job[j].st \in Terminal]]
        BY <3>1 DEF RetentionPasses, Aged
      <4>2. ASSUME NEW j \in Jobs
            PROVE  /\ job'[j] \in JobRows
                   /\ job'[j].st = job[j].st /\ job'[j].asked = job[j].asked /\ job'[j].stop = job[j].stop
                   /\ job[j].st \notin Terminal => job'[j] = job[j]
        <5>1. PICK r \in JobRows : r = job[j]
          BY <2>2
        <5>2. PICK b \in BOOLEAN : b = (r.exp \/ r.st \in Terminal)
          BY <5>1 DEF JobRows
        <5>3. job'[j] = [r EXCEPT !.exp = b]
          BY <4>1, <5>1, <5>2
        <5>4. r.st \notin Terminal => b = r.exp
          BY <5>1, <5>2 DEF JobRows
        <5>5. r.st \notin Terminal => [r EXCEPT !.exp = b] = r
          BY <5>1, <5>4 DEF JobRows
        <5> QED  BY <5>1, <5>3, <5>5 DEF JobRows
      <4>3. NoJob.st \notin Terminal
        BY DEF NoJob, Terminal
      <4> QED  BY <4>1, <4>2, <4>3
    <3>2. CASE CloseJobs
      <4>1. job' = [j \in Jobs |-> [job[j] EXCEPT !.stop = @ \/ job[j].st = "running"]]
        BY <3>2 DEF CloseJobs, Stopped
      <4>2. ASSUME NEW j \in Jobs
            PROVE  /\ job'[j] \in JobRows
                   /\ job'[j].st = job[j].st /\ job'[j].asked = job[j].asked /\ (job[j].stop => job'[j].stop)
                   /\ job'[j].exp = job[j].exp /\ (job[j].st # "running" => job'[j] = job[j])
        <5>1. PICK r \in JobRows : r = job[j]
          BY <2>2
        <5>2. PICK b \in BOOLEAN : b = (r.stop \/ r.st = "running")
          BY <5>1 DEF JobRows
        <5>3. job'[j] = [r EXCEPT !.stop = b]
          BY <4>1, <5>1, <5>2
        <5>4. (r.st # "running" => b = r.stop) /\ (r.stop => b)
          BY <5>1, <5>2 DEF JobRows
        <5>5. r.st # "running" => [r EXCEPT !.stop = b] = r
          BY <5>1, <5>4 DEF JobRows
        <5> QED  BY <5>1, <5>3, <5>4, <5>5 DEF JobRows
      <4>3. NoJob.st # "running"
        BY DEF NoJob
      <4> QED  BY <4>1, <4>2, <4>3
    <3> QED  BY <1>1, <3>1, <3>2
  <2>4. /\ preview' \in [Previews -> PreviewRows]
        /\ \A p \in Previews : /\ preview'[p].st = preview[p].st /\ preview'[p].of = preview[p].of
                               /\ preview'[p].asked = preview[p].asked /\ (preview[p].stop => preview'[p].stop)
    <3>1. CASE RetentionPasses
      <4>1. preview' = [p \in Previews |-> [preview[p] EXCEPT !.exp = @ \/ preview[p].st \in Terminal]]
        BY <3>1 DEF RetentionPasses
      <4> QED  BY <2>2, <4>1 DEF PreviewRows
    <3>2. CASE CloseJobs
      <4>1. preview' = [p \in Previews |-> [preview[p] EXCEPT !.stop = @ \/ preview[p].st = "running"]]
        BY <3>2 DEF CloseJobs
      <4> QED  BY <2>2, <4>1 DEF PreviewRows
    <3> QED  BY <1>1, <3>1, <3>2
  <2>5. BackupTypes' /\ RestoreTypes'
    BY <2>1, <2>3, <2>4 DEF BackupTypes, RestoreTypes
  <2>6. BackupsRun'
    BY <2>1, <2>3 DEF BackupsRun, Terminal
  <2>7. BackupFiles'
    <3>1. \A f : BackupOwned(f) => BackupOwned(f)'
      BY <2>1, <2>3 DEF BackupOwned, Path, Files
    <3> QED  BY <2>1, <3>1 DEF BackupFiles
  <2>8. RestoresRun'
    BY <2>1, <2>4 DEF RestoresRun
  <2>9. ReferencedStays' /\ ConfirmedIsPreviewed'
    <3>1. ToSet(previews) \subseteq Previews /\ confirming \in Previews \cup {Nobody}
      BY RestoreTable DEF RestoreTypes
    <3> QED  BY <2>1, <2>4, <3>1 DEF ReferencedStays, HasVerified, ConfirmedIsPreviewed
  <2>10. RestoreFiles'
    <3>1. \A f : RestoreOwned(f)' <=> RestoreOwned(f)
      BY <2>1 DEF RestoreOwned
    <3> QED  BY <2>1, <3>1 DEF RestoreFiles
  <2> QED  BY <2>1, <2>5, <2>6, <2>7, <2>8, <2>9, <2>10 DEF FilesNamed
<1>2. CASE EndRestores
  <2>1. /\ disk' = disk \ {f \in disk : f[1] \in OwnedRestoreKinds} /\ stuck' = stuck \cap disk'
        /\ uploads' = <<>> /\ previews' = <<>> /\ preview' = [p \in Previews |-> NoPreview] /\ running' = Nobody
        /\ UNCHANGED <<up, backupVars, sending, inspector, confirming, confirm, intent>> /\ up = "up"
        /\ Sending = {} /\ confirm.at = "no" /\ \A p \in Previews : inspector[p] \in {"no", "leaving"}
    BY <1>2 DEF EndRestores, Removes
  <2>2. uploads' \in Seq(Uploads) /\ previews' \in Seq(Previews) /\ ToSet(uploads') = {} /\ ToSet(previews') = {}
    BY <2>1, FewElems
  <2>3. preview' \in [Previews -> PreviewRows] /\ \A p \in Previews : preview'[p] = NoPreview
    BY <2>1, RestoreTable
  <2>4. confirming = Nobody
    BY <2>1 DEF RestoresRun
  <2>5. RestoreTypes'
    BY <2>1, <2>2, <2>3 DEF RestoreTypes
  <2>6. RestoresRun'
    BY <2>1, <2>2, <2>3, <2>4, RestoreTable DEF RestoresRun
  <2>7. ReferencedStays' /\ ConfirmedIsPreviewed'
    BY <2>1, <2>2, <2>4 DEF ReferencedStays, ConfirmedIsPreviewed
  <2>8. \A u \in Uploads : sending[u] = "no"
    BY <2>1 DEF Sending
  <2>9. {"upload", "upTemp", "extract", "scratch"} = OwnedRestoreKinds
    BY DEF OwnedRestoreKinds
  <2>10. RestoreFiles'
    <3>1. SUFFICES ASSUME NEW f \in disk' \ stuck', f[1] \notin BackupKinds
                   PROVE  f[1] = "pair" /\ intent.made
      BY <2>1, <2>9 DEF RestoreFiles, RestoreOwned
    <3>2. f \in disk \ stuck /\ f[1] \notin OwnedRestoreKinds /\ RestoreOwned(f)
      BY <2>1, <3>1 DEF RestoreFiles
    <3>3. ~(f[2] \in Uploads /\ f \in UploadFiles(f[2], sending[f[2]]))
      BY <2>8, UploadFilesFacts
    <3> QED  BY <2>1, <2>9, <3>2, <3>3 DEF RestoreOwned, Scratch, Extracted
  <2>11. FilesNamed'
    BY <2>1 DEF FilesNamed
  <2>12. BackupInv'
    BY <2>1, BackupsAlone
  <2> QED  BY <2>5, <2>6, <2>7, <2>10, <2>11, <2>12
<1>3. CASE Crash
  <2>1. /\ up' = "down" /\ order' = <<>> /\ job' = [j \in Jobs |-> NoJob] /\ active' = Nobody
        /\ worker' = [j \in Jobs |-> 0]
        /\ uploads' = <<>> /\ sending' = [u \in Uploads |-> "no"]
        /\ previews' = <<>> /\ preview' = [p \in Previews |-> NoPreview] /\ running' = Nobody
        /\ inspector' = [p \in Previews |-> "no"]
        /\ confirming' = Nobody /\ confirm' = NoConfirm /\ UNCHANGED <<disk, intent>>
    BY <1>3 DEF Crash, Idle
  <2>2. /\ uploads' \in Seq(Uploads) /\ previews' \in Seq(Previews) /\ order' \in Seq(Jobs)
        /\ ToSet(uploads') = {} /\ ToSet(previews') = {}
    BY <2>1, FewElems
  <2>3. preview' \in [Previews -> PreviewRows] /\ \A p \in Previews : preview'[p] = NoPreview
    BY <2>1, RestoreTable
  <2>4. BackupTypes' /\ BackupsRun' /\ BackupFiles'
    BY <2>1, <2>2, BackupTable DEF BackupTypes, BackupsRun, BackupFiles, NoJob
  <2>5. RestoreTypes'
    BY <2>1, <2>2, <2>3 DEF RestoreTypes, NoConfirm
  <2>6. RestoresRun'
    BY <2>1, <2>2, <2>3, RestoreTable DEF RestoresRun, NoConfirm
  <2>7. ReferencedStays' /\ ConfirmedIsPreviewed' /\ RestoreFiles'
    BY <2>1, <2>2 DEF ReferencedStays, ConfirmedIsPreviewed, RestoreFiles
  <2>8. FilesNamed'
    BY <2>1 DEF FilesNamed
  <2> QED  BY <2>4, <2>5, <2>6, <2>7, <2>8
<1>4. CASE Restart
  <2>1. /\ up = "down" /\ up' = "up" /\ disk' = {f \in disk : f[1] = "stage"} /\ intent' = NoIntent
        /\ UNCHANGED <<backupVars, uploads, sending, previews, preview, running, inspector, confirming, confirm>>
    BY <1>4 DEF Restart
  <2>2. uploads = <<>> /\ previews = <<>>
    BY <2>1 DEF RestoresRun
  <2>3. ToSet(uploads) = {} /\ ToSet(previews) = {}
    BY <2>2, FewElems
  <2>4. "stage" \in BackupKinds
    BY DEF BackupKinds
  <2>5. "stage" \notin OrphanKinds /\ "stage" # "upload"
    BY DEF OrphanKinds
  <2>6. BackupTypes' /\ BackupsRun' /\ BackupFiles'
    BY <2>1 DEF BackupTypes, BackupsRun, BackupFiles, backupVars, BackupOwned
  <2>7. RestoreTypes'
    BY <2>1 DEF RestoreTypes, NoIntent
  <2>8. RestoresRun'
    BY <2>1, <2>2, <2>3 DEF RestoresRun
  <2>9. ReferencedStays' /\ ConfirmedIsPreviewed'
    BY <2>1, <2>3 DEF ReferencedStays, ConfirmedIsPreviewed, NoIntent
  <2>10. RestoreFiles'
    BY <2>1, <2>4, <2>5 DEF RestoreFiles
  <2>11. FilesNamed'
    BY <2>1 DEF FilesNamed
  <2> QED  BY <2>6, <2>7, <2>8, <2>9, <2>10, <2>11
<1> QED  BY <1>1, <1>2, <1>3, <1>4

LEMMA JobsStart ==
    ASSUME JobsInit
    PROVE  JobsInv
<1> USE DEF JobsInit, BackupInit, RestoreInit
<1>1. /\ uploads \in Seq(Uploads) /\ previews \in Seq(Previews) /\ order \in Seq(Jobs)
      /\ ToSet(uploads) = {} /\ ToSet(previews) = {} /\ ToSet(order) = {}
  BY FewElems
<1>2. NoPreview \in PreviewRows /\ ~NoPreview.asked /\ NoJob \in JobRows /\ ~NoJob.asked
  BY DEF NoPreview, PreviewRows, NoJob, JobRows
<1>3. FilesNamed
  BY DEF FilesNamed
<1>4. BackupInv
  BY <1>1, <1>2 DEF BackupInv, BackupTypes, BackupsRun, BackupFiles, Idle
<1>5. RestoreInv
  BY <1>1, <1>2 DEF RestoreInv, RestoreTypes, RestoresRun, ReferencedStays, ConfirmedIsPreviewed, RestoreFiles, NoConfirm, NoIntent
<1> QED  BY <1>3, <1>4, <1>5 DEF JobsInv

LEMMA JobsStep ==
    ASSUME JobsInv, [JobsNext]_jobsVars
    PROVE  JobsInv'
<1>1. CASE UNCHANGED jobsVars
  <2>1. UNCHANGED <<up, disk, stuck, backupVars, restoreVars>>
    BY <1>1 DEF jobsVars, shared
  <2>2. RestoreInv'
    BY <2>1, RestoresAlone DEF JobsInv
  <2>3. BackupInv'
    BY <2>1, BackupsAlone DEF JobsInv
  <2> QED  BY <2>1, <2>2, <2>3 DEF JobsInv, FilesNamed
<1>2. CASE \E j \in Jobs : /\ UNCHANGED restoreVars
                           /\ \/ StartBackup(j) \/ Snapshot(j) \/ Encrypt(j) \/ DropSnapshot(j) \/ Complete(j)
                              \/ Abort(j) \/ LeaveBackup(j) \/ CancelBackup(j)
  BY <1>2, ExportSteps
<1>3. CASE (SweepBackups \/ EndBackups) /\ UNCHANGED restoreVars
  BY <1>3, ExportSweeps
<1>4. CASE \/ SweepRestores \/ (\E u \in Uploads : BeginUpload(u))
           \/ (\E p \in Previews, u \in Uploads : StartPreview(p, u))
           \/ (\E p \in Previews : CompletePreview(p)) \/ (\E p \in Previews : FailPreview(p))
           \/ (\E p \in Previews : BeginConfirm(p)) \/ EndConfirm
  BY <1>4, PruningSteps
<1>5. CASE \E u \in Uploads : AdvanceUpload(u) \/ ListUpload(u) \/ EndUpload(u) \/ Rewrite(u)
  BY <1>5, UploadSteps1
<1>6. CASE \E p \in Previews : \/ InspectUpload(p) \/ ExtractUpload(p) \/ ClearScratch(p) \/ CheckPreview(p)
                               \/ LeavePreview(p) \/ CancelPreview(p)
  BY <1>6, PreviewSteps
<1>7. CASE VerifyConfirm \/ PrepareConfirm \/ Prepared \/ MakeIntent \/ FailConfirm
  BY <1>7, ConfirmSteps
<1>8. CASE RetentionPasses \/ CloseJobs \/ EndRestores \/ Crash \/ Restart
  BY <1>8, WholeSteps
<1> QED  BY <1>1, <1>2, <1>3, <1>4, <1>5, <1>6, <1>7, <1>8 DEF JobsNext

(* Each file on disk has an owner that will remove or publish it, and the  *)
(* jobs, uploads and confirmation agree on who is at work.                 *)
THEOREM JobsInvariant == JobsSpec => []JobsInv
BY JobsStart, JobsStep, PTL DEF JobsSpec

(* A backup or preview whose cancellation was accepted never reports       *)
(* completed, however late in the job it came.                             *)
THEOREM JobsCancelHolds == JobsSpec => []CancelHolds
<1>1. JobsInv => CancelHolds
  BY DEF JobsInv, BackupInv, RestoreInv, BackupsRun, RestoresRun, CancelHolds
<1> QED  BY <1>1, JobsInvariant, PTL

(* What a confirmation prepares is the backup its preview showed, and the  *)
(* upload it needs stays, whatever other uploads, retention passes and     *)
(* writes to the file come in between.                                     *)
THEOREM JobsConfirmedIsSeen == JobsSpec => []ConfirmedIsSeen
<1>1. JobsInv => ConfirmedIsSeen
  BY DEF JobsInv, RestoreInv, ConfirmedIsSeen
<1> QED  BY <1>1, JobsInvariant, PTL

(* Each file on disk belongs to a running step, a completed backup, a      *)
(* listed upload or the intent, or could not be removed, and after a crash *)
(* at any step the next process knows every name it finds; but for the     *)
(* copy staged beside the database.                                        *)
THEOREM JobsFilesAccounted == JobsSpec => []FilesAccounted
<1>1. JobsInv => FilesAccounted
  <2>1. SUFFICES ASSUME JobsInv PROVE FilesAccounted
    OBVIOUS
  <2>2. Unowned = {}
    BY <2>1 DEF JobsInv, FilesNamed, Unowned, BackupKinds
  <2>3. ASSUME up = "up", NEW f \in disk \ stuck PROVE BackupOwned(f) \/ RestoreOwned(f)
    BY <2>1, <2>3 DEF JobsInv, BackupInv, BackupFiles, RestoreInv, RestoreFiles
  <2> QED  BY <2>2, <2>3 DEF FilesAccounted, BackupOwned, RestoreOwned
<1> QED  BY <1>1, JobsInvariant, PTL
=============================================================================
