-------------------------- MODULE ApplyEngineProofs --------------------------
(***************************************************************************)
(* OutcomeIsTrue, VerifiesAfterWindow and StagedWhatWeAsked of ApplyEngine *)
(* for any options, files, plans, windows and numbers of runs and restarts *)
(* of rpcd.                                                                *)
(*                                                                         *)
(* BaseInv ties the device to the run: from the moment an apply is served  *)
(* the router runs what was written or, with the timer gone, what was      *)
(* there before.  TimeInv ties the two clocks: the device's timer and the  *)
(* engine's age never add up to more than the window and one request.      *)
(* FirstInv follows the delta of a first run through lost sessions.        *)
(***************************************************************************)
EXTENDS ApplyEngine, TLAPS

Before == {"preflight", "snapshot", "stage", "verify", "budget", "apply"}
Posted == {"health", "confirm", "await", "fresh", "reread"}
Staging == {"preflight", "snapshot", "stage", "verify"}

ControlInv ==
    /\ pc \in Staging \cup {"idle"} => ~inWindow
    /\ pc # "idle" => sess \in Token
    /\ pc \in Before \ {"preflight"} => Budget > 0
    /\ pc \in Before => base = None /\ outcome = "none"
    /\ pc \in Posted => base # None /\ outcome = "none"
    /\ base = None => ~landed
    /\ outcome = "error" => ~landed
    /\ outcome = "applied" => landed

\* The engine counts from before the request, the device from its arrival.
TimeInv ==
    /\ pc = "apply" => age <= RpcTimeout
    /\ pc \in Posted /\ armed => owner = sess /\ timer + age <= Window + RpcTimeout
    /\ pc \in {"fresh", "reread"} => age >= Window + Grace

\* What an apply that was served has made of the device.
BaseInv ==
    base # None =>
        /\ armed => live = written /\ snapshot = base /\ ~landed
        /\ ~armed => live \in {base, written}
        /\ landed => live = written
        /\ restarts = 0 /\ ~armed /\ ~landed => live = base

\* TypeOK in four parts.
DeviceType ==
    /\ live \in [Option -> Value] /\ staged \in [Token -> Delta] /\ valid \subseteq Token
    /\ owner \in Token \cup {0} /\ timer \in 0..Window
    /\ snapshot \in [Option -> Value] /\ stagedSnapshot \in Delta
RunType ==
    /\ pc \in States /\ plan \in Delta /\ sess \in Token \cup {0}
    /\ before \in Delta /\ todo \subseteq Option \cup 1..Len(Chunks)
    /\ verify \in Token \cup {0}
    /\ age \in 0..Window + Grace /\ left \in 0..Budget
    /\ outcome \in {"none", "error", "applied", "reverted", "unknown"}
CountType ==
    /\ runs \in 0..MaxRuns /\ restarts \in 0..MaxRestarts
    /\ base \in [Option -> Value] \cup {None} /\ written \in [Option -> Value] \cup {None}
FlagType ==
    /\ armed \in BOOLEAN /\ inWindow \in BOOLEAN /\ checked \in BOOLEAN
    /\ cancelled \in BOOLEAN /\ landed \in BOOLEAN

IndInv == TypeOK /\ ControlInv /\ TimeInv /\ BaseInv

-----------------------------------------------------------------------------
LEMMA Numbers ==
    /\ Window \in Nat /\ Grace \in Nat /\ RpcTimeout \in Nat /\ Budget \in Nat
    /\ MaxRuns \in Nat /\ MaxRestarts \in Nat
    /\ Window > 0 /\ RpcTimeout <= Grace
BY EngineConstants

LEMMA NoneIsNoValue == None \notin Value /\ None \notin [Option -> Value]
BY EngineConstants

LEMMA ChunkOptions ==
    Len(Chunks) \in Nat /\ \A i \in 1..Len(Chunks) : Chunks[i] \subseteq Option
<1>1. Chunks \in Seq(SUBSET Option)
  BY EngineConstants
<1>2. Len(Chunks) \in Nat /\ \A i \in 1..Len(Chunks) : Chunks[i] \in SUBSET Option
  BY <1>1
<1> QED  BY <1>2

LEMMA EmptyDelta == Empty \in Delta /\ \A o \in Option : Empty[o] = None
BY DEF Empty, Delta

LEMMA TypeParts == TypeOK <=> DeviceType /\ RunType /\ CountType /\ FlagType
BY DEF TypeOK, DeviceType, RunType, CountType, FlagType

LEMMA InitInv == Init => IndInv
<1> SUFFICES ASSUME Init PROVE IndInv
  OBVIOUS
<1>1. live \in [Option -> Value] /\ staged \in [Token -> Delta]
  BY EmptyDelta, Zenon DEF Init, Value
<1>2. TypeOK
  <2>1. DeviceType
    BY <1>1, EmptyDelta, Numbers DEF Init, DeviceType
  <2>2. RunType
    BY EmptyDelta, Numbers DEF Init, RunType, States
  <2>3. CountType
    BY Numbers DEF Init, CountType
  <2>4. FlagType
    BY Zenon DEF Init, FlagType
  <2> QED  BY <2>1, <2>2, <2>3, <2>4, TypeParts
<1>3. ControlInv /\ TimeInv /\ BaseInv
  BY DEF Init, ControlInv, TimeInv, BaseInv, Before, Posted
<1> QED  BY <1>2, <1>3 DEF IndInv

-----------------------------------------------------------------------------
(* Sessions.                                                               *)

LEMMA LoginGivesToken == ASSUME TypeOK PROVE LoginToken \in Token
<1>1. CASE armed /\ owner \in valid
  BY <1>1 DEF LoginToken, TypeOK
<1>2. CASE ~(armed /\ owner \in valid)
  <2>1. \E t \in Token : t \notin {sess, owner}
    <3>1. 1 \in Token /\ 2 \in Token /\ 3 \in Token
      BY DEF Token
    <3> QED  BY <3>1
  <2>2. LoginToken = CHOOSE t \in Token : t \notin {sess, owner}
    BY <1>2 DEF LoginToken
  <2> QED  BY <2>1, <2>2
<1> QED  BY <1>1, <1>2

LEMMA ServedToken == ASSUME TypeOK, Served PROVE Serving \in Token
BY LoginGivesToken DEF Served, Serving, TypeOK

LEMMA MintedType == ASSUME TypeOK, NEW t \in Token PROVE Minted(t) \in [Token -> Delta]
BY EmptyDelta DEF Minted, TypeOK

-----------------------------------------------------------------------------
(* Steps of the engine that leave the device alone.                        *)

Kept == <<device, plan, sess, before, runs, restarts, history>>

LEMMA KeptFrame ==
    ASSUME IndInv, UNCHANGED Kept, RunType', FlagType', ControlInv', TimeInv'
    PROVE  IndInv'
<1> USE DEF IndInv
<1>1. UNCHANGED <<live, staged, valid, armed, owner, timer, snapshot, stagedSnapshot,
                  runs, restarts, base, written, landed>>
  BY DEF Kept, device, history
<1>2. DeviceType' /\ CountType'
  BY <1>1, TypeParts DEF DeviceType, CountType
<1>3. TypeOK'
  BY <1>2 DEF TypeOK, DeviceType, RunType, CountType, FlagType
<1>4. BaseInv'
  BY <1>1 DEF BaseInv
<1> QED  BY <1>3, <1>4

LEMMA PreflightRefusesStep ==
    ASSUME IndInv, PreflightRefuses PROVE IndInv'
<1> USE DEF IndInv
<1>1. UNCHANGED Kept
  BY DEF PreflightRefuses, Return, Kept
<1>2. RunType'
  BY Numbers, ChunkOptions, TypeParts DEF PreflightRefuses, Return, RunType, States, Armed
<1>3. FlagType'
  BY <1>1, TypeParts DEF PreflightRefuses, Return, FlagType, Kept, device, history
<1>4. ControlInv'
  BY <1>1 DEF PreflightRefuses, Return, ControlInv, Before, Posted, Staging, Kept, history
<1>5. TimeInv'
  BY <1>1, Numbers DEF PreflightRefuses, Return, TimeInv, Before, Posted, Kept, device
<1> QED  BY <1>1, <1>2, <1>3, <1>4, <1>5, KeptFrame

LEMMA SnapshotDoneStep ==
    ASSUME IndInv, SnapshotDone PROVE IndInv'
<1> USE DEF IndInv
<1>1. UNCHANGED Kept
  BY DEF SnapshotDone, Goto, clock, Kept
<1>2. RunType'
  BY Numbers, ChunkOptions, TypeParts DEF SnapshotDone, Goto, clock, RunType, States, Armed
<1>3. FlagType'
  BY <1>1, TypeParts DEF SnapshotDone, Goto, clock, FlagType, Kept, device, history
<1>4. ControlInv'
  BY <1>1 DEF SnapshotDone, Goto, clock, ControlInv, Before, Posted, Staging, Kept, history
<1>5. TimeInv'
  BY <1>1, Numbers DEF SnapshotDone, Goto, clock, TimeInv, Before, Posted, Kept, device
<1> QED  BY <1>1, <1>2, <1>3, <1>4, <1>5, KeptFrame

LEMMA StageDoneStep ==
    ASSUME IndInv, StageDone PROVE IndInv'
<1> USE DEF IndInv
<1>1. UNCHANGED Kept
  BY DEF StageDone, Goto, clock, Kept
<1>2. RunType'
  BY Numbers, ChunkOptions, TypeParts DEF StageDone, Goto, clock, RunType, States, Armed
<1>3. FlagType'
  BY <1>1, TypeParts DEF StageDone, Goto, clock, FlagType, Kept, device, history
<1>4. ControlInv'
  BY <1>1 DEF StageDone, Goto, clock, ControlInv, Before, Posted, Staging, Kept, history
<1>5. TimeInv'
  BY <1>1, Numbers DEF StageDone, Goto, clock, TimeInv, Before, Posted, Kept, device
<1> QED  BY <1>1, <1>2, <1>3, <1>4, <1>5, KeptFrame

LEMMA VerifyStagedFailsStep ==
    ASSUME IndInv, VerifyStagedFails PROVE IndInv'
<1> USE DEF IndInv
<1>1. UNCHANGED Kept
  BY DEF VerifyStagedFails, Goto, clock, Kept
<1>2. RunType'
  BY Numbers, ChunkOptions, TypeParts DEF VerifyStagedFails, Goto, clock, RunType, States, Armed
<1>3. FlagType'
  BY <1>1, TypeParts DEF VerifyStagedFails, Goto, clock, FlagType, Kept, device, history
<1>4. ControlInv'
  BY <1>1 DEF VerifyStagedFails, Goto, clock, ControlInv, Before, Posted, Staging, Kept, history
<1>5. TimeInv'
  BY <1>1, Numbers DEF VerifyStagedFails, Goto, clock, TimeInv, Before, Posted, Kept, device
<1> QED  BY <1>1, <1>2, <1>3, <1>4, <1>5, KeptFrame

LEMMA RequireBudgetStep ==
    ASSUME IndInv, RequireBudget PROVE IndInv'
<1> USE DEF IndInv
<1>1. UNCHANGED Kept
  BY DEF RequireBudget, Kept
<1>2. RunType'
  <2>1. Budget > 0 /\ RunType
    BY TypeParts DEF RequireBudget, ControlInv, Before
  <2> QED  BY <1>1, <2>1, Numbers DEF RequireBudget, RunType, States, Armed, Kept
<1>3. FlagType'
  BY <1>1, TypeParts DEF RequireBudget, FlagType, Kept, device, history
<1>4. ControlInv'
  BY <1>1 DEF RequireBudget, ControlInv, Before, Posted, Staging, Kept, history
<1>5. TimeInv'
  BY <1>1, Numbers DEF RequireBudget, TimeInv, Before, Posted, Kept, device
<1> QED  BY <1>1, <1>2, <1>3, <1>4, <1>5, KeptFrame

LEMMA ApplyFailsStep ==
    ASSUME IndInv, ApplyFails PROVE IndInv'
<1> USE DEF IndInv
<1>1. UNCHANGED Kept
  BY DEF ApplyFails, Goto, clock, Kept
<1>2. RunType'
  BY Numbers, ChunkOptions, TypeParts DEF ApplyFails, Goto, clock, RunType, States, Armed
<1>3. FlagType'
  BY <1>1, TypeParts DEF ApplyFails, Goto, clock, FlagType, Kept, device, history
<1>4. ControlInv'
  BY <1>1 DEF ApplyFails, Goto, clock, ControlInv, Before, Posted, Staging, Kept, history
<1>5. TimeInv'
  BY <1>1, Numbers DEF ApplyFails, Goto, clock, TimeInv, Before, Posted, Kept, device
<1> QED  BY <1>1, <1>2, <1>3, <1>4, <1>5, KeptFrame

LEMMA ConfirmEndsStep ==
    ASSUME IndInv, ConfirmEnds PROVE IndInv'
<1> USE DEF IndInv
<1>1. UNCHANGED Kept
  BY DEF ConfirmEnds, Goto, clock, Kept
<1>2. RunType'
  BY Numbers, ChunkOptions, TypeParts DEF ConfirmEnds, Goto, clock, RunType, States, Armed
<1>3. FlagType'
  BY <1>1, TypeParts DEF ConfirmEnds, Goto, clock, FlagType, Kept, device, history
<1>4. ControlInv'
  BY <1>1 DEF ConfirmEnds, Goto, clock, ControlInv, Before, Posted, Staging, Kept, history
<1>5. TimeInv'
  BY <1>1, Numbers DEF ConfirmEnds, Goto, clock, TimeInv, Before, Posted, Kept, device
<1> QED  BY <1>1, <1>2, <1>3, <1>4, <1>5, KeptFrame

LEMMA AwaitRevertStep ==
    ASSUME IndInv, AwaitRevert PROVE IndInv'
<1> USE DEF IndInv
<1>1. UNCHANGED Kept
  BY DEF AwaitRevert, clock, Kept
<1>2. RunType'
  BY Numbers, ChunkOptions, TypeParts DEF AwaitRevert, clock, RunType, States, Armed
<1>3. FlagType'
  BY <1>1, TypeParts DEF AwaitRevert, clock, FlagType, Kept, device, history
<1>4. ControlInv'
  BY <1>1 DEF AwaitRevert, clock, ControlInv, Before, Posted, Staging, Kept, history
<1>5. TimeInv'
  BY <1>1, Numbers DEF AwaitRevert, clock, TimeInv, Before, Posted, Kept, device
<1> QED  BY <1>1, <1>2, <1>3, <1>4, <1>5, KeptFrame

LEMMA FreshSessionStep ==
    ASSUME IndInv, FreshSession PROVE IndInv'
<1> USE DEF IndInv
<1>1. UNCHANGED Kept
  BY DEF FreshSession, Goto, clock, Kept
<1>2. RunType'
  <2>1. RunType /\ owner \in Token \cup {0}
    BY TypeParts DEF DeviceType
  <2>2. /\ UNCHANGED <<plan, sess, before, age, left, outcome>> /\ pc' = "reread"
        /\ verify' \in {owner, 0} /\ todo' \subseteq Option
    BY <1>1 DEF FreshSession, Goto, clock, Kept
  <2> QED  BY <2>1, <2>2 DEF RunType, States, Armed
<1>3. FlagType'
  BY <1>1, TypeParts DEF FreshSession, Goto, clock, FlagType, Kept, device, history
<1>4. ControlInv'
  BY <1>1 DEF FreshSession, Goto, clock, ControlInv, Before, Posted, Staging, Kept, history
<1>5. TimeInv'
  BY <1>1, Numbers DEF FreshSession, Goto, clock, TimeInv, Before, Posted, Kept, device
<1> QED  BY <1>1, <1>2, <1>3, <1>4, <1>5, KeptFrame

LEMMA FreshSessionFailsStep ==
    ASSUME IndInv, FreshSessionFails PROVE IndInv'
<1> USE DEF IndInv
<1>1. UNCHANGED Kept
  BY DEF FreshSessionFails, Goto, clock, Kept
<1>2. RunType'
  BY Numbers, ChunkOptions, TypeParts DEF FreshSessionFails, Goto, clock, RunType, States, Armed
<1>3. FlagType'
  BY <1>1, TypeParts DEF FreshSessionFails, Goto, clock, FlagType, Kept, device, history
<1>4. ControlInv'
  BY <1>1 DEF FreshSessionFails, Goto, clock, ControlInv, Before, Posted, Staging, Kept, history
<1>5. TimeInv'
  BY <1>1, Numbers DEF FreshSessionFails, Goto, clock, TimeInv, Before, Posted, Kept, device
<1> QED  BY <1>1, <1>2, <1>3, <1>4, <1>5, KeptFrame

LEMMA RereadFailsStep ==
    ASSUME IndInv, RereadFails PROVE IndInv'
<1> USE DEF IndInv
<1>1. UNCHANGED Kept
  BY DEF RereadFails, Goto, clock, Kept
<1>2. RunType'
  BY Numbers, ChunkOptions, TypeParts DEF RereadFails, Goto, clock, RunType, States, Armed
<1>3. FlagType'
  BY <1>1, TypeParts DEF RereadFails, Goto, clock, FlagType, Kept, device, history
<1>4. ControlInv'
  BY <1>1 DEF RereadFails, Goto, clock, ControlInv, Before, Posted, Staging, Kept, history
<1>5. TimeInv'
  BY <1>1, Numbers DEF RereadFails, Goto, clock, TimeInv, Before, Posted, Kept, device
<1> QED  BY <1>1, <1>2, <1>3, <1>4, <1>5, KeptFrame

LEMMA RereadDoneStep ==
    ASSUME IndInv, RereadDone PROVE IndInv'
<1> USE DEF IndInv
<1>1. UNCHANGED Kept
  BY DEF RereadDone, Goto, clock, Kept
<1>2. RunType'
  BY Numbers, ChunkOptions, TypeParts DEF RereadDone, Goto, clock, RunType, States, Armed
<1>3. FlagType'
  BY <1>1, TypeParts DEF RereadDone, Goto, clock, FlagType, Kept, device, history
<1>4. ControlInv'
  BY <1>1 DEF RereadDone, Goto, clock, ControlInv, Before, Posted, Staging, Kept, history
<1>5. TimeInv'
  BY <1>1, Numbers DEF RereadDone, Goto, clock, TimeInv, Before, Posted, Kept, device
<1> QED  BY <1>1, <1>2, <1>3, <1>4, <1>5, KeptFrame

LEMMA CancelStep ==
    ASSUME IndInv, Cancel PROVE IndInv'
<1> USE DEF IndInv
<1>1. UNCHANGED Kept
  BY DEF Cancel, Kept
<1>2. RunType'
  BY Numbers, ChunkOptions, TypeParts DEF Cancel, RunType, States, Armed
<1>3. FlagType'
  BY <1>1, TypeParts DEF Cancel, FlagType, Kept, device, history
<1>4. ControlInv'
  BY <1>1 DEF Cancel, ControlInv, Before, Posted, Staging, Kept, history
<1>5. TimeInv'
  BY <1>1, Numbers DEF Cancel, TimeInv, Before, Posted, Kept, device
<1> QED  BY <1>1, <1>2, <1>3, <1>4, <1>5, KeptFrame

LEMMA CrashStep ==
    ASSUME IndInv, Crash PROVE IndInv'
<1> USE DEF IndInv
<1>1. UNCHANGED Kept
  BY DEF Crash, Return, Kept
<1>2. RunType'
  BY Numbers, ChunkOptions, TypeParts DEF Crash, Return, RunType, States, Armed
<1>3. FlagType'
  BY <1>1, TypeParts DEF Crash, Return, FlagType, Kept, device, history
<1>4. ControlInv'
  BY <1>1 DEF Crash, Return, ControlInv, Before, Posted, Staging, Kept, history
<1>5. TimeInv'
  BY <1>1, Numbers DEF Crash, Return, TimeInv, Before, Posted, Kept, device
<1> QED  BY <1>1, <1>2, <1>3, <1>4, <1>5, KeptFrame

LEMMA SnapshotFailsStep ==
    ASSUME IndInv, NEW o \in Option, SnapshotFails(o) PROVE IndInv'
<1> USE DEF IndInv
<1>1. UNCHANGED Kept
  BY DEF SnapshotFails, Goto, clock, Kept
<1>2. RunType'
  BY Numbers, ChunkOptions, TypeParts DEF SnapshotFails, Goto, clock, RunType, States, Armed
<1>3. FlagType'
  BY <1>1, TypeParts DEF SnapshotFails, Goto, clock, FlagType, Kept, device, history
<1>4. ControlInv'
  BY <1>1 DEF SnapshotFails, Goto, clock, ControlInv, Before, Posted, Staging, Kept, history
<1>5. TimeInv'
  BY <1>1, Numbers DEF SnapshotFails, Goto, clock, TimeInv, Before, Posted, Kept, device
<1> QED  BY <1>1, <1>2, <1>3, <1>4, <1>5, KeptFrame

LEMMA RereadStep ==
    ASSUME IndInv, NEW o \in Option, Reread(o) PROVE IndInv'
<1> USE DEF IndInv
<1>1. UNCHANGED Kept
  BY DEF Reread, clock, Kept
<1>2. RunType'
  BY Numbers, ChunkOptions, TypeParts DEF Reread, clock, RunType, States, Armed
<1>3. FlagType'
  BY <1>1, TypeParts DEF Reread, clock, FlagType, Kept, device, history
<1>4. ControlInv'
  BY <1>1 DEF Reread, clock, ControlInv, Before, Posted, Staging, Kept, history
<1>5. TimeInv'
  BY <1>1, Numbers DEF Reread, clock, TimeInv, Before, Posted, Kept, device
<1> QED  BY <1>1, <1>2, <1>3, <1>4, <1>5, KeptFrame

LEMMA HealthStep ==
    ASSUME IndInv, NEW good \in BOOLEAN, Health(good) PROVE IndInv'
<1> USE DEF IndInv
<1>1. UNCHANGED Kept
  BY DEF Health, Goto, clock, Kept
<1>2. RunType'
  BY Numbers, ChunkOptions, TypeParts DEF Health, Goto, clock, RunType, States, Armed
<1>3. FlagType'
  BY <1>1, TypeParts DEF Health, Goto, clock, FlagType, Kept, device, history
<1>4. ControlInv'
  BY <1>1 DEF Health, Goto, clock, ControlInv, Before, Posted, Staging, Kept, history
<1>5. TimeInv'
  BY <1>1, Numbers DEF Health, Goto, clock, TimeInv, Before, Posted, Kept, device
<1> QED  BY <1>1, <1>2, <1>3, <1>4, <1>5, KeptFrame

-----------------------------------------------------------------------------
(* Steps that may log in again.                                            *)

\* The device keeps its configuration and its timer; a session may be new.
LEMMA LoginFrame ==
    ASSUME IndInv, UNCHANGED <<live, rollback, restarts, landed, base, written>>,
           staged' \in [Token -> Delta], valid' \subseteq Token,
           RunType', FlagType', runs' \in 0..MaxRuns, ControlInv',
           pc \in Staging, pc' \in Staging \cup {"budget", "discard"}
    PROVE  IndInv'
<1> USE DEF IndInv
<1>1. UNCHANGED <<live, armed, owner, timer, snapshot, stagedSnapshot, restarts, base,
                  written, landed>>
  BY DEF rollback
<1>2. DeviceType' /\ CountType'
  BY <1>1, TypeParts DEF DeviceType, CountType
<1>3. TypeOK'
  BY <1>2 DEF TypeOK, DeviceType, RunType, CountType, FlagType
<1>4. BaseInv'
  BY <1>1 DEF BaseInv
<1>5. TimeInv'
  BY DEF TimeInv, Posted, Staging
<1> QED  BY <1>3, <1>4, <1>5

LEMMA PreflightStep == ASSUME IndInv, Preflight PROVE IndInv'
<1> USE DEF IndInv
<1>1. /\ UNCHANGED <<live, rollback, restarts, landed, base, written>>
      /\ UNCHANGED <<plan, inWindow, before, verify, checked, age, left, cancelled, outcome, runs>>
      /\ pc = "preflight" /\ pc' = "snapshot" /\ Served /\ left > 0
      /\ sess' = Serving /\ valid' = valid \cup {Serving} /\ staged' = Minted(Serving)
      /\ todo' \subseteq Option
  BY DEF Preflight, Goto, Relogged, Served, clock, history
<1>2. Serving \in Token
  BY <1>1, ServedToken
<1>3. staged' \in [Token -> Delta] /\ valid' \subseteq Token
  BY <1>1, <1>2, MintedType DEF TypeOK
<1>4. RunType'
  BY <1>1, <1>2, TypeParts DEF RunType, States
<1>5. FlagType' /\ runs' \in 0..MaxRuns
  BY <1>1, TypeParts DEF FlagType, CountType, rollback
<1>6. Budget > 0
  BY <1>1, Numbers DEF TypeOK
<1>7. ControlInv'
  BY <1>1, <1>2, <1>6 DEF ControlInv, Before, Posted, Staging
<1> QED  BY <1>1, <1>3, <1>4, <1>5, <1>7, LoginFrame DEF Staging

LEMMA SnapshotReadStep ==
    ASSUME IndInv, NEW o \in Option, SnapshotRead(o) PROVE IndInv'
<1> USE DEF IndInv
<1>1. /\ UNCHANGED <<live, rollback, restarts, landed, base, written>>
      /\ UNCHANGED <<plan, inWindow, verify, checked, age, left, cancelled, outcome, runs>>
      /\ pc = "snapshot" /\ pc' = "snapshot" /\ Served
      /\ sess' = Serving /\ valid' = valid \cup {Serving} /\ staged' = Minted(Serving)
      /\ todo' = todo \ {o} /\ before' = [before EXCEPT ![o] = Effective(Serving, o)]
  BY DEF SnapshotRead, Goto, Relogged, clock, history
<1>2. Serving \in Token
  BY <1>1, ServedToken
<1>3. staged' \in [Token -> Delta] /\ valid' \subseteq Token
  BY <1>1, <1>2, MintedType DEF TypeOK
<1>4. before' \in Delta
  <2>1. staged[Serving][o] \in Value \cup {None} /\ live[o] \in Value
    BY <1>2 DEF TypeOK, Delta
  <2>2. Effective(Serving, o) \in Value \cup {None}
    BY <2>1 DEF Effective
  <2> QED  BY <1>1, <2>2 DEF TypeOK, Delta
<1>5. RunType'
  BY <1>1, <1>2, <1>4, TypeParts DEF RunType
<1>6. FlagType' /\ runs' \in 0..MaxRuns
  BY <1>1, TypeParts DEF FlagType, CountType, rollback
<1>7. ControlInv'
  BY <1>1, <1>2 DEF ControlInv, Before, Posted, Staging
<1> QED  BY <1>1, <1>3, <1>5, <1>6, <1>7, LoginFrame DEF Staging

LEMMA VerifyStagedStep == ASSUME IndInv, VerifyStaged PROVE IndInv'
<1> USE DEF IndInv
<1>1. /\ UNCHANGED <<live, rollback, restarts, landed, base, written>>
      /\ UNCHANGED <<plan, before, todo, verify, checked, age, left, cancelled, runs>>
      /\ pc = "verify" /\ Served
      /\ sess' = Serving /\ valid' = valid \cup {Serving} /\ staged' = Minted(Serving)
      /\ \/ pc' = "budget" /\ inWindow' = TRUE /\ UNCHANGED outcome
         \/ pc' = "discard" /\ outcome' = "error" /\ UNCHANGED inWindow
  BY DEF VerifyStaged, Relogged, clock, history
<1>2. Serving \in Token
  BY <1>1, ServedToken
<1>3. staged' \in [Token -> Delta] /\ valid' \subseteq Token
  BY <1>1, <1>2, MintedType DEF TypeOK
<1>4. RunType'
  BY <1>1, <1>2, TypeParts DEF RunType, States, Armed
<1>5. FlagType' /\ runs' \in 0..MaxRuns
  BY <1>1, TypeParts DEF FlagType, CountType, rollback
<1>6. ControlInv'
  BY <1>1, <1>2 DEF ControlInv, Before, Posted, Staging
<1> QED  BY <1>1, <1>3, <1>4, <1>5, <1>6, LoginFrame DEF Staging

\* What one chunk makes of a delta.
Chunk(d, i) == [o \in Option |-> IF o \in Chunks[i] /\ plan[o] # None THEN plan[o] ELSE d[o]]

LEMMA ChunkType ==
    ASSUME TypeOK, NEW d \in Delta, NEW i PROVE Chunk(d, i) \in Delta
BY DEF Chunk, TypeOK, Delta

LEMMA StageChunkStep ==
    ASSUME IndInv, NEW i \in 1..Len(Chunks), StageChunk(i) PROVE IndInv'
<1> USE DEF IndInv
<1>1. /\ UNCHANGED <<live, rollback, restarts, landed, base, written>>
      /\ UNCHANGED <<plan, inWindow, before, verify, checked, age, left, cancelled, outcome, runs>>
      /\ pc = "stage" /\ pc' = "stage" /\ Served
      /\ sess' = Serving /\ valid' = valid \cup {Serving} /\ todo' = todo \ {i}
      /\ staged' = [staged EXCEPT ![Serving] = Chunk(Minted(Serving)[Serving], i)]
  BY DEF StageChunk, Goto, Relogged, clock, history, Chunk
<1>2. Serving \in Token
  BY <1>1, ServedToken
<1>3. Chunk(Minted(Serving)[Serving], i) \in Delta
  BY <1>2, MintedType, ChunkType
<1>4. staged' \in [Token -> Delta] /\ valid' \subseteq Token
  BY <1>1, <1>2, <1>3 DEF TypeOK
<1>5. RunType'
  BY <1>1, <1>2, TypeParts DEF RunType, States
<1>6. FlagType' /\ runs' \in 0..MaxRuns
  BY <1>1, TypeParts DEF FlagType, CountType, rollback
<1>7. ControlInv'
  BY <1>1, <1>2 DEF ControlInv, Before, Posted, Staging
<1> QED  BY <1>1, <1>4, <1>5, <1>6, <1>7, LoginFrame DEF Staging

LEMMA StageFailsStep ==
    ASSUME IndInv, NEW took \in SUBSET Option, StageFails(took)
    PROVE  IndInv'
<1> USE DEF IndInv
<1> DEFINE Partly(d) == [o \in Option |-> IF o \in took THEN plan[o] ELSE d[o]]
<1>1. /\ UNCHANGED <<live, rollback, restarts, landed, base, written>>
      /\ UNCHANGED <<plan, sess, valid, inWindow, before, verify, checked, age, left, cancelled, runs>>
      /\ pc = "stage" /\ pc' = "discard" /\ outcome' = "error" /\ todo' = {}
      /\ \/ UNCHANGED staged
         \/ sess \in valid /\ staged' = [staged EXCEPT ![sess] = Partly(staged[sess])]
  BY DEF StageFails, clock, history
<1>2. staged' \in [Token -> Delta] /\ valid' \subseteq Token
  <2>1. \A d \in Delta : Partly(d) \in Delta
    BY DEF TypeOK, Delta
  <2> HIDE DEF Partly
  <2> QED  BY <1>1, <2>1 DEF TypeOK
<1> HIDE DEF Partly
<1>3. RunType'
  BY <1>1, TypeParts DEF RunType, States, Armed
<1>4. FlagType' /\ runs' \in 0..MaxRuns
  BY <1>1, TypeParts DEF FlagType, CountType, rollback
<1>5. ControlInv'
  BY <1>1 DEF ControlInv, Before, Posted, Staging
<1> QED  BY <1>1, <1>2, <1>3, <1>4, <1>5, LoginFrame DEF Staging

-----------------------------------------------------------------------------
(* A run begins, a run ends.                                               *)

LEMMA StartStep == ASSUME IndInv, NEW p \in Delta, Start(p) PROVE IndInv'
<1> USE DEF IndInv
<1>1. /\ UNCHANGED <<live, armed, owner, timer, snapshot, stagedSnapshot>>
      /\ UNCHANGED <<inWindow, todo, verify, checked, restarts>>
      /\ runs < MaxRuns /\ runs' = runs + 1 /\ pc = "idle" /\ pc' = "preflight"
      /\ sess' = LoginToken /\ valid' = valid \cup {LoginToken} /\ staged' = Minted(LoginToken)
      /\ plan' = p /\ left' = Budget /\ age' = 0 /\ outcome' = "none" /\ before' = Empty
      /\ cancelled' = FALSE /\ base' = None /\ written' = None /\ landed' = FALSE
  BY DEF Start, Goto, rollback
<1>2. LoginToken \in Token
  BY LoginGivesToken
<1>3. DeviceType'
  BY <1>1, <1>2, MintedType, TypeParts DEF DeviceType
<1>4. RunType'
  BY <1>1, <1>2, EmptyDelta, Numbers, TypeParts DEF RunType, States
<1>5. CountType'
  BY <1>1, Numbers, TypeParts DEF CountType
<1>6. FlagType'
  BY <1>1, TypeParts, Zenon DEF FlagType
<1>7. TypeOK'
  BY <1>3, <1>4, <1>5, <1>6 DEF TypeOK, DeviceType, RunType, CountType, FlagType
<1>8. ControlInv' /\ TimeInv' /\ BaseInv'
  BY <1>1, <1>2 DEF ControlInv, TimeInv, BaseInv, Before, Posted, Staging
<1> QED  BY <1>7, <1>8

LEMMA DiscardStep == ASSUME IndInv, NEW failed, Discard(failed) PROVE IndInv'
<1> USE DEF IndInv
<1> DEFINE left0 == [o \in Option |-> IF ConfigOf[o] \in Configs(plan) \ failed
                                      THEN None ELSE staged[sess][o]]
<1>1. /\ UNCHANGED <<live, valid, armed, owner, timer, snapshot, stagedSnapshot>>
      /\ UNCHANGED <<plan, sess, before, runs, restarts, cancelled, base, written, landed>>
      /\ pc = "discard" /\ pc' = "idle" /\ outcome' = outcome /\ inWindow' = FALSE /\ todo' = {}
      /\ verify' = 0 /\ checked' = FALSE /\ age' = 0 /\ left' = 0
      /\ \/ UNCHANGED staged
         \/ sess \in valid /\ staged' = [staged EXCEPT ![sess] = left0]
  BY DEF Discard, Return, rollback, history
<1>2. staged' \in [Token -> Delta]
  <2>1. sess \in valid => left0 \in Delta
    BY DEF TypeOK, Delta
  <2> HIDE DEF left0
  <2> QED  BY <1>1, <2>1 DEF TypeOK
<1>3. DeviceType'
  BY <1>1, <1>2, TypeParts DEF DeviceType
<1>4. RunType'
  BY <1>1, Numbers, TypeParts DEF RunType, States
<1>5. CountType'
  BY <1>1, TypeParts DEF CountType
<1>6. FlagType'
  BY <1>1, TypeParts, Zenon DEF FlagType
<1>7. TypeOK'
  BY <1>3, <1>4, <1>5, <1>6 DEF TypeOK, DeviceType, RunType, CountType, FlagType
<1>8. ControlInv'
  BY <1>1 DEF ControlInv, Before, Posted, Staging
<1>9. TimeInv' /\ BaseInv'
  BY <1>1 DEF TimeInv, BaseInv, Posted
<1> QED  BY <1>7, <1>8, <1>9

-----------------------------------------------------------------------------
(* The device.                                                             *)

LEMMA ApplyServedStep ==
    ASSUME IndInv, NEW answered \in BOOLEAN, ApplyServed(answered) PROVE IndInv'
<1> USE DEF IndInv
<1>1. /\ UNCHANGED <<valid, plan, sess, inWindow, before, todo, verify, checked>>
      /\ UNCHANGED <<age, left, cancelled, runs, restarts, landed>>
      /\ pc = "apply" /\ sess \in valid
      /\ snapshot' = live /\ stagedSnapshot' = staged[sess] /\ owner' = sess
      /\ timer' = Window /\ armed' = TRUE /\ staged' = [staged EXCEPT ![sess] = Empty]
      /\ live' = [o \in Option |-> IF staged[sess][o] # None THEN staged[sess][o] ELSE live[o]]
      /\ base' = live /\ written' = live'
      /\ \/ pc' = "health" /\ UNCHANGED outcome
         \/ pc' = "discard" /\ outcome' = "error"
  BY DEF ApplyServed, CommitAll, clock
<1>2. live' \in [Option -> Value]
  BY <1>1 DEF TypeOK, Delta
<1>3. live \in [Option -> Value] /\ sess \in Token /\ staged[sess] \in Delta
  BY <1>1 DEF TypeOK
<1>4. DeviceType'
  BY <1>1, <1>2, <1>3, EmptyDelta, Numbers, TypeParts DEF DeviceType
<1>5. RunType'
  BY <1>1, TypeParts DEF RunType, States, Armed
<1>6. CountType'
  BY <1>1, <1>2, <1>3, TypeParts DEF CountType
<1>7. FlagType'
  BY <1>1, TypeParts, Zenon DEF FlagType
<1>8. TypeOK'
  BY <1>4, <1>5, <1>6, <1>7 DEF TypeOK, DeviceType, RunType, CountType, FlagType
<1>9. base' # None
  BY <1>1, <1>3, NoneIsNoValue
<1>10. ControlInv'
  BY <1>1, <1>3, <1>9 DEF ControlInv, Before, Posted, Staging
<1>11. TimeInv'
  <2>1. age <= RpcTimeout /\ age \in Nat
    BY <1>1, Numbers DEF TimeInv, TypeOK
  <2> QED  BY <1>1, <2>1, Numbers DEF TimeInv, Posted
<1>12. BaseInv'
  BY <1>1 DEF BaseInv, ControlInv, Before
<1> QED  BY <1>8, <1>10, <1>11, <1>12

LEMMA ConfirmServedStep ==
    ASSUME IndInv, NEW answered \in BOOLEAN, ConfirmServed(answered) PROVE IndInv'
<1> USE DEF IndInv
<1>1. /\ UNCHANGED <<live, staged, valid, snapshot, stagedSnapshot, plan, sess, before>>
      /\ UNCHANGED <<runs, restarts, base, written, cancelled>>
      /\ pc = "confirm" /\ armed /\ armed' = FALSE /\ owner' = 0 /\ timer' = 0 /\ landed' = TRUE
      /\ \/ /\ pc' = "idle" /\ outcome' = "applied" /\ inWindow' = FALSE /\ todo' = {}
            /\ verify' = 0 /\ checked' = FALSE /\ age' = 0 /\ left' = 0
         \/ UNCHANGED <<pc, outcome, inWindow, todo, verify, checked, age, left>>
  BY DEF ConfirmServed, Return, clock
<1>2. DeviceType'
  BY <1>1, Numbers, TypeParts DEF DeviceType
<1>3. RunType'
  BY <1>1, Numbers, TypeParts DEF RunType, States
<1>4. CountType'
  BY <1>1, TypeParts DEF CountType
<1>5. FlagType'
  BY <1>1, TypeParts, Zenon DEF FlagType
<1>6. TypeOK'
  BY <1>2, <1>3, <1>4, <1>5 DEF TypeOK, DeviceType, RunType, CountType, FlagType
<1>7. ControlInv'
  BY <1>1 DEF ControlInv, Before, Posted, Staging
<1>8. TimeInv' /\ BaseInv'
  BY <1>1 DEF TimeInv, BaseInv, ControlInv, Posted
<1> QED  BY <1>6, <1>7, <1>8

\* What the device does by itself leaves the run where it is.
LEMMA DeviceFrame ==
    ASSUME IndInv, DeviceType', armed' \in BOOLEAN, restarts' \in 0..MaxRestarts,
           UNCHANGED <<pc, plan, sess, inWindow, before, todo, verify, checked, clock,
                       outcome, runs, history>>,
           ~armed', BaseInv'
    PROVE  IndInv'
<1> USE DEF IndInv
<1>1. /\ UNCHANGED <<pc, plan, sess, inWindow, before, todo, verify, checked, age, left, cancelled>>
      /\ UNCHANGED <<outcome, runs, base, written, landed>>
  BY DEF clock, history
<1>2. RunType' /\ CountType'
  BY <1>1, TypeParts DEF RunType, CountType
<1>3. FlagType'
  BY <1>1, TypeParts, Zenon DEF FlagType
<1>4. TypeOK'
  BY <1>2, <1>3 DEF TypeOK, DeviceType, RunType, CountType, FlagType
<1>5. ControlInv' /\ TimeInv'
  BY <1>1 DEF ControlInv, TimeInv
<1> QED  BY <1>4, <1>5

LEMMA RollbackStep == ASSUME IndInv, Rollback PROVE IndInv'
<1> USE DEF IndInv
<1>1. /\ UNCHANGED <<valid, timer, snapshot, stagedSnapshot, restarts, base, written, landed>>
      /\ armed /\ live' = snapshot /\ armed' = FALSE /\ owner' = 0
      /\ staged' = [staged EXCEPT ![owner] = stagedSnapshot]
  BY DEF Rollback, history
<1>2. DeviceType'
  BY <1>1, TypeParts DEF DeviceType
<1>3. armed' \in BOOLEAN
  BY <1>1, Zenon
<1>4. restarts' \in 0..MaxRestarts
  BY <1>1 DEF TypeOK
<1>5. BaseInv'
  BY <1>1 DEF BaseInv
<1> QED  BY <1>1, <1>2, <1>3, <1>4, <1>5, DeviceFrame DEF Rollback

LEMMA RestartStep == ASSUME IndInv, Restart PROVE IndInv'
<1> USE DEF IndInv
<1>1. /\ UNCHANGED <<live, staged, snapshot, stagedSnapshot, base, written, landed>>
      /\ restarts < MaxRestarts /\ restarts' = restarts + 1
      /\ valid' = {} /\ armed' = FALSE /\ owner' = 0 /\ timer' = 0
  BY DEF Restart, history
<1>2. DeviceType'
  BY <1>1, Numbers, TypeParts DEF DeviceType
<1>3. armed' \in BOOLEAN
  BY <1>1, Zenon
<1>4. restarts' \in 0..MaxRestarts /\ restarts' # 0
  BY <1>1, Numbers DEF TypeOK
<1>5. BaseInv'
  BY <1>1, <1>4 DEF BaseInv
<1> QED  BY <1>1, <1>2, <1>3, <1>4, <1>5, DeviceFrame DEF Restart

LEMMA TickStep == ASSUME IndInv, Tick PROVE IndInv'
<1> USE DEF IndInv
<1>1. /\ UNCHANGED <<live, staged, valid, armed, owner, snapshot, stagedSnapshot, pc, plan, sess>>
      /\ UNCHANGED <<inWindow, before, todo, verify, checked, outcome, runs, restarts, cancelled>>
      /\ UNCHANGED <<base, written, landed>>
      /\ ~(armed /\ timer = 0) /\ (pc = "apply" => age < RpcTimeout)
      /\ timer' = IF armed THEN timer - 1 ELSE timer
      /\ age' = IF pc \in Armed /\ age < Window + Grace THEN age + 1 ELSE age
      /\ left' = IF left > 0 THEN left - 1 ELSE 0
  BY DEF Tick, history
<1>2. timer \in 0..Window /\ age \in 0..Window + Grace /\ left \in 0..Budget
  BY DEF TypeOK
<1>3. /\ timer' \in 0..Window /\ age' \in 0..Window + Grace /\ left' \in 0..Budget
      /\ age' \in {age, age + 1} /\ (armed => timer' = timer - 1)
      /\ age = Window + Grace => age' = age
  BY <1>1, <1>2, Numbers
<1>4. DeviceType' /\ RunType' /\ CountType'
  BY <1>1, <1>3, TypeParts DEF DeviceType, RunType, CountType
<1>5. FlagType'
  BY <1>1, TypeParts, Zenon DEF FlagType
<1>6. TypeOK'
  BY <1>4, <1>5 DEF TypeOK, DeviceType, RunType, CountType, FlagType
<1>7. ControlInv' /\ BaseInv'
  BY <1>1 DEF ControlInv, BaseInv
<1>8. TimeInv'
  <2>1. pc = "apply" => age' <= RpcTimeout
    BY <1>1, <1>2, <1>3, Numbers
  <2>2. pc \in {"fresh", "reread"} => age' >= Window + Grace
    BY <1>2, <1>3, Numbers DEF TimeInv
  <2>3. ASSUME pc \in Posted, armed PROVE timer' + age' <= Window + RpcTimeout
    <3>1. timer + age <= Window + RpcTimeout
      BY <2>3 DEF TimeInv
    <3>2. timer' = timer - 1 /\ (age' = age \/ age' = age + 1)
      BY <1>3, <2>3
    <3>3. timer \in Int /\ age \in Int
      BY <1>2, Numbers
    <3> HIDE DEF IndInv
    <3> QED  BY <3>1, <3>2, <3>3, Numbers
  <2> QED  BY <1>1, <2>1, <2>2, <2>3 DEF TimeInv
<1> QED  BY <1>6, <1>7, <1>8

-----------------------------------------------------------------------------
LEMMA NextInv == IndInv /\ [Next]_vars => IndInv'
<1> SUFFICES ASSUME IndInv, [Next]_vars PROVE IndInv'
  OBVIOUS
<1>1. CASE \E p \in Delta : Start(p)
  BY <1>1, StartStep
<1>2. CASE EngineStep
  <2>1. CASE \/ PreflightRefuses \/ Preflight \/ SnapshotDone \/ StageDone \/ VerifyStaged
             \/ VerifyStagedFails \/ RequireBudget \/ ApplyFails
    BY <2>1, PreflightRefusesStep, PreflightStep, SnapshotDoneStep, StageDoneStep,
       VerifyStagedStep, VerifyStagedFailsStep, RequireBudgetStep, ApplyFailsStep
  <2>2. CASE \/ ConfirmEnds \/ AwaitRevert \/ FreshSession \/ FreshSessionFails
             \/ RereadFails \/ RereadDone
    BY <2>2, ConfirmEndsStep, AwaitRevertStep, FreshSessionStep, FreshSessionFailsStep,
       RereadFailsStep, RereadDoneStep
  <2>3. CASE \E o \in Option : SnapshotRead(o) \/ SnapshotFails(o) \/ Reread(o)
    BY <2>3, SnapshotReadStep, SnapshotFailsStep, RereadStep
  <2>4. CASE (\E i \in 1..Len(Chunks) : StageChunk(i)) \/ \E took \in SUBSET Option : StageFails(took)
    BY <2>4, StageChunkStep, StageFailsStep
  <2>5. CASE \E answered \in BOOLEAN : ApplyServed(answered) \/ ConfirmServed(answered)
    BY <2>5, ApplyServedStep, ConfirmServedStep
  <2>6. CASE \E good \in BOOLEAN : Health(good)
    BY <2>6, HealthStep
  <2>7. CASE \E failed \in SUBSET {ConfigOf[o] : o \in Option} : Discard(failed)
    BY <2>7, DiscardStep
  <2> QED  BY <1>2, <2>1, <2>2, <2>3, <2>4, <2>5, <2>6, <2>7 DEF EngineStep
<1>3. CASE Cancel \/ Crash \/ Rollback \/ Restart \/ Tick
  BY <1>3, CancelStep, CrashStep, RollbackStep, RestartStep, TickStep
<1>4. CASE UNCHANGED vars
  <2>1. UNCHANGED <<live, staged, valid, armed, owner, timer, snapshot, stagedSnapshot, pc, plan,
                    sess, inWindow, before, todo, verify, checked, age, left, cancelled,
                    outcome, runs, restarts, base, written, landed>>
    BY <1>4 DEF vars, device, clock, history
  <2>2. RunType' /\ FlagType'
    BY <2>1, TypeParts DEF IndInv, RunType, FlagType
  <2>3. ControlInv' /\ TimeInv'
    BY <2>1 DEF IndInv, ControlInv, TimeInv
  <2> QED  BY <2>1, <2>2, <2>3, KeptFrame DEF Kept, device, history
<1> QED  BY <1>1, <1>2, <1>3, <1>4 DEF Next

LEMMA AlwaysInv == Spec => []IndInv
BY InitInv, NextInv, PTL DEF Spec

-----------------------------------------------------------------------------
(* awaitRevert measures from before the request that starts the device's timer; the
   grace is as long as that request may take, so that its answer is never early. *)
THEOREM ApplyEngineVerifiesAfterWindow == Spec => []VerifiesAfterWindow
<1>1. IndInv => VerifiesAfterWindow
  <2> SUFFICES ASSUME IndInv, pc \in {"fresh", "reread"}, armed PROVE timer = 0
    BY DEF VerifiesAfterWindow
  <2>1. timer + age <= Window + RpcTimeout /\ age >= Window + Grace
    BY DEF IndInv, TimeInv, Posted
  <2>2. timer \in 0..Window /\ age \in 0..Window + Grace
    BY DEF IndInv, TypeOK
  <2> QED  BY <2>1, <2>2, Numbers
<1> QED  BY <1>1, AlwaysInv, PTL

(* "applied" is permanent and an error is not, for any number of runs, also of one
   that begins while the rollback of the last is armed, and however plans are batched. *)
THEOREM ApplyEngineOutcomeHolds == Spec => [](AppliedIsPermanent /\ ErrorIsNotPermanent)
<1>1. IndInv => AppliedIsPermanent /\ ErrorIsNotPermanent
  BY DEF IndInv, ControlInv, BaseInv, AppliedIsPermanent, ErrorIsNotPermanent
<1> QED  BY <1>1, AlwaysInv, PTL

-----------------------------------------------------------------------------
(* The first run.  verifyStaged asks whether each file has some staged     *)
(* change.  That is the whole plan under OneBatchPerFile.                  *)

\* A delta that holds of each file all or nothing.
Whole(d) ==
    /\ \A o \in Option : d[o] \in {None, plan[o]}
    /\ \A o, p \in Option :
          ConfigOf[o] = ConfigOf[p] /\ d[o] # None /\ plan[p] # None => d[p] = plan[p]

FirstInv ==
    /\ runs = 0 => pc = "idle" /\ valid = {} /\ base = None
    /\ runs \in {0, 1} /\ base = None => ~armed
    /\ runs = 1 =>
          /\ valid \subseteq {sess}
          /\ pc \in Staging => Whole(staged[sess])
          /\ pc \in {"budget", "apply"} => staged[sess] = plan
          /\ pc \in Posted =>
                /\ staged[sess] \in {Empty, plan}
                /\ \A o \in Option : plan[o] # None => written[o] = plan[o]
                /\ armed => stagedSnapshot = plan
          /\ pc = "reread" => \A o \in todo : o \in Option /\ plan[o] # None
          /\ pc = "reread" /\ checked => ~armed /\ live = base
          /\ outcome = "reverted" => base # None /\ ~armed /\ live = base

LEMMA FirstInit == Init => FirstInv
BY DEF Init, FirstInv

LEMMA FirstKept ==
    ASSUME FirstInv, UNCHANGED Kept, pc # "idle",
           pc' \in Staging => pc \in Staging,
           pc' \in {"budget", "apply"} => pc \in {"budget", "apply"},
           pc' \in Posted => pc \in Posted,
           pc' = "reread" /\ runs = 1 => /\ \A o \in todo' : o \in Option /\ plan[o] # None
                                         /\ checked' => ~armed /\ live = base,
           outcome' = "reverted" /\ runs = 1 => base # None /\ ~armed /\ live = base
    PROVE  FirstInv'
<1>1. UNCHANGED <<live, staged, valid, armed, stagedSnapshot, plan, sess, runs, base, written>>
  BY DEF Kept, device, history
<1>2. runs # 0
  BY DEF FirstInv
<1>3. Whole(staged[sess]) => Whole(staged[sess])'
  BY <1>1 DEF Whole
<1> QED  BY <1>1, <1>2, <1>3 DEF FirstInv

\* The rollback has happened once a planned option reads differently.
LEMMA RereadTells ==
    ASSUME IndInv, FirstInv, runs = 1, NEW o \in Option, Reread(o), pc' = "reread"
    PROVE  ~armed /\ live = base
<1> USE DEF IndInv
<1>1. pc = "reread" /\ o \in todo /\ Effective(verify, o) # plan[o]
  BY DEF Reread
<1>2. /\ valid \subseteq {sess} /\ staged[sess] \in {Empty, plan}
      /\ plan[o] # None /\ written[o] = plan[o]
  BY <1>1 DEF FirstInv, Posted
<1>3. staged[sess][o] \in {None, plan[o]}
  BY <1>2, EmptyDelta
<1>4. live[o] # plan[o]
  BY <1>1, <1>2, <1>3 DEF Effective
<1>5. live # written /\ base # None
  BY <1>1, <1>2, <1>4 DEF ControlInv, Posted
<1> QED  BY <1>5 DEF BaseInv

LEMMA FirstRereadStep ==
    ASSUME IndInv, FirstInv, NEW o \in Option, Reread(o) PROVE FirstInv'
<1>1. UNCHANGED Kept /\ pc = "reread" /\ todo' = todo \ {o}
      /\ (UNCHANGED <<pc, outcome>> \/ (pc' = "discard" /\ outcome' = "unknown"))
  BY DEF Reread, Kept
<1>2. pc' = "reread" /\ runs = 1 => ~armed /\ live = base
  BY RereadTells
<1>3. outcome' # "reverted"
  BY <1>1 DEF IndInv, ControlInv, Posted
<1>4. pc' = "reread" /\ runs = 1 => \A q \in todo' : q \in Option /\ plan[q] # None
  BY <1>1 DEF FirstInv
<1> QED  BY <1>1, <1>2, <1>3, <1>4, FirstKept DEF Staging, Posted

LEMMA FirstFreshStep ==
    ASSUME IndInv, FirstInv, FreshSession PROVE FirstInv'
<1>1. /\ UNCHANGED Kept /\ UNCHANGED outcome /\ pc = "fresh" /\ pc' = "reread" /\ checked' = FALSE
      /\ \A o \in todo' : o \in Option /\ plan[o] # None
  BY DEF FreshSession, Goto, Kept
<1>2. outcome' # "reverted"
  BY <1>1 DEF IndInv, ControlInv, Posted
<1> QED  BY <1>1, <1>2, FirstKept DEF Staging, Posted

LEMMA FirstDoneStep ==
    ASSUME IndInv, FirstInv, RereadDone PROVE FirstInv'
<1>1. UNCHANGED Kept /\ pc = "reread" /\ pc' = "discard"
      /\ (outcome' = "reverted" => checked)
  BY DEF RereadDone, Goto, Kept
<1>2. outcome' = "reverted" /\ runs = 1 => base # None /\ ~armed /\ live = base
  BY <1>1 DEF FirstInv, IndInv, ControlInv, Posted
<1> QED  BY <1>1, <1>2, FirstKept DEF Staging, Posted

LEMMA FirstCancelStep ==
    ASSUME FirstInv, Cancel PROVE FirstInv'
<1>1. UNCHANGED Kept /\ UNCHANGED <<pc, todo, checked, outcome>> /\ pc # "idle"
  BY DEF Cancel, Kept
<1>2. /\ pc' = "reread" /\ runs = 1 => /\ \A o \in todo' : o \in Option /\ plan[o] # None
                                       /\ checked' => ~armed /\ live = base
      /\ outcome' = "reverted" /\ runs = 1 => base # None /\ ~armed /\ live = base
  BY <1>1 DEF FirstInv
<1> QED  BY <1>1, <1>2, FirstKept

\* The other steps of the engine alone: they report no revert.
Silent ==
    \/ PreflightRefuses \/ SnapshotDone \/ StageDone \/ VerifyStagedFails \/ RequireBudget
    \/ ApplyFails \/ ConfirmEnds \/ AwaitRevert \/ FreshSessionFails \/ RereadFails \/ Crash
    \/ (\E o \in Option : SnapshotFails(o)) \/ (\E good \in BOOLEAN : Health(good))

LEMMA FirstSilentStep ==
    ASSUME IndInv, FirstInv, Silent PROVE FirstInv'
<1>1. UNCHANGED Kept /\ pc # "idle"
  BY DEF Silent, PreflightRefuses, SnapshotDone, StageDone, VerifyStagedFails, RequireBudget,
         ApplyFails, ConfirmEnds, AwaitRevert, FreshSessionFails, RereadFails, Crash,
         SnapshotFails, Health, Goto, Kept
<1>2. /\ pc' \in Staging => pc \in Staging
      /\ pc' \in {"budget", "apply"} => pc \in {"budget", "apply"}
      /\ pc' \in Posted => pc \in Posted
      /\ pc' # "reread"
  BY DEF Silent, PreflightRefuses, SnapshotDone, StageDone, VerifyStagedFails, RequireBudget,
         ApplyFails, ConfirmEnds, AwaitRevert, FreshSessionFails, RereadFails, Crash,
         SnapshotFails, Health, Goto, Return, Staging, Posted
<1>3. outcome' # "reverted"
  <2>1. pc \in Before \cup Posted \/ outcome' \in {"none", "error", "unknown"}
    BY DEF Silent, PreflightRefuses, SnapshotDone, StageDone, VerifyStagedFails, RequireBudget,
           ApplyFails, ConfirmEnds, AwaitRevert, FreshSessionFails, RereadFails, Crash,
           SnapshotFails, Health, Goto, Return, Before, Posted
  <2>2. outcome' \in {outcome, "none", "error", "unknown"}
    BY DEF Silent, PreflightRefuses, SnapshotDone, StageDone, VerifyStagedFails, RequireBudget,
           ApplyFails, ConfirmEnds, AwaitRevert, FreshSessionFails, RereadFails, Crash,
           SnapshotFails, Health, Goto, Return
  <2> QED  BY <2>1, <2>2 DEF IndInv, ControlInv
<1> QED  BY <1>1, <1>2, <1>3, FirstKept

\* The session that serves a first run's call is the only one, and its delta is
\* what was staged, or nothing when it is new.
LEMMA FirstServing ==
    ASSUME IndInv, FirstInv, runs = 1, pc \in Staging, Served
    PROVE  /\ Serving \in Token /\ valid \cup {Serving} \subseteq {Serving}
           /\ Minted(Serving)[Serving] \in Delta /\ Whole(Minted(Serving)[Serving])
<1> USE DEF IndInv
<1>1. Serving \in Token /\ Minted(Serving)[Serving] \in Delta
  BY ServedToken, MintedType
<1>2. valid \subseteq {sess} /\ ~inWindow /\ Whole(staged[sess])
  BY DEF FirstInv, ControlInv
<1>3. CASE sess \in valid
  BY <1>1, <1>2, <1>3 DEF Serving, Minted
<1>4. CASE sess \notin valid
  <2>1. valid = {} /\ Serving \notin valid
    BY <1>2, <1>4
  <2>2. Minted(Serving)[Serving] = Empty
    BY <1>1, <2>1 DEF Minted, TypeOK
  <2>3. Whole(Empty)
    BY EmptyDelta DEF Whole
  <2> QED  BY <1>1, <2>1, <2>2, <2>3
<1> QED  BY <1>3, <1>4

\* A call of a first run before its apply.
LEMMA FirstLogin ==
    ASSUME IndInv, FirstInv, UNCHANGED <<live, armed, plan, runs, base>>,
           pc \in Staging, Served, sess' = Serving, valid' = valid \cup {Serving},
           outcome' # "reverted", pc' \notin Posted,
           runs = 1 => /\ pc' \in Staging => Whole(staged'[Serving])
                       /\ pc' \in {"budget", "apply"} => staged'[Serving] = plan
    PROVE  FirstInv'
<1>1. runs # 0
  BY DEF FirstInv, Staging
<1>2. runs = 1 => valid' \subseteq {sess'}
  BY FirstServing
<1>3. Whole(staged'[Serving]) => Whole(staged[sess])'
  BY DEF Whole
<1> QED  BY <1>1, <1>2, <1>3 DEF FirstInv, Posted

LEMMA FirstPreflightStep ==
    ASSUME IndInv, FirstInv, Preflight \/ \E o \in Option : SnapshotRead(o) PROVE FirstInv'
<1>1. /\ UNCHANGED <<live, armed, plan, runs, base, outcome>>
      /\ pc \in {"preflight", "snapshot"} /\ pc' = "snapshot" /\ Served
      /\ sess' = Serving /\ valid' = valid \cup {Serving} /\ staged' = Minted(Serving)
  BY DEF Preflight, SnapshotRead, Goto, Relogged, rollback, history
<1>2. outcome' # "reverted" /\ pc \in Staging
  BY <1>1 DEF IndInv, ControlInv, Before, Staging
<1>3. runs = 1 => Whole(staged'[Serving])
  BY <1>1, <1>2, FirstServing
<1> QED  BY <1>1, <1>2, <1>3, FirstLogin DEF Posted

LEMMA ChunkIsWhole ==
    ASSUME OneBatchPerFile, NEW i \in 1..Len(Chunks), NEW d \in Delta, Whole(d)
    PROVE  Whole(Chunk(d, i))
<1> DEFINE c == Chunk(d, i)
<1>1. \A o \in Option : c[o] = IF o \in Chunks[i] /\ plan[o] # None THEN plan[o] ELSE d[o]
  BY DEF Chunk
<1> HIDE DEF c
<1>2. \A o \in Option : c[o] \in {None, plan[o]}
  BY <1>1 DEF Whole
<1>3. ASSUME NEW o \in Option, NEW p \in Option, ConfigOf[o] = ConfigOf[p],
             c[o] # None, plan[p] # None
      PROVE  c[p] = plan[p]
  <2>1. CASE o \in Chunks[i] /\ plan[o] # None
    <3>1. PICK j \in 1..Len(Chunks) : p \in Chunks[j]
      BY DEF OneBatchPerFile
    <3>2. i = j
      BY <1>3, <2>1, <3>1 DEF OneBatchPerFile
    <3> QED  BY <1>1, <1>3, <3>1, <3>2
  <2>2. CASE ~(o \in Chunks[i] /\ plan[o] # None)
    <3>1. d[p] = plan[p]
      BY <1>1, <1>3, <2>2 DEF Whole
    <3> QED  BY <1>1, <3>1
  <2> QED  BY <2>1, <2>2
<1>4. Whole(c)
  BY <1>2, <1>3 DEF Whole
<1> QED  BY <1>4 DEF c

LEMMA FirstStageChunkStep ==
    ASSUME OneBatchPerFile, IndInv, FirstInv, NEW i \in 1..Len(Chunks), StageChunk(i)
    PROVE  FirstInv'
<1>1. /\ UNCHANGED <<live, armed, plan, runs, base, outcome>>
      /\ pc = "stage" /\ pc' = "stage" /\ Served
      /\ sess' = Serving /\ valid' = valid \cup {Serving}
      /\ staged' = [staged EXCEPT ![Serving] = Chunk(Minted(Serving)[Serving], i)]
  BY DEF StageChunk, Goto, Relogged, rollback, history, Chunk
<1>2. outcome' # "reverted" /\ pc \in Staging
  BY <1>1 DEF IndInv, ControlInv, Before, Staging
<1>3. ASSUME runs = 1 PROVE Whole(staged'[Serving])
  <2>1. /\ Serving \in Token /\ Minted(Serving)[Serving] \in Delta
        /\ Whole(Minted(Serving)[Serving])
    BY <1>1, <1>2, <1>3, FirstServing
  <2>2. Whole(Chunk(Minted(Serving)[Serving], i))
    BY <2>1, ChunkIsWhole
  <2>3. staged'[Serving] = Chunk(Minted(Serving)[Serving], i)
    BY <1>1, <2>1 DEF IndInv, TypeOK
  <2> QED  BY <2>2, <2>3
<1> QED  BY <1>1, <1>2, <1>3, FirstLogin DEF Posted

\* verifyStaged: a delta of whole files that touches the files of the plan is the plan.
LEMMA WholeIsPlan ==
    ASSUME plan \in Delta, NEW d \in Delta, Whole(d), Configs(d) = Configs(plan)
    PROVE  d = plan
<1>1. ASSUME NEW o \in Option PROVE d[o] = plan[o]
  <2>1. CASE plan[o] = None
    BY <2>1 DEF Whole
  <2>2. CASE plan[o] # None
    <3>1. ConfigOf[o] \in Configs(d)
      BY <2>2 DEF Configs
    <3>2. PICK p \in Option : d[p] # None /\ ConfigOf[p] = ConfigOf[o]
      BY <3>1 DEF Configs
    <3> QED  BY <2>2, <3>2 DEF Whole
  <2> QED  BY <2>1, <2>2
<1> QED  BY <1>1 DEF Delta

LEMMA FirstVerifyStep ==
    ASSUME IndInv, FirstInv, VerifyStaged PROVE FirstInv'
<1>1. /\ UNCHANGED <<live, armed, plan, runs, base>>
      /\ pc = "verify" /\ Served
      /\ sess' = Serving /\ valid' = valid \cup {Serving} /\ staged' = Minted(Serving)
      /\ \/ /\ Configs(Minted(Serving)[Serving]) = Configs(plan)
            /\ pc' = "budget" /\ UNCHANGED outcome
         \/ pc' = "discard" /\ outcome' = "error"
  BY DEF VerifyStaged, Relogged, rollback, history
<1>2. outcome' # "reverted" /\ pc \in Staging /\ plan \in Delta
  BY <1>1 DEF IndInv, ControlInv, Before, Staging, TypeOK
<1>3. ASSUME runs = 1, pc' = "budget" PROVE staged'[Serving] = plan
  <2>1. Minted(Serving)[Serving] \in Delta /\ Whole(Minted(Serving)[Serving])
    BY <1>1, <1>2, <1>3, FirstServing
  <2>2. Configs(Minted(Serving)[Serving]) = Configs(plan)
    BY <1>1, <1>3
  <2> QED  BY <1>1, <1>2, <2>1, <2>2, WholeIsPlan
<1> QED  BY <1>1, <1>2, <1>3, FirstLogin DEF Posted, Staging

LEMMA FirstEndStep ==
    ASSUME IndInv, FirstInv,
           \/ \E took \in SUBSET Option : StageFails(took)
           \/ \E failed : Discard(failed)
    PROVE  FirstInv'
<1>1. /\ UNCHANGED <<live, valid, armed, sess, runs, base>>
      /\ pc \in {"stage", "discard"} /\ pc' \in {"discard", "idle"}
      /\ outcome' = "error" \/ outcome' = outcome
  BY DEF StageFails, Discard, Return, rollback, history
<1>2. runs # 0
  BY <1>1 DEF FirstInv
<1> QED  BY <1>1, <1>2 DEF FirstInv, Staging, Posted

LEMMA FirstStartStep ==
    ASSUME IndInv, FirstInv, NEW p \in Delta, Start(p) PROVE FirstInv'
<1>1. /\ UNCHANGED armed /\ runs' = runs + 1 /\ pc' = "preflight" /\ sess' = LoginToken
      /\ valid' = valid \cup {LoginToken} /\ staged' = Minted(LoginToken)
      /\ outcome' = "none" /\ base' = None
  BY DEF Start, Goto, rollback
<1>2. runs \in Nat /\ runs' # 0 /\ (runs' = 1 => runs = 0)
  BY <1>1, Numbers DEF IndInv, TypeOK
<1>3. ASSUME runs = 0 PROVE valid' = {sess'} /\ staged'[sess'] = Empty /\ ~armed
  <2>1. LoginToken \in Token /\ valid = {} /\ ~armed
    BY <1>3, LoginGivesToken DEF IndInv, FirstInv
  <2>2. Minted(LoginToken)[LoginToken] = Empty
    BY <2>1 DEF Minted, IndInv, TypeOK
  <2> QED  BY <1>1, <2>1, <2>2
<1>4. staged'[sess'] = Empty => Whole(staged[sess])'
  BY EmptyDelta DEF Whole
<1> QED  BY <1>1, <1>2, <1>3, <1>4 DEF FirstInv, Staging, Posted

LEMMA FirstApplyStep ==
    ASSUME IndInv, FirstInv, NEW answered \in BOOLEAN, ApplyServed(answered) PROVE FirstInv'
<1> USE DEF IndInv
<1>1. /\ UNCHANGED <<valid, plan, sess, runs>> /\ pc = "apply" /\ sess \in valid
      /\ stagedSnapshot' = staged[sess] /\ staged' = [staged EXCEPT ![sess] = Empty]
      /\ live' = [o \in Option |-> IF staged[sess][o] # None THEN staged[sess][o] ELSE live[o]]
      /\ base' = live /\ written' = live'
      /\ \/ pc' = "health" /\ UNCHANGED outcome
         \/ pc' = "discard" /\ outcome' = "error"
  BY DEF ApplyServed, CommitAll
<1>2. base' # None /\ runs # 0 /\ outcome' # "reverted"
  BY <1>1, NoneIsNoValue DEF TypeOK, FirstInv, ControlInv, Before
<1>3. staged'[sess] = Empty
  BY <1>1 DEF TypeOK
<1>4. ASSUME runs = 1
      PROVE  stagedSnapshot' = plan /\ \A o \in Option : plan[o] # None => written'[o] = plan[o]
  <2>1. staged[sess] = plan
    BY <1>1, <1>4 DEF FirstInv
  <2> QED  BY <1>1, <2>1
<1> QED  BY <1>1, <1>2, <1>3, <1>4 DEF FirstInv, Staging, Posted

LEMMA FirstConfirmStep ==
    ASSUME IndInv, FirstInv, NEW answered \in BOOLEAN, ConfirmServed(answered) PROVE FirstInv'
<1>1. /\ UNCHANGED <<live, staged, valid, plan, sess, runs, base, written>>
      /\ pc = "confirm" /\ armed' = FALSE
      /\ (pc' = "idle" /\ outcome' = "applied") \/ UNCHANGED <<pc, outcome>>
  BY DEF ConfirmServed, Return
<1>2. outcome' # "reverted" /\ runs # 0
  BY <1>1 DEF IndInv, ControlInv, Posted, FirstInv
<1> QED  BY <1>1, <1>2 DEF FirstInv, Staging, Posted

LEMMA FirstRollbackStep ==
    ASSUME IndInv, FirstInv, Rollback PROVE FirstInv'
<1> USE DEF IndInv
<1>1. /\ UNCHANGED <<valid, stagedSnapshot, pc, plan, sess, todo, checked, outcome, runs, base, written>>
      /\ armed /\ armed' = FALSE /\ staged' = [staged EXCEPT ![owner] = stagedSnapshot]
  BY DEF Rollback, history
<1>2. ASSUME runs = 1 PROVE /\ pc \notin Before /\ ~(pc = "reread" /\ checked)
                            /\ outcome # "reverted"
  BY <1>1, <1>2 DEF FirstInv, ControlInv
<1>3. ASSUME runs = 1, pc \in Posted PROVE staged'[sess] = plan
  <2>1. owner = sess /\ stagedSnapshot = plan /\ sess \in Token
    BY <1>1, <1>3 DEF TimeInv, FirstInv, ControlInv, Posted
  <2> QED  BY <1>1, <2>1 DEF TypeOK
<1> QED  BY <1>1, <1>2, <1>3 DEF FirstInv, Before, Staging, Posted

LEMMA FirstRestartStep ==
    ASSUME FirstInv, Restart PROVE FirstInv'
<1>1. /\ UNCHANGED <<live, staged, stagedSnapshot, pc, plan, sess, todo, checked, outcome, runs, base, written>>
      /\ valid' = {} /\ armed' = FALSE
  BY DEF Restart, history
<1>2. Whole(staged[sess]) => Whole(staged[sess])'
  BY <1>1 DEF Whole
<1> QED  BY <1>1, <1>2 DEF FirstInv

LEMMA FirstIdleStep ==
    ASSUME FirstInv, Tick \/ UNCHANGED vars PROVE FirstInv'
<1>1. UNCHANGED <<live, staged, valid, armed, stagedSnapshot, pc, plan, sess, todo, checked,
                  outcome, runs, base, written>>
  BY DEF Tick, vars, device, history
<1>2. Whole(staged[sess]) => Whole(staged[sess])'
  BY <1>1 DEF Whole
<1> QED  BY <1>1, <1>2 DEF FirstInv

LEMMA FirstNext ==
    ASSUME OneBatchPerFile PROVE IndInv /\ FirstInv /\ [Next]_vars => FirstInv'
<1> SUFFICES ASSUME IndInv, FirstInv, [Next]_vars PROVE FirstInv'
  OBVIOUS
<1>1. CASE \E p \in Delta : Start(p)
  BY <1>1, FirstStartStep
<1>2. CASE EngineStep
  <2>1. CASE \/ Silent \/ Preflight \/ VerifyStaged \/ FreshSession \/ RereadDone
             \/ \E o \in Option : SnapshotRead(o) \/ Reread(o)
    BY <2>1, FirstSilentStep, FirstPreflightStep, FirstVerifyStep, FirstFreshStep,
       FirstDoneStep, FirstRereadStep
  <2>2. CASE (\E i \in 1..Len(Chunks) : StageChunk(i)) \/ \E took \in SUBSET Option : StageFails(took)
    BY <2>2, FirstStageChunkStep, FirstEndStep
  <2>3. CASE \E answered \in BOOLEAN : ApplyServed(answered) \/ ConfirmServed(answered)
    BY <2>3, FirstApplyStep, FirstConfirmStep
  <2>4. CASE \E failed \in SUBSET {ConfigOf[o] : o \in Option} : Discard(failed)
    BY <2>4, FirstEndStep
  <2> QED  BY <1>2, <2>1, <2>2, <2>3, <2>4 DEF EngineStep, Silent
<1>3. CASE Crash
  BY <1>3, FirstSilentStep DEF Silent
<1>4. CASE Cancel \/ Rollback \/ Restart \/ Tick \/ UNCHANGED vars
  BY <1>4, FirstCancelStep, FirstRollbackStep, FirstRestartStep, FirstIdleStep
<1> QED  BY <1>1, <1>2, <1>3, <1>4 DEF Next

LEMMA FirstAlways == ASSUME OneBatchPerFile PROVE Spec => [](IndInv /\ FirstInv)
<1>1. IndInv /\ FirstInv /\ [Next]_vars => FirstInv'
  BY FirstNext
<1> QED  BY <1>1, FirstInit, InitInv, NextInv, PTL DEF Spec

(* Engine.Apply tells the truth about the device: applied stays, reverted is back and an
   error is not permanent, whatever request, answer, session or timer is lost, when
   Batch splits no file of the plan. *)
THEOREM ApplyEngineOutcomeIsTrue ==
    ASSUME OneBatchPerFile PROVE Spec => []OutcomeIsTrue
<1>1. IndInv /\ FirstInv => OutcomeIsTrue
  BY DEF IndInv, ControlInv, BaseInv, FirstInv, OutcomeIsTrue, RevertedIsGone,
         AppliedIsPermanent, ErrorIsNotPermanent, Done
<1> QED  BY <1>1, FirstAlways, PTL

(* verifyStaged: what a first run applies is its whole plan, though the session may be
   lost between two chunks, when Batch splits no file of the plan. *)
THEOREM ApplyEngineStagedWhatWeAsked ==
    ASSUME OneBatchPerFile PROVE Spec => []StagedWhatWeAsked
<1>1. IndInv /\ FirstInv => StagedWhatWeAsked
  BY DEF FirstInv, StagedWhatWeAsked
<1> QED  BY <1>1, FirstAlways, PTL

=============================================================================
