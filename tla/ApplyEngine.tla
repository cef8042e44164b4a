----------------------------- MODULE ApplyEngine -----------------------------
(***************************************************************************)
(* internal/applyengine: one device, one engine, APPLY -> HEALTH ->        *)
(* CONFIRM against the rollback timer of rpcd, over a connection that      *)
(* loses requests and answers (internal/ubus).  The device side follows    *)
(* tools/mock_ubus.py, the contract fixture of the repository.             *)
(*                                                                         *)
(* Time is in ticks.  A run of Engine.Apply may follow another one, also   *)
(* while the rollback of the first is still armed.                         *)
(***************************************************************************)
EXTENDS Integers, Sequences

CONSTANTS
    Option,       \* UCI options a plan may write
    ConfigOf,     \* the config file of each option
    Chunks,       \* how Client.Batch splits the options of a plan, in order
    Window,       \* plan.timeout(), in ticks
    Grace,        \* Engine.RevertGrace
    RpcTimeout,   \* ubus defaultTimeout
    Budget,       \* the caller's deadline when Apply starts
    MaxRuns,      \* bound: runs of Engine.Apply
    MaxRestarts,  \* bound: restarts of rpcd
    None

Value == {0, 1}

ASSUME EngineConstants ==
    /\ {Window, Grace, RpcTimeout, Budget, MaxRuns, MaxRestarts} \subseteq Nat
    /\ Window > 0
    /\ RpcTimeout <= Grace
    /\ None \notin Option \cup Value /\ None \notin [Option -> Value]
    /\ Chunks \in Seq(SUBSET Option)

\* ubus session tokens.  A login that mints one may reuse the name of a session
\* nobody holds; three are always enough for the client's, the applying one and
\* a new one.
Token == 1..3

Delta == [Option -> Value \cup {None}]
Empty == [o \in Option |-> None]
Configs(delta) == {ConfigOf[o] : o \in {x \in Option : delta[x] # None}}

VARIABLES
    live,      \* committed configuration
    staged,    \* per session delta
    valid,     \* sessions rpcd knows
    armed, owner, timer, snapshot, stagedSnapshot,   \* rpcd's pending rollback
    pc,
    plan,      \* what this run wants written
    sess,      \* the applier's token
    inWindow,  \* Client.confirmWindow
    before,    \* snapshotPlanned
    todo,      \* options, or chunks, still to be sent
    verify,    \* token of the verifying session, 0: one without a delta
    checked,   \* planStillApplied's result
    age,       \* ticks since armed := e.now()
    left,      \* ticks until the caller's deadline
    outcome,
    runs, restarts,
    cancelled, \* the caller gave up before its deadline
    base,      \* history: live when this run's apply was served, None if never
    written,   \* history: what that apply made of it
    landed     \* history: a confirm of this run's apply was served

device == <<live, staged, valid, armed, owner, timer, snapshot, stagedSnapshot>>
rollback == <<armed, owner, timer, snapshot, stagedSnapshot>>
clock == <<age, left, cancelled>>
history == <<base, written, landed>>
vars == <<device, pc, plan, sess, inWindow, before, todo, verify, checked, clock,
          outcome, runs, restarts, history>>

Armed == {"apply", "health", "confirm", "await", "fresh", "reread", "discard"}
States == {"idle", "preflight", "snapshot", "stage", "verify", "budget"} \cup Armed

TypeOK ==
    /\ live \in [Option -> Value]
    /\ staged \in [Token -> Delta]
    /\ valid \subseteq Token
    /\ armed \in BOOLEAN
    /\ owner \in Token \cup {0}
    /\ timer \in 0..Window
    /\ snapshot \in [Option -> Value]
    /\ stagedSnapshot \in Delta
    /\ pc \in States
    /\ plan \in Delta
    /\ sess \in Token \cup {0}
    /\ inWindow \in BOOLEAN
    /\ before \in Delta
    /\ todo \subseteq Option \cup 1..Len(Chunks)
    /\ verify \in Token \cup {0}
    /\ checked \in BOOLEAN
    /\ age \in 0..Window + Grace
    /\ left \in 0..Budget
    /\ outcome \in {"none", "error", "applied", "reverted", "unknown"}
    /\ runs \in 0..MaxRuns
    /\ restarts \in 0..MaxRestarts
    /\ cancelled \in BOOLEAN
    /\ {base, written} \subseteq [Option -> Value] \cup {None}
    /\ landed \in BOOLEAN

Init ==
    /\ live = [o \in Option |-> 0]
    /\ staged = [t \in Token |-> Empty]
    /\ valid = {}
    /\ armed = FALSE /\ owner = 0 /\ timer = 0
    /\ snapshot = live /\ stagedSnapshot = Empty
    /\ pc = "idle"
    /\ plan = Empty /\ sess = 0 /\ inWindow = FALSE
    /\ before = Empty /\ todo = {} /\ verify = 0 /\ checked = FALSE
    /\ age = 0 /\ left = 0
    /\ outcome = "none"
    /\ runs = 0 /\ restarts = 0
    /\ cancelled = FALSE
    /\ base = None /\ written = None /\ landed = FALSE

----------------------------------------------------------------------------
(* The device                                                              *)

\* uci.get reads through the session's own delta.
Effective(t, o) ==
    IF t \in valid /\ staged[t][o] # None THEN staged[t][o] ELSE live[o]

\* The token a login returns: the applying session's while a rollback is armed.
LoginToken ==
    IF armed /\ owner \in valid THEN owner
    ELSE CHOOSE t \in Token : t \notin {sess, owner}

\* The session that serves a call, and the effect of getting it: a dead token is
\* replaced by one re-login, except inside the confirm window.
Serving == IF sess \in valid \/ inWindow THEN sess ELSE LoginToken

Minted(t) == IF t \in valid THEN staged ELSE [staged EXCEPT ![t] = Empty]

\* uci.apply: snapshot, commit the session's whole delta, arm the timer.
CommitAll(t) ==
    /\ snapshot' = live
    /\ stagedSnapshot' = staged[t]
    /\ owner' = t
    /\ timer' = Window
    /\ armed' = TRUE
    /\ live' = [o \in Option |-> IF staged[t][o] # None THEN staged[t][o] ELSE live[o]]
    /\ staged' = [staged EXCEPT ![t] = Empty]
    /\ UNCHANGED valid

\* The timer expired: the configuration comes back, and so does the delta of the
\* session that applied it.
Rollback ==
    /\ armed /\ timer = 0
    /\ live' = snapshot
    /\ staged' = [staged EXCEPT ![owner] = stagedSnapshot]
    /\ armed' = FALSE /\ owner' = 0
    /\ UNCHANGED <<valid, timer, snapshot, stagedSnapshot, pc, plan, sess, inWindow,
                   before, todo, verify, checked, clock, outcome, runs, restarts,
                   history>>

\* rpcd restarts: its sessions and its timer are gone, the configuration stays.
Restart ==
    /\ restarts < MaxRestarts
    /\ restarts' = restarts + 1
    /\ valid' = {}
    /\ armed' = FALSE /\ owner' = 0 /\ timer' = 0
    /\ UNCHANGED <<live, staged, snapshot, stagedSnapshot, pc, plan, sess, inWindow,
                   before, todo, verify, checked, clock, outcome, runs, history>>

\* A tick.  A due rollback is not delayed past it, nor is the uci.apply request
\* past its timeout.
Tick ==
    /\ ~(armed /\ timer = 0)
    /\ pc = "apply" => age < RpcTimeout
    /\ pc # "idle" \/ armed
    /\ timer' = IF armed THEN timer - 1 ELSE timer
    /\ age' = IF pc \in Armed /\ age < Window + Grace THEN age + 1 ELSE age
    /\ left' = IF left > 0 THEN left - 1 ELSE 0
    /\ UNCHANGED <<live, staged, valid, armed, owner, snapshot, stagedSnapshot, pc,
                   plan, sess, inWindow, before, todo, verify, checked, outcome, runs,
                   restarts, cancelled, history>>

----------------------------------------------------------------------------
(* Engine.Apply                                                            *)

Goto(from, to) == pc = from /\ pc' = to

\* A call is served while the caller's deadline has not passed; a served call
\* may still lose its answer.
Served == left > 0 /\ Serving \in valid \cup {LoginToken} /\ (inWindow => sess \in valid)

\* The client keeps the token a re-login gave it.
Relogged ==
    /\ sess' = Serving
    /\ valid' = valid \cup {Serving}

Return(result) ==
    /\ pc' = "idle"
    /\ outcome' = result
    /\ inWindow' = FALSE
    /\ todo' = {} /\ verify' = 0 /\ checked' = FALSE
    /\ age' = 0 /\ left' = 0 /\ UNCHANGED cancelled

\* Connect, then Engine.Apply.  The plan differs from what the session reads in
\* at least one option.
Start(p) ==
    LET t == LoginToken IN
    /\ runs < MaxRuns
    /\ Goto("idle", "preflight")
    /\ runs' = runs + 1
    /\ sess' = t
    /\ valid' = valid \cup {t}
    /\ staged' = Minted(t)
    /\ plan' = p
    /\ \E o \in Option : p[o] \notin {None, live[o]}
    /\ left' = Budget
    /\ age' = 0
    /\ outcome' = "none"
    /\ before' = Empty
    /\ cancelled' = FALSE
    /\ base' = None /\ written' = None /\ landed' = FALSE
    /\ UNCHANGED <<live, rollback, inWindow, todo, verify, checked, restarts>>

\* A foreign edit, an unreadable savedir, or a change of the management path that
\* was not acknowledged.
PreflightRefuses ==
    /\ pc = "preflight"
    /\ Return("error")
    /\ UNCHANGED <<device, plan, sess, before, runs, restarts, history>>

Preflight ==
    /\ Goto("preflight", "snapshot")
    /\ Served
    /\ Relogged /\ staged' = Minted(Serving)
    /\ todo' = {o \in Option : plan[o] # None}
    /\ UNCHANGED <<live, rollback, plan, inWindow, before, verify, checked, clock,
                   outcome, runs, restarts, history>>

\* snapshotPlanned, one uci.get.  An unread option has no entry.
SnapshotRead(o) ==
    /\ Goto("snapshot", "snapshot")
    /\ o \in todo /\ todo' = todo \ {o}
    /\ Served
    /\ Relogged /\ staged' = Minted(Serving)
    /\ before' = [before EXCEPT ![o] = Effective(Serving, o)]
    /\ UNCHANGED <<live, rollback, plan, inWindow, verify, checked, clock, outcome,
                   runs, restarts, history>>

SnapshotFails(o) ==
    /\ Goto("snapshot", "snapshot")
    /\ o \in todo /\ todo' = todo \ {o}
    /\ UNCHANGED <<device, plan, sess, inWindow, before, verify, checked, clock, outcome,
                   runs, restarts, history>>

SnapshotDone ==
    /\ Goto("snapshot", "stage")
    /\ todo = {}
    /\ todo' = {i \in 1..Len(Chunks) : \E o \in Chunks[i] : plan[o] # None}
    /\ UNCHANGED <<device, plan, sess, inWindow, before, verify, checked, clock, outcome,
                   runs, restarts, history>>

\* Batch sends its chunks in order; a chunk denied as a whole is resent after one
\* re-login.
NextChunk(i) == i \in todo /\ \A j \in todo : i <= j

StageChunk(i) ==
    LET t == Serving
        chunk == [o \in Option |-> IF o \in Chunks[i] /\ plan[o] # None
                                   THEN plan[o] ELSE Minted(t)[t][o]] IN
    /\ Goto("stage", "stage")
    /\ NextChunk(i) /\ todo' = todo \ {i}
    /\ Served
    /\ Relogged /\ staged' = [staged EXCEPT ![t] = chunk]
    /\ UNCHANGED <<live, rollback, plan, inWindow, before, verify, checked, clock,
                   outcome, runs, restarts, history>>

\* An operation, or the request, failed; whatever the router took of what was not
\* yet sent, later chunks included, it took.  Clear what was staged, ignoring
\* errors, and return.
Unsent == {o \in Option : plan[o] # None /\ \E i \in todo : o \in Chunks[i]}

StageFails(took) ==
    /\ pc = "stage" /\ todo # {} /\ took \subseteq Unsent
    /\ IF left > 0 /\ sess \in valid
       THEN staged' = [staged EXCEPT ![sess] = [o \in Option |-> IF o \in took THEN plan[o] ELSE @[o]]]
       ELSE UNCHANGED staged
    /\ pc' = "discard"
    /\ outcome' = "error"
    /\ todo' = {}
    /\ UNCHANGED <<live, valid, rollback, plan, sess, inWindow, before, verify, checked,
                   clock, runs, restarts, history>>

StageDone ==
    /\ Goto("stage", "verify")
    /\ todo = {}
    /\ UNCHANGED <<device, plan, sess, inWindow, before, todo, verify, checked, clock,
                   outcome, runs, restarts, history>>

\* Mutant of VerifyStaged: a config without staged changes is not noticed.
VerifyNothingExtra ==
    LET t == Serving IN
    /\ pc = "verify"
    /\ Served
    /\ Relogged /\ staged' = Minted(t)
    /\ IF Configs(Minted(t)[t]) \subseteq Configs(plan)
       THEN pc' = "budget" /\ inWindow' = TRUE /\ UNCHANGED outcome
       ELSE pc' = "discard" /\ outcome' = "error" /\ UNCHANGED inWindow
    /\ UNCHANGED <<live, rollback, plan, before, todo, verify, checked, clock, runs,
                   restarts, history>>

\* verifyStaged: every config of the plan has a staged change, no other has.
VerifyStaged ==
    LET t == Serving IN
    /\ pc = "verify"
    /\ Served
    /\ Relogged /\ staged' = Minted(t)
    /\ IF Configs(Minted(t)[t]) = Configs(plan)
       THEN pc' = "budget" /\ inWindow' = TRUE /\ UNCHANGED outcome
       ELSE pc' = "discard" /\ outcome' = "error" /\ UNCHANGED inWindow
    /\ UNCHANGED <<live, rollback, plan, before, todo, verify, checked, clock, runs,
                   restarts, history>>

VerifyStagedFails ==
    /\ Goto("verify", "discard")
    /\ outcome' = "error"
    /\ UNCHANGED <<device, plan, sess, inWindow, before, todo, verify, checked, clock,
                   runs, restarts, history>>

\* requireRollbackBudget, the last guard before the write.  The refusal cleans up
\* under a deadline of its own.
RequireBudget ==
    /\ pc = "budget"
    /\ age' = 0
    /\ IF left >= Window + Grace
       THEN pc' = "apply" /\ UNCHANGED <<inWindow, outcome, left>>
       ELSE pc' = "discard" /\ inWindow' = FALSE /\ outcome' = "error" /\ left' = 1
    /\ UNCHANGED <<device, plan, sess, before, todo, verify, checked, runs, restarts,
                   cancelled, history>>

\* Mutant of ApplyServed: the rollback is not requested.
ApplyUnprotected(answered) ==
    /\ pc = "apply"
    /\ left > 0 /\ sess \in valid
    /\ ~(armed /\ owner # sess)
    /\ live' = [o \in Option |-> Effective(sess, o)]
    /\ staged' = [staged EXCEPT ![sess] = Empty]
    /\ base' = live /\ written' = live'
    /\ IF answered THEN pc' = "health" /\ UNCHANGED outcome
                   ELSE pc' = "discard" /\ outcome' = "error"
    /\ UNCHANGED <<valid, rollback, plan, sess, inWindow, before, todo, verify, checked,
                   clock, runs, restarts, landed>>

\* uci.apply; refused while another session's rollback is armed.
ApplyServed(answered) ==
    /\ pc = "apply"
    /\ left > 0 /\ sess \in valid
    /\ ~(armed /\ owner # sess)
    /\ CommitAll(sess)
    /\ base' = live /\ written' = live'
    /\ IF answered THEN pc' = "health" /\ UNCHANGED outcome
                   ELSE pc' = "discard" /\ outcome' = "error"
    /\ UNCHANGED <<plan, sess, inWindow, before, todo, verify, checked, clock, runs,
                   restarts, landed>>

ApplyFails ==
    /\ Goto("apply", "discard")
    /\ outcome' = "error"
    /\ UNCHANGED <<device, plan, sess, inWindow, before, todo, verify, checked, clock,
                   runs, restarts, history>>

\* runHealth, on the applying session; a passing check goes on to confirmPoll.
Health(good) ==
    /\ Goto("health", IF good THEN "confirm" ELSE "await")
    /\ inWindow' = good
    /\ UNCHANGED <<device, plan, sess, before, todo, verify, checked, clock, outcome,
                   runs, restarts, history>>

\* Mutant of ConfirmServed: polled beyond the window, and "nothing is pending"
\* counts as confirmed.
ConfirmAcceptsNoData(answered) ==
    /\ pc = "confirm"
    /\ left > 0
    /\ sess \in valid /\ (armed => owner = sess)
    /\ armed' = FALSE /\ owner' = 0 /\ timer' = 0
    /\ landed' = (landed \/ armed)
    /\ IF answered THEN Return("applied")
       ELSE UNCHANGED <<pc, outcome, inWindow, todo, verify, checked, clock>>
    /\ UNCHANGED <<live, staged, valid, snapshot, stagedSnapshot, plan, sess, before,
                   runs, restarts, base, written>>

\* One uci.confirm of confirmPoll that rpcd accepts.
ConfirmServed(answered) ==
    /\ pc = "confirm"
    /\ age < Window /\ left > 0
    /\ sess \in valid /\ armed /\ owner = sess
    /\ armed' = FALSE /\ owner' = 0 /\ timer' = 0
    /\ landed' = TRUE
    /\ IF answered THEN Return("applied")
       ELSE UNCHANGED <<pc, outcome, inWindow, todo, verify, checked, clock>>
    /\ UNCHANGED <<live, staged, valid, snapshot, stagedSnapshot, plan, sess, before,
                   runs, restarts, base, written>>

\* Mutant of ConfirmEnds: polling goes on until the device refuses.
ConfirmUntilRefused ==
    /\ Goto("confirm", "await")
    /\ sess \in valid /\ armed /\ owner # sess
    /\ inWindow' = FALSE
    /\ UNCHANGED <<device, plan, sess, before, todo, verify, checked, clock, outcome,
                   runs, restarts, history>>

\* confirmPoll gives up: refused as another session, the window or the deadline
\* is over.
ConfirmEnds ==
    /\ Goto("confirm", "await")
    /\ \/ sess \in valid /\ armed /\ owner # sess
       \/ age >= Window
       \/ left = 0
    /\ inWindow' = FALSE
    /\ UNCHANGED <<device, plan, sess, before, todo, verify, checked, clock, outcome,
                   runs, restarts, history>>

\* Mutant of AwaitRevert: the grace is not waited for.
AwaitWindowOnly ==
    /\ pc = "await"
    /\ \/ /\ age >= Window
          /\ pc' = "fresh" /\ UNCHANGED outcome
       \/ /\ age < Window /\ left = 0
          /\ pc' = "discard" /\ outcome' = "unknown"
    /\ UNCHANGED <<device, plan, sess, inWindow, before, todo, verify, checked, clock,
                   runs, restarts, history>>

\* awaitRevert, up to the fresh session.
AwaitRevert ==
    /\ pc = "await"
    /\ \/ /\ age >= Window + Grace
          /\ pc' = "fresh" /\ UNCHANGED outcome
       \/ /\ age < Window + Grace /\ left = 0
          /\ pc' = "discard" /\ outcome' = "unknown"
    /\ UNCHANGED <<device, plan, sess, inWindow, before, todo, verify, checked, clock,
                   runs, restarts, history>>

\* FreshSession is the applying session again while a rollback is armed.
FreshSession ==
    /\ Goto("fresh", "reread")
    /\ left > 0
    /\ verify' = IF armed /\ owner \in valid THEN owner ELSE 0
    /\ checked' = FALSE
    /\ todo' = {o \in Option : plan[o] # None /\ before[o] \notin {None, plan[o]}}
    /\ UNCHANGED <<device, plan, sess, inWindow, before, clock, outcome, runs, restarts,
                   history>>

FreshSessionFails ==
    /\ Goto("fresh", "discard")
    /\ outcome' = "unknown"
    /\ UNCHANGED <<device, plan, sess, inWindow, before, todo, verify, checked, clock,
                   runs, restarts, history>>

\* planStillApplied: one option that can tell the two states apart.
Reread(o) ==
    /\ pc = "reread"
    /\ left > 0
    /\ o \in todo /\ todo' = todo \ {o}
    /\ checked' = TRUE
    /\ IF Effective(verify, o) = plan[o]
       THEN pc' = "discard" /\ outcome' = "unknown"
       ELSE UNCHANGED <<pc, outcome>>
    /\ UNCHANGED <<device, plan, sess, inWindow, before, verify, clock, runs, restarts,
                   history>>

RereadFails ==
    /\ Goto("reread", "discard")
    /\ todo # {}
    /\ outcome' = "unknown"
    /\ UNCHANGED <<device, plan, sess, inWindow, before, todo, verify, checked, clock,
                   runs, restarts, history>>

\* Mutant of RereadDone: with nothing to check the revert is taken for granted.
RereadAssumesRevert ==
    /\ Goto("reread", "discard")
    /\ todo = {}
    /\ outcome' = "reverted"
    /\ UNCHANGED <<device, plan, sess, inWindow, before, todo, verify, checked, clock,
                   runs, restarts, history>>

RereadDone ==
    /\ Goto("reread", "discard")
    /\ todo = {}
    /\ outcome' = IF checked THEN "reverted" ELSE "unknown"
    /\ UNCHANGED <<device, plan, sess, inWindow, before, todo, verify, checked, clock,
                   runs, restarts, history>>

\* discardStaged and revertStaged: one uci.revert per config of the plan, each of
\* which may fail.
Discard(failed) ==
    /\ pc = "discard"
    /\ IF left > 0 /\ sess \in valid
       THEN staged' = [staged EXCEPT ![sess] =
              [o \in Option |-> IF ConfigOf[o] \in Configs(plan) \ failed
                                THEN None ELSE @[o]]]
       ELSE UNCHANGED staged
    /\ Return(outcome)
    /\ UNCHANGED <<live, valid, rollback, plan, sess, before, runs, restarts, history>>

\* The caller's context is cancelled: as if its deadline had passed.
Cancel ==
    /\ pc # "idle"
    /\ left > 0
    /\ left' = 0
    /\ cancelled' = TRUE
    /\ UNCHANGED <<device, pc, plan, sess, inWindow, before, todo, verify, checked, age,
                   outcome, runs, restarts, history>>

\* The controller stops.
Crash ==
    /\ pc # "idle"
    /\ Return("none")
    /\ UNCHANGED <<device, plan, sess, before, runs, restarts, history>>

----------------------------------------------------------------------------

EngineStep ==
    \/ PreflightRefuses \/ Preflight
    \/ \E o \in Option : SnapshotRead(o) \/ SnapshotFails(o) \/ Reread(o)
    \/ SnapshotDone
    \/ \E i \in 1..Len(Chunks) : StageChunk(i)
    \/ \E took \in SUBSET Option : StageFails(took)
    \/ StageDone \/ VerifyStaged \/ VerifyStagedFails \/ RequireBudget
    \/ \E answered \in BOOLEAN : ApplyServed(answered) \/ ConfirmServed(answered)
    \/ ApplyFails
    \/ \E good \in BOOLEAN : Health(good)
    \/ ConfirmEnds \/ AwaitRevert
    \/ FreshSession \/ FreshSessionFails \/ RereadFails \/ RereadDone
    \/ \E failed \in SUBSET {ConfigOf[o] : o \in Option} : Discard(failed)

Next ==
    \/ \E p \in Delta : Start(p)
    \/ EngineStep
    \/ Cancel \/ Crash
    \/ Rollback \/ Restart \/ Tick

Spec == Init /\ [][Next]_vars

\* Every call returns by its own timeout or the caller's deadline, time passes, and
\* rpcd's timer runs.
Fairness == WF_vars(EngineStep) /\ WF_vars(Tick) /\ WF_vars(Rollback)

FairSpec == Spec /\ Fairness

----------------------------------------------------------------------------
(* Properties                                                              *)

Done == pc = "idle" /\ outcome # "none"

\* Client.Batch, which packs by bytes, sends every option and splits no file of the
\* plan: one of less than maxBatchBytes is a single batch.
OneBatchPerFile ==
    /\ \A o \in Option : \E i \in 1..Len(Chunks) : o \in Chunks[i]
    /\ \A i, j \in 1..Len(Chunks) : \A o \in Chunks[i], p \in Chunks[j] :
          ConfigOf[o] = ConfigOf[p] => i = j

\* Reverted is a statement about the device, not about the engine: the
\* configuration the run found is back in every option although only options
\* that awaitRevert could tell apart were read again.  For the first run: the
\* second may apply a delta that the rollback of the first has put back.
RevertedIsGone ==
    Done /\ outcome = "reverted" /\ runs = 1 => base # None /\ live = base

\* Applied means that the device itself cancelled this run's timer, and what the
\* apply committed stays (plan.go: "The change is permanent").
AppliedIsPermanent ==
    Done /\ outcome = "applied" => landed /\ ~armed /\ live = written

\* A run that returns an error leaves no permanent change, whichever answer was
\* lost: its apply was never served, or the timer is still armed, or it has put
\* the configuration back.  Only a restart of rpcd takes the timer away.
ErrorIsNotPermanent ==
    Done /\ outcome = "error" /\ base # None /\ restarts = 0 =>
        (armed /\ snapshot = base) \/ live = base

\* What Engine.Apply reports is true of the device: applied stays, reverted is
\* back, and an error leaves nothing permanent.
OutcomeIsTrue == TypeOK /\ RevertedIsGone /\ AppliedIsPermanent /\ ErrorIsNotPermanent

\* awaitRevert never looks while the device may still be waiting: the window it
\* measures from before the call, plus the grace, outlasts the timer that the
\* device started while serving the call.
VerifiesAfterWindow ==
    pc \in {"fresh", "reread"} /\ armed /\ owner = sess => timer = 0

\* Every run of Engine.Apply returns.
EveryRunReturns == (pc # "idle") ~> (pc = "idle")

\* The comment on verifyStaged: it "checks the device staged what we asked, before
\* we make it live".  Here with one batch per file, for the first run: a rollback
\* that an earlier run of the same session left armed puts that run's delta back
\* at any moment, between the check and the apply too.
StagedWhatWeAsked == pc = "apply" /\ runs = 1 => staged[sess] = plan

==============================================================================
