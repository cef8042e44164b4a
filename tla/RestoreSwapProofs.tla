-------------------------- MODULE RestoreSwapProofs --------------------------
(***************************************************************************)
(* NoPairIsLost and RestoredIsReviewed of RestoreSwap, and that it         *)
(* implements AtomicRestore, for any number of restores, crashes and       *)
(* failed file operations.                                                 *)
(*                                                                         *)
(* StepInv and PlaceInv say which marker there can be at each place of the *)
(* process.  PairInv carries the contents: the pair under a marker that    *)
(* has not moved anything is whole, and so is the one the marker names.    *)
(* ReviewInv and AuditInv follow fence, receipt and audit record: what a   *)
(* restore took over from the pair it replaced had been reviewed, since    *)
(* nothing is prepared behind a fence, and had been audited.               *)
(***************************************************************************)
EXTENDS RestoreSwap, TLAPS

MarkFields == DOMAIN mark = {"state", "id", "new", "old"}

StepInv ==
    /\ pc = "swap" => step \in 1..13
    /\ pc = "undo" => step \in 1..4
    /\ pc = "remove" => step \in 1..5
    /\ pc \notin {"swap", "undo", "remove", "finish"} => step = 1

PlaceInv ==
    /\ pc \in {"orphans", "open", "record"} => mark = NoMark
    /\ pc \in {"serving", "closed"} => mark.state \in {"none", "intent"}
    /\ pc = "locate" => mark.state \notin {"none", "intent", "cleanup"}
    /\ pc = "safety" => mark.state = "ready"
    /\ pc = "swap" => mark.state \notin {"none", "intent", "ready", "cleanup"}
    /\ pc = "undo" => mark.state \notin {"none", "intent", "ready"}
    /\ pc = "undo" /\ ~syncFaults => mark.state # "cleanup"
    /\ pc = "finish" => mark.state = "cleanup"
    /\ pc = "remove" => mark.state \in {"intent", "cleanup"}
    /\ accepted => pc \in {"serving", "closed"}
    /\ job # None => pc = "serving"

PairInv ==
    /\ mark.state \in {"none", "intent"} => canon \in whole
    /\ mark # NoMark => mark.new \in whole
    /\ job # None => prep[job] \in whole
    /\ pc = "remove" /\ mark.state = "cleanup" => canon = mark.new
    /\ pc = "undo" /\ step = 4 => canon = mark.old
    /\ mark.state \notin {"none", "intent", "ready"} => mark.id \in safety

\* A member of a new pair is the restore's own, or was reviewed and audited.
Inherited(c, id) ==
    \A m \in Member : c[m] \in Restore /\ c[m] # id => c[m] \in resumed /\ logged[c[m]] = 1

ReviewInv ==
    /\ mark.state \in {"none", "intent"} =>
          \A m \in Member : canon[m] \in Restore \ resumed => fence = canon[m]
    /\ pc = "remove" /\ mark.state = "cleanup" => fence = mark.id
    /\ job # None => fence = None /\ memFence = None
    /\ mark # NoMark => fence \in {None, mark.id}
    /\ mark.state = "intent" => fence = None
    /\ pc \in {"open", "record"} => memFence = fence
    /\ pc \in {"serving", "closed"} => memFence = fence \/ (fence = None /\ memFence \in resumed)
    /\ fence # None => fence \in safety
    /\ pc = "swap" /\ step > 11 => fence = mark.id

AuditInv ==
    /\ job # None => Inherited(prep[job], job) /\ job \in used /\ logged[job] = 0
    /\ mark # NoMark => Inherited(mark.new, mark.id) /\ mark.id \in used /\ logged[mark.id] = 0
    /\ \A r \in Restore \ used : logged[r] = 0
    /\ receipt # None => receipt \in used
    /\ \A r \in audit : logged[r] = 1
    /\ receipt # None /\ receipt \notin audit => logged[receipt] = 0
    /\ pc \in {"serving", "closed"} => receipt = None
    /\ mark # NoMark => receipt \in {None, mark.id}
    /\ pc = "remove" /\ mark.state = "cleanup" => receipt = mark.id
    /\ mark.state \in {"none", "intent"} =>
          \A m \in Member : canon[m] \in Restore => logged[canon[m]] = 1 \/ receipt = canon[m]

IndInv == /\ TypeOK /\ MarkFields /\ StepInv /\ PlaceInv
          /\ PairInv /\ PairsSurvive /\ ReviewInv /\ AuditInv

-----------------------------------------------------------------------------
(* The marker's states and the plan.                                       *)

Moved == {"ready", "safety", "old_db_parked", "old_pair_parked", "new_db_published",
          "new_pair_published", "validated", "suppressed", "cleanup"}

LEMMA MarkerStateSet == {MarkerStates[i] : i \in 1..Len(MarkerStates)} = Moved \cup {"intent"}
<1>1. Len(MarkerStates) = 10
  BY DEF MarkerStates
<1>2. 1..10 = {1, 2, 3, 4, 5, 6, 7, 8, 9, 10}
  OBVIOUS
<1>3. /\ MarkerStates[1] = "intent" /\ MarkerStates[2] = "ready" /\ MarkerStates[3] = "safety"
      /\ MarkerStates[4] = "old_db_parked" /\ MarkerStates[5] = "old_pair_parked"
      /\ MarkerStates[6] = "new_db_published" /\ MarkerStates[7] = "new_pair_published"
      /\ MarkerStates[8] = "validated" /\ MarkerStates[9] = "suppressed"
      /\ MarkerStates[10] = "cleanup"
  BY DEF MarkerStates
<1> HIDE DEF MarkerStates
<1> QED  BY <1>1, <1>2, <1>3 DEF Moved

\* Every state but the last comes before it.
LEMMA CleanupIsLast ==
    /\ Rank("cleanup") = 10
    /\ \A s \in Moved \ {"cleanup"} : Rank(s) \in 1..9
<1>1. Len(MarkerStates) = 10
  BY DEF MarkerStates
<1>2. /\ MarkerStates[1] = "intent" /\ MarkerStates[2] = "ready" /\ MarkerStates[3] = "safety"
      /\ MarkerStates[4] = "old_db_parked" /\ MarkerStates[5] = "old_pair_parked"
      /\ MarkerStates[6] = "new_db_published" /\ MarkerStates[7] = "new_pair_published"
      /\ MarkerStates[8] = "validated" /\ MarkerStates[9] = "suppressed"
      /\ MarkerStates[10] = "cleanup"
  BY DEF MarkerStates
<1>3. \A s \in Moved : \E i \in 1..10 : MarkerStates[i] = s
  BY <1>2 DEF Moved
<1>4. \A s \in Moved : Rank(s) \in 1..10 /\ MarkerStates[Rank(s)] = s
  BY <1>1, <1>3 DEF Rank
<1>5. \A i \in 1..10 : i = 10 <=> MarkerStates[i] = "cleanup"
  BY <1>2
<1> HIDE DEF MarkerStates
<1> QED  BY <1>4, <1>5 DEF Moved

\* What a step of applyReady works on.
LEMMA PlanSteps ==
    ASSUME NEW s \in 1..13
    PROVE  /\ Plan[s][1] \in {"park", "publish"} => Plan[s][2] \in Member
           /\ Plan[s][1] = "advance" => Plan[s][2] \in Moved \ {"ready", "safety"}
           /\ Plan[s][1] = "advance" => (Plan[s][2] = "cleanup" <=> s = 13)
           /\ Plan[s][1] = "advance" <=> s \in {2, 4, 6, 8, 10, 12, 13}
           /\ Plan[s][1] = "suppress" <=> s = 11
           /\ Len(Plan) = 13
<1>1. s \in {1, 2, 3, 4, 5, 6, 7, 8, 9, 10, 11, 12, 13}
  OBVIOUS
<1>2. Len(Plan) = 13
  BY DEF Plan
<1>3. /\ Plan[1] = <<"park", "db">> /\ Plan[2] = <<"advance", "old_db_parked">>
      /\ Plan[3] = <<"park", "keyring">> /\ Plan[4] = <<"advance", "old_pair_parked">>
      /\ Plan[5] = <<"publish", "db">> /\ Plan[6] = <<"advance", "new_db_published">>
      /\ Plan[7] = <<"publish", "keyring">> /\ Plan[8] = <<"advance", "new_pair_published">>
      /\ Plan[9] = <<"validate", "pair">> /\ Plan[10] = <<"advance", "validated">>
      /\ Plan[11] = <<"suppress", "routers">> /\ Plan[12] = <<"advance", "suppressed">>
      /\ Plan[13] = <<"advance", "cleanup">>
  BY DEF Plan
<1> HIDE DEF Plan
<1>4. CASE s \in {1, 3, 5, 7, 9, 11}
  BY <1>2, <1>3, <1>4 DEF Member
<1>5. CASE s \in {2, 4, 6, 8, 10, 12, 13}
  BY <1>2, <1>3, <1>5 DEF Moved
<1> QED  BY <1>1, <1>4, <1>5

LEMMA PlanLength == Len(Plan) = 13
BY DEF Plan

\* What validateMarker has accepted.
LEMMA MarkFacts ==
    ASSUME WellFormed(mark)
    PROVE  /\ mark.state \in Moved \cup {"none", "intent"}
           /\ mark = NoMark <=> mark.state = "none"
           /\ mark = NoMark => mark.id = None
           /\ mark # NoMark => mark.id \in Restore /\ mark.new \in Pair
           /\ mark.state \in Moved => mark.old \in Pair
<1>1. CASE mark = NoMark
  BY <1>1 DEF NoMark, Moved
<1>2. CASE mark # NoMark
  <2>1. /\ mark.state \in Moved \cup {"intent"} /\ mark.id \in Restore /\ mark.new \in Pair
        /\ mark.state # "intent" => mark.old \in Pair
    BY <1>2, MarkerStateSet, Zenon DEF WellFormed
  <2> QED  BY <1>2, <2>1 DEF Moved
<1> QED  BY <1>1, <1>2

\* A marker is rewritten in another state.
LEMMA MarkMoves ==
    ASSUME WellFormed(mark), MarkFields, mark.state \in Moved, NEW s \in Moved,
           mark' = [mark EXCEPT !.state = s]
    PROVE  /\ WellFormed(mark)' /\ MarkFields' /\ mark' # NoMark
           /\ mark'.state = s /\ mark'.id = mark.id /\ mark'.new = mark.new
           /\ mark'.old = mark.old
<1>1. /\ mark'.state = s /\ mark'.id = mark.id /\ mark'.new = mark.new
      /\ mark'.old = mark.old /\ DOMAIN mark' = DOMAIN mark
  BY DEF MarkFields
<1>2. mark.id \in Restore /\ mark.new \in Pair /\ mark.old \in Pair
  BY MarkFacts DEF Moved
<1>3. s # "intent" /\ s # "none"
  BY DEF Moved
<1> QED  BY <1>1, <1>2, <1>3, MarkerStateSet DEF WellFormed, MarkFields, NoMark

-----------------------------------------------------------------------------
LEMMA InitInv == Init => IndInv
<1> SUFFICES ASSUME Init PROVE IndInv
  OBVIOUS
<1> USE RestoreConstants
<1>1. canon \in Pair /\ canon \in whole /\ \A m \in Member : canon[m] = Base
  BY DEF Init, Pair, Content
<1>2. mark = NoMark /\ mark.state = "none" /\ WellFormed(mark) /\ MarkFields
  BY DEF Init, NoMark, WellFormed, MarkFields
<1>3. TypeOK
  <2>1. canon \in Files /\ roll \in Files /\ prep \in [Restore -> Files]
    BY DEF Init, Files, Content, NoFiles
  <2>2. pc \in States /\ step \in 1..Len(Plan) + 1
    BY PlanLength DEF Init, States
  <2>3. {mine, accepted, syncFaults, quiet} \subseteq BOOLEAN
    BY DEF Init
  <2>4. /\ safety \subseteq Restore /\ audit \subseteq Restore /\ used \subseteq Restore
        /\ resumed \subseteq Restore /\ logged \in [Restore -> Nat]
        /\ {fence, receipt, job, memFence, applied} \subseteq Restore \cup {None}
    BY DEF Init
  <2>5. whole \subseteq Pair
    BY <1>1 DEF Init
  <2> QED  BY <1>2, <2>1, <2>2, <2>3, <2>4, <2>5 DEF TypeOK
<1>4. StepInv /\ PlaceInv
  BY <1>2 DEF Init, StepInv, PlaceInv
<1>5. PairInv /\ PairsSurvive
  BY <1>1, <1>2 DEF Init, PairInv, PairsSurvive
<1>6. ReviewInv
  BY <1>1, <1>2 DEF Init, ReviewInv
<1>7. AuditInv
  BY <1>1, <1>2 DEF Init, AuditInv
<1> QED  BY <1>2, <1>3, <1>4, <1>5, <1>6, <1>7 DEF IndInv

-----------------------------------------------------------------------------
(* Steps of the process that leave the files alone.                        *)

Unmoved == Shutdown \/ Start \/ Dispatch \/ Locate \/ SwapFails \/ ReadSuppression \/ OpenStore
           \/ Serve \/ Validate \/ Refuse \/ Crash \/ Quieten

LEMMA ContinueFacts ==
    ASSUME Continue, pc = "swap", step \in 1..13
    PROVE  \/ step' = step + 1 /\ step < 13 /\ pc' = "swap"
           \/ step' = 14 /\ step = 13 /\ pc' = "finish"
           \/ syncFaults /\ pc' = "undo" /\ step' = 1
BY PlanLength DEF Continue

LEMMA UnmovedPlaces ==
    ASSUME IndInv, Unmoved
    PROVE  /\ UNCHANGED <<files, history, syncFaults>>
           /\ pc' \in States /\ step' \in 1..14
           /\ StepInv' /\ PlaceInv'
<1> USE DEF IndInv
<1>0. UNCHANGED <<files, history, syncFaults>>
  BY DEF Unmoved, Shutdown, Start, Dispatch, Locate, SwapFails, ReadSuppression, OpenStore,
         Serve, Validate, Refuse, Crash, Quieten, faults
<1>1. mark' = mark
  BY <1>0 DEF files
<1>2. WellFormed(mark) /\ step \in 1..14 /\ pc \in States
  BY PlanLength DEF TypeOK
<1>3. CASE Shutdown \/ Start \/ Locate \/ SwapFails \/ ReadSuppression \/ OpenStore \/ Serve
  <2>1. StepInv' /\ step' \in 1..14 /\ pc' \in States
    BY <1>2, <1>3 DEF StepInv, Shutdown, Start, Locate, SwapFails, ReadSuppression, OpenStore, Serve,
                Step, process, States, Startup
  <2>2. PlaceInv'
    BY <1>0, <1>1, <1>2, <1>3, MarkFacts
       DEF PlaceInv, Shutdown, Start, Locate, SwapFails, ReadSuppression, OpenStore, Serve, Step,
           process, NoMark
  <2> QED  BY <1>0, <2>1, <2>2
<1>4. CASE Dispatch
  <2>1. UNCHANGED <<step, accepted, job>> /\ pc = "pending" /\ step = 1
    BY <1>4 DEF Dispatch, process, StepInv
  <2>2. \/ mark = NoMark /\ pc' = "orphans"
        \/ mark.state = "intent" /\ pc' = "remove"
        \/ mark.state = "cleanup" /\ pc' = "finish"
        \/ mark.state \notin {"none", "intent", "cleanup"} /\ pc' = "locate"
    BY <1>2, <1>4, MarkFacts DEF Dispatch
  <2> QED  BY <1>0, <1>1, <2>1, <2>2 DEF StepInv, PlaceInv, States, Startup
<1>5. CASE Validate
  <2>1. UNCHANGED <<accepted, job>> /\ pc = "swap" /\ Continue /\ Plan[step][1] = "validate"
    BY <1>5 DEF Validate, At
  <2>2. step \in 1..13
    BY <2>1 DEF StepInv
  <2>3. step # 13
    <3>1. Plan[13][1] = "advance"
      BY PlanSteps
    <3> QED  BY <2>1, <3>1
  <2> QED  BY <1>0, <1>1, <2>1, <2>2, <2>3, ContinueFacts DEF StepInv, PlaceInv, States, Startup
<1>6. CASE Refuse \/ Crash
  <2>1. pc' = "down" /\ step' = 1 /\ accepted' = FALSE /\ job' = None
    BY <1>6 DEF Refuse, Crash, Down
  <2> QED  BY <1>0, <1>1, <2>1 DEF StepInv, PlaceInv, States
<1>7. CASE Quieten
  <2>1. UNCHANGED <<pc, step, accepted, job>>
    BY <1>7 DEF Quieten, process
  <2> QED  BY <1>0, <1>1, <1>2, <2>1 DEF StepInv, PlaceInv
<1> QED  BY <1>3, <1>4, <1>5, <1>6, <1>7 DEF Unmoved

LEMMA UnmovedPassage ==
    ASSUME IndInv, Unmoved
    PROVE  /\ pc' = "remove" => mark.state = "intent" \/ pc = "remove"
           /\ pc' = "undo" => step' = 1 \/ (pc = "undo" /\ UNCHANGED step)
           /\ pc' = "swap" => \/ step' = 1
                              \/ pc = "swap" /\ step \in 1..13
                                 /\ (step' = step \/ (step # 11 /\ step' = step + 1))
           /\ pc' \in {"open", "record"} =>
                 memFence' = fence \/ (pc \in {"open", "record"} /\ UNCHANGED memFence)
           /\ pc' \in {"serving", "closed"} =>
                 UNCHANGED memFence /\ \/ pc \in {"serving", "closed"}
                                       \/ pc = "record" /\ receipt = None
           /\ job' # None => UNCHANGED <<job, memFence>>
<1> USE DEF IndInv
<1>1. CASE Validate
  <2>1. /\ pc = "swap" /\ Continue /\ Plan[step][1] = "validate" /\ step \in 1..13
        /\ UNCHANGED <<job, memFence>>
    BY <1>1 DEF Validate, At, StepInv
  <2>2. step # 11
    <3>1. Plan[11][1] = "suppress"
      BY PlanSteps
    <3> QED  BY <2>1, <3>1
  <2> QED  BY <2>1, <2>2, ContinueFacts
<1>2. CASE Quieten
  BY <1>2 DEF Quieten, process, StepInv
<1>3. CASE Refuse \/ Crash
  BY <1>3 DEF Refuse, Crash, Down
<1>4. CASE Shutdown \/ Start \/ Dispatch \/ OpenStore \/ Serve
  <2>1. UNCHANGED <<job, memFence, step>>
    BY <1>4 DEF Shutdown, Start, Dispatch, OpenStore, Serve, process
  <2>2. /\ pc' \in {"closed", "pending", "orphans", "remove", "finish", "locate", "record", "serving"}
        /\ pc' = "remove" => mark.state = "intent"
        /\ pc' = "record" => pc = "open"
        /\ pc' = "closed" => pc = "serving"
        /\ pc' = "serving" => pc = "record" /\ receipt = None
    BY <1>4 DEF Shutdown, Start, Dispatch, OpenStore, Serve, Step, NothingToRecord
  <2> QED  BY <2>1, <2>2
<1>5. CASE Locate \/ SwapFails \/ ReadSuppression
  BY <1>5 DEF Locate, SwapFails, ReadSuppression, Step, process, StepInv, PlaceInv
<1> QED  BY <1>1, <1>2, <1>3, <1>4, <1>5 DEF Unmoved

LEMMA UnmovedStep ==
    ASSUME IndInv, Unmoved PROVE IndInv'
<1> USE DEF IndInv
<1>1. /\ UNCHANGED <<canon, roll, prep, mark, safety, fence, receipt, audit>>
      /\ UNCHANGED <<used, whole, resumed, logged, syncFaults>>
      /\ pc' \in States /\ step' \in 1..14 /\ StepInv' /\ PlaceInv'
  BY UnmovedPlaces DEF files, history
<1>2. /\ mine' \in {mine, FALSE} /\ accepted' \in {accepted, FALSE} /\ job' \in {job, None}
      /\ applied' \in {applied, None} /\ memFence' \in {memFence, None, fence}
      /\ quiet' \in BOOLEAN
  BY DEF TypeOK, Unmoved, Shutdown, Start, Dispatch, Locate, SwapFails, ReadSuppression, OpenStore,
         Serve, Validate, Refuse, Crash, Quieten, Down, process, faults
<1>3. TypeOK'
  <2>1. WellFormed(mark)'
    BY <1>1 DEF TypeOK, WellFormed
  <2>2. {fence, receipt, job, memFence, applied}' \subseteq Restore \cup {None}
    BY <1>1, <1>2 DEF TypeOK
  <2>3. {mine, accepted, syncFaults, quiet}' \subseteq BOOLEAN
    BY <1>1, <1>2 DEF TypeOK
  <2> QED  BY <1>1, <2>1, <2>2, <2>3, PlanLength DEF TypeOK
<1>4. MarkFields' /\ PairsSurvive'
  BY <1>1 DEF MarkFields, PairsSurvive
<1>6. PairInv'
  BY <1>1, <1>2, UnmovedPassage DEF PairInv
<1>7. ReviewInv'
  <2>1. ~ (pc' = "remove" /\ mark.state = "cleanup") \/ pc = "remove"
    BY UnmovedPassage
  <2>2. pc' = "swap" /\ step' > 11 => pc = "swap" /\ step > 11
    BY UnmovedPassage
  <2>3. job' # None => fence = None /\ memFence' = None
    BY UnmovedPassage DEF ReviewInv
  <2>4. pc' \in {"open", "record"} => memFence' = fence
    BY UnmovedPassage DEF ReviewInv
  <2>5. pc' \in {"serving", "closed"} => memFence' = fence \/ (fence = None /\ memFence' \in resumed)
    BY UnmovedPassage DEF ReviewInv
  <2> QED  BY <1>1, <2>1, <2>2, <2>3, <2>4, <2>5 DEF ReviewInv
<1>8. AuditInv'
  <2>1. pc' \in {"serving", "closed"} => receipt = None
    BY UnmovedPassage DEF AuditInv
  <2>2. ~ (pc' = "remove" /\ mark.state = "cleanup") \/ pc = "remove"
    BY UnmovedPassage
  <2> QED  BY <1>1, <1>2, <2>1, <2>2 DEF AuditInv, Inherited
<1> QED  BY <1>1, <1>3, <1>4, <1>6, <1>7, <1>8

-----------------------------------------------------------------------------
(* The running controller.                                                 *)

LEMMA NoneIsNoContent == None \notin Content
BY RestoreConstants DEF Content

LEMMA PairIsFiles == Pair \subseteq Files /\ NoFiles \in Files
BY DEF Pair, Files, NoFiles

\* While it serves, nothing has moved and nothing waits to be recorded.
LEMMA ServingFacts ==
    ASSUME IndInv, pc \in {"serving", "closed"}
    PROVE  /\ mark.state \in {"none", "intent"} /\ canon \in whole /\ canon \in Pair
           /\ receipt = None /\ step = 1
BY DEF IndInv, PlaceInv, PairInv, AuditInv, StepInv, TypeOK

LEMMA PrepareStep ==
    ASSUME IndInv, NEW r \in Restore, NEW same \in SUBSET Member, Prepare(r, same)
    PROVE  IndInv'
<1> DEFINE p == [m \in Member |-> IF m \in same THEN canon[m] ELSE r]
<1> USE DEF IndInv
<1>1. /\ UNCHANGED <<canon, roll, mark, safety, fence, receipt, audit, step, mine, accepted>>
      /\ UNCHANGED <<memFence, applied, syncFaults, quiet, resumed, logged>>
      /\ pc = "serving" /\ pc' = "serving" /\ memFence = None /\ r \notin used
      /\ used' = used \cup {r} /\ job' = r /\ job = None
      /\ prep' = [prep EXCEPT ![r] = p] /\ whole' = whole \cup {prep'[r]}
  BY DEF Prepare, Step, faults
<1>2. p \in Pair /\ p \in Files /\ \A m \in Member : p[m] \in {canon[m], r}
  BY ServingFacts, <1>1, PairIsFiles DEF Pair, Content
<1>3. prep' \in [Restore -> Files] /\ prep'[r] = p
  BY <1>1, <1>2 DEF TypeOK
<1> HIDE DEF p
<1>4. TypeOK'
  <2>1. WellFormed(mark)'
    BY <1>1 DEF TypeOK, WellFormed
  <2>2. {fence, receipt, job, memFence, applied}' \subseteq Restore \cup {None}
    BY <1>1 DEF TypeOK
  <2>3. whole' \subseteq Pair /\ used' \subseteq Restore
    BY <1>1, <1>2, <1>3 DEF TypeOK
  <2> QED  BY <1>1, <1>3, <2>1, <2>2, <2>3 DEF TypeOK
<1>5. MarkFields' /\ StepInv' /\ PlaceInv'
  BY <1>1 DEF MarkFields, StepInv, PlaceInv
<1>6. PairInv' /\ PairsSurvive'
  BY <1>1, ServingFacts DEF PairInv, PairsSurvive
<1>7. fence = None
  BY <1>1 DEF ReviewInv
<1>8. ReviewInv'
  BY <1>1, <1>7 DEF ReviewInv
<1>9. \A m \in Member : p[m] \in Restore /\ p[m] # r => p[m] \in resumed /\ logged[p[m]] = 1
  <2> SUFFICES ASSUME NEW m \in Member, p[m] \in Restore, p[m] # r
               PROVE  p[m] \in resumed /\ logged[p[m]] = 1
    OBVIOUS
  <2>1. p[m] = canon[m] /\ p[m] # None
    BY <1>2, RestoreConstants
  <2>2. canon[m] \notin Restore \ resumed
    BY <1>1, <1>7, <2>1, ServingFacts DEF ReviewInv
  <2>3. logged[canon[m]] = 1
    BY <1>1, <2>1, ServingFacts DEF AuditInv
  <2> QED  BY <2>1, <2>2, <2>3
<1>10. AuditInv'
  <2>1. logged[r] = 0 /\ r # None
    BY <1>1, RestoreConstants DEF AuditInv
  <2>2. mark # NoMark => Inherited(mark.new, mark.id)'
    BY <1>1 DEF AuditInv, Inherited
  <2>3. Inherited(prep[job], job)'
    BY <1>1, <1>3, <1>9 DEF Inherited
  <2> QED  BY <1>1, <2>1, <2>2, <2>3 DEF AuditInv
<1> QED  BY <1>4, <1>5, <1>6, <1>8, <1>10

LEMMA DiscardStep ==
    ASSUME IndInv, NEW cleaned \in BOOLEAN, DiscardPrepared(cleaned)
    PROVE  IndInv'
<1> USE DEF IndInv
<1>1. /\ UNCHANGED <<canon, roll, mark, safety, fence, receipt, audit, step, mine, accepted>>
      /\ UNCHANGED <<memFence, applied, syncFaults, quiet, used, whole, resumed, logged>>
      /\ pc = "serving" /\ pc' = "serving" /\ job' = None
  BY DEF DiscardPrepared, Step, faults, history
<1>2. prep' \in [Restore -> Files]
  BY PairIsFiles DEF DiscardPrepared, TypeOK
<1>3. TypeOK'
  <2>1. WellFormed(mark)'
    BY <1>1 DEF TypeOK, WellFormed
  <2> QED  BY <1>1, <1>2, <2>1 DEF TypeOK
<1>4. MarkFields' /\ StepInv' /\ PlaceInv'
  BY <1>1 DEF MarkFields, StepInv, PlaceInv
<1>5. PairInv' /\ PairsSurvive'
  BY <1>1, ServingFacts DEF PairInv, PairsSurvive
<1>6. ReviewInv' /\ AuditInv'
  BY <1>1 DEF ReviewInv, AuditInv, Inherited
<1> QED  BY <1>3, <1>4, <1>5, <1>6

LEMMA CreateIntentStep ==
    ASSUME IndInv, NEW retained \in BOOLEAN, CreateIntent(retained)
    PROVE  IndInv'
<1> USE DEF IndInv
<1>1. /\ UNCHANGED <<canon, roll, prep, safety, fence, receipt, audit, step, memFence, applied>>
      /\ UNCHANGED <<syncFaults, quiet, used, whole, resumed, logged>>
      /\ pc = "serving" /\ pc' = "serving" /\ job # None /\ job' = None
      /\ mine' = TRUE /\ accepted' = ~retained
      /\ mark' = [state |-> "intent", id |-> job, new |-> prep[job], old |-> NoFiles]
  BY DEF CreateIntent, Step, faults, history
<1>2. /\ mark'.state = "intent" /\ mark'.id = job /\ mark'.new = prep[job] /\ mark'.old = NoFiles
      /\ mark' # NoMark /\ MarkFields'
  BY <1>1 DEF NoMark, MarkFields
<1>3. job \in Restore /\ prep[job] \in whole /\ prep[job] \in Pair
  BY <1>1 DEF TypeOK, PairInv
<1>4. TypeOK'
  <2>1. WellFormed(mark)'
    BY <1>2, <1>3, MarkerStateSet DEF WellFormed
  <2>2. {fence, receipt, job, memFence, applied}' \subseteq Restore \cup {None}
    BY <1>1 DEF TypeOK
  <2>3. {mine, accepted, syncFaults, quiet}' \subseteq BOOLEAN
    BY <1>1 DEF TypeOK
  <2> QED  BY <1>1, <2>1, <2>2, <2>3 DEF TypeOK
<1>5. StepInv' /\ PlaceInv'
  BY <1>1, <1>2 DEF StepInv, PlaceInv
<1>6. PairInv' /\ PairsSurvive'
  BY <1>1, <1>2, <1>3, ServingFacts DEF PairInv, PairsSurvive
<1>7. ReviewInv'
  BY <1>1, <1>2, ServingFacts DEF ReviewInv
<1>8. AuditInv'
  <2>1. Inherited(mark.new, mark.id)'
    BY <1>1, <1>2 DEF AuditInv, Inherited
  <2> QED  BY <1>1, <1>2, <2>1, ServingFacts DEF AuditInv
<1> QED  BY <1>2, <1>4, <1>5, <1>6, <1>7, <1>8

LEMMA ExitStep ==
    ASSUME IndInv, Exit
    PROVE  IndInv'
<1> USE DEF IndInv
<1>1. /\ UNCHANGED <<canon, roll, prep, safety, fence, receipt, audit>>
      /\ UNCHANGED <<syncFaults, quiet, used, whole, resumed, logged>>
      /\ pc = "closed" /\ pc' = "down" /\ step' = 1 /\ mine' = FALSE /\ accepted' = FALSE
      /\ job' = None /\ memFence' = None /\ applied' = None
  BY DEF Exit, Down, faults, history
<1>2. \/ UNCHANGED mark
      \/ /\ mark.state = "intent" /\ prep[mark.id] = mark.new
         /\ mark' = [mark EXCEPT !.state = "ready", !.old = canon]
  BY DEF Exit, MarkCleanShutdown, Promotable
<1>3. StepInv' /\ PlaceInv'
  BY <1>1 DEF StepInv, PlaceInv
<1>4. CASE UNCHANGED mark
  <2>1. TypeOK'
    <3>1. WellFormed(mark)'
      BY <1>4 DEF TypeOK, WellFormed
    <3>2. {fence, receipt, job, memFence, applied}' \subseteq Restore \cup {None}
      BY <1>1 DEF TypeOK
    <3>3. {mine, accepted, syncFaults, quiet}' \subseteq BOOLEAN
      BY <1>1 DEF TypeOK
    <3> QED  BY <1>1, <3>1, <3>2, <3>3, PlanLength DEF TypeOK, States
  <2>2. MarkFields' /\ PairInv' /\ PairsSurvive' /\ ReviewInv'
    BY <1>1, <1>4 DEF MarkFields, PairInv, PairsSurvive, ReviewInv
  <2>3. AuditInv'
    BY <1>1, <1>4 DEF AuditInv, Inherited
  <2> QED  BY <1>3, <2>1, <2>2, <2>3
<1>5. CASE /\ mark.state = "intent" /\ prep[mark.id] = mark.new
           /\ mark' = [mark EXCEPT !.state = "ready", !.old = canon]
  <2>1. /\ mark'.state = "ready" /\ mark'.id = mark.id /\ mark'.new = mark.new
        /\ mark'.old = canon /\ MarkFields'
    BY <1>5 DEF MarkFields
  <2>2. mark # NoMark /\ mark' # NoMark
    <3>1. NoMark.state = "none"
      BY DEF NoMark
    <3> QED  BY <1>5, <2>1, <3>1
  <2>3. TypeOK'
    <3>1. mark.id \in Restore /\ mark.new \in Pair
      BY <2>2, MarkFacts DEF TypeOK
    <3>2. WellFormed(mark)'
      BY <1>1, <2>1, <3>1, ServingFacts, MarkerStateSet DEF WellFormed, Moved
    <3>3. {fence, receipt, job, memFence, applied}' \subseteq Restore \cup {None}
      BY <1>1 DEF TypeOK
    <3>4. {mine, accepted, syncFaults, quiet}' \subseteq BOOLEAN
      BY <1>1 DEF TypeOK
    <3> QED  BY <1>1, <3>2, <3>3, <3>4, PlanLength DEF TypeOK, States
  <2>4. PairInv' /\ PairsSurvive'
    BY <1>1, <1>5, <2>1, <2>2 DEF PairInv, PairsSurvive
  <2>5. ReviewInv'
    BY <1>1, <2>1, <2>2 DEF ReviewInv
  <2>6. AuditInv'
    <3>1. Inherited(mark.new, mark.id)'
      BY <1>1, <2>1, <2>2 DEF AuditInv, Inherited
    <3> QED  BY <1>1, <2>1, <2>2, <3>1 DEF AuditInv
  <2> QED  BY <1>3, <2>1, <2>3, <2>4, <2>5, <2>6
<1> QED  BY <1>2, <1>4, <1>5

LEMMA ResumeStep ==
    ASSUME IndInv, NEW failed \in BOOLEAN, ResumeRouterWrites(failed)
    PROVE  IndInv'
<1> USE DEF IndInv
<1>1. /\ UNCHANGED <<canon, roll, prep, mark, safety, receipt, audit, step, mine, accepted, job>>
      /\ UNCHANGED <<applied, syncFaults, quiet, used, whole, logged>>
      /\ pc = "serving" /\ pc' = "serving" /\ memFence # None /\ fence = memFence
      /\ resumed' = resumed \cup {memFence} /\ fence' = None /\ memFence' \in {memFence, None}
  BY DEF ResumeRouterWrites, Step, faults
<1>2. memFence \in Restore /\ job = None
  BY <1>1 DEF TypeOK, ReviewInv
<1>3. TypeOK'
  <2>1. WellFormed(mark)'
    BY <1>1 DEF TypeOK, WellFormed
  <2>2. {fence, receipt, job, memFence, applied}' \subseteq Restore \cup {None}
    BY <1>1, <1>2 DEF TypeOK
  <2> QED  BY <1>1, <1>2, <2>1, <2>2 DEF TypeOK
<1>4. MarkFields' /\ StepInv' /\ PlaceInv'
  BY <1>1 DEF MarkFields, StepInv, PlaceInv
<1>5. PairInv' /\ PairsSurvive'
  BY <1>1 DEF PairInv, PairsSurvive
<1>6. ReviewInv'
  BY <1>1, <1>2 DEF ReviewInv
<1>7. AuditInv'
  BY <1>1, <1>2 DEF AuditInv, Inherited
<1> QED  BY <1>3, <1>4, <1>5, <1>6, <1>7

LEMMA PruneStep ==
    ASSUME IndInv, NEW r \in Restore, PruneEvents(r)
    PROVE  IndInv'
<1> USE DEF IndInv
<1>1. /\ UNCHANGED <<canon, roll, prep, mark, safety, fence, receipt, step, mine, accepted, job>>
      /\ UNCHANGED <<memFence, applied, syncFaults, quiet, used, whole, resumed, logged>>
      /\ pc' = pc /\ audit' = audit \ {r} /\ r # receipt
  BY DEF PruneEvents, faults, process, history
<1>2. TypeOK'
  <2>1. WellFormed(mark)'
    BY <1>1 DEF TypeOK, WellFormed
  <2> QED  BY <1>1, <2>1 DEF TypeOK
<1>3. MarkFields' /\ StepInv' /\ PlaceInv'
  BY <1>1 DEF MarkFields, StepInv, PlaceInv
<1>4. PairInv' /\ PairsSurvive' /\ ReviewInv'
  BY <1>1 DEF PairInv, PairsSurvive, ReviewInv
<1>5. AuditInv'
  BY <1>1 DEF AuditInv, Inherited
<1> QED  BY <1>2, <1>3, <1>4, <1>5

-----------------------------------------------------------------------------
(* The safety artifact and the swap.                                       *)

\* A start knows no confirmation and no accepted restart.
LEMMA StartupFacts ==
    ASSUME IndInv, pc \in Startup
    PROVE  job = None /\ ~accepted
BY DEF IndInv, PlaceInv, Startup

\* A marker past its promotion names both pairs.
LEMMA MovedFacts ==
    ASSUME IndInv, mark.state \notin {"none", "intent"}
    PROVE  /\ mark.state \in Moved /\ mark # NoMark
           /\ mark.id \in Restore /\ mark.new \in Pair /\ mark.old \in Pair
           /\ mark.id # None
BY MarkFacts, RestoreConstants DEF IndInv, TypeOK

LEMMA CreateSafetyStep ==
    ASSUME IndInv, CreateSafety PROVE IndInv'
<1> USE DEF IndInv
<1>1. /\ UNCHANGED <<canon, roll, prep, mark, fence, receipt, audit, step, mine, accepted, job>>
      /\ UNCHANGED <<memFence, applied, syncFaults, quiet, used, whole, resumed, logged>>
      /\ pc = "safety" /\ pc' = "safety" /\ safety' = safety \cup {mark.id}
  BY DEF CreateSafety, Step, faults, process, history
<1>2. TypeOK'
  <2>1. mark.id \in Restore
    BY <1>1, MovedFacts DEF PlaceInv
  <2>2. WellFormed(mark)'
    BY <1>1 DEF TypeOK, WellFormed
  <2> QED  BY <1>1, <2>1, <2>2 DEF TypeOK
<1>3. MarkFields' /\ StepInv' /\ PlaceInv'
  BY <1>1 DEF MarkFields, StepInv, PlaceInv
<1>4. PairInv' /\ PairsSurvive' /\ ReviewInv'
  BY <1>1 DEF PairInv, PairsSurvive, ReviewInv
<1>5. AuditInv'
  BY <1>1 DEF AuditInv, Inherited
<1> QED  BY <1>2, <1>3, <1>4, <1>5

LEMMA RecordSafetyStep ==
    ASSUME IndInv, RecordSafety PROVE IndInv'
<1> USE DEF IndInv
<1>1. /\ UNCHANGED <<canon, roll, prep, safety, fence, receipt, audit, step, mine, accepted, job>>
      /\ UNCHANGED <<memFence, applied, syncFaults, quiet, used, whole, resumed, logged>>
      /\ pc = "safety" /\ pc' = "swap" /\ mark.id \in safety
      /\ mark' = [mark EXCEPT !.state = "safety"]
  BY DEF RecordSafety, Step, faults, process, history
<1>2. mark.state = "ready" /\ step = 1 /\ mark # NoMark
  BY <1>1, MovedFacts DEF PlaceInv, StepInv
<1>3. /\ WellFormed(mark)' /\ MarkFields' /\ mark' # NoMark
      /\ mark'.state = "safety" /\ mark'.id = mark.id /\ mark'.new = mark.new
      /\ mark'.old = mark.old
  BY <1>1, <1>2, MarkMoves DEF TypeOK, Moved
<1>4. TypeOK'
  BY <1>1, <1>3 DEF TypeOK, States, Startup
<1>5. StepInv' /\ PlaceInv'
  BY <1>1, <1>2, <1>3 DEF StepInv, PlaceInv
<1>6. PairInv' /\ PairsSurvive'
  BY <1>1, <1>2, <1>3 DEF PairInv, PairsSurvive
<1>7. ReviewInv'
  BY <1>1, <1>2, <1>3 DEF ReviewInv
<1>8. AuditInv'
  BY <1>1, <1>2, <1>3 DEF AuditInv, Inherited, PlaceInv
<1> QED  BY <1>3, <1>4, <1>5, <1>6, <1>7, <1>8

\* What a step of the plan may assume of its marker.
LEMMA SwapFacts ==
    ASSUME IndInv, pc = "swap"
    PROVE  /\ step \in 1..13 /\ job = None /\ ~accepted
           /\ mark.state \in Moved \ {"ready", "cleanup"}
           /\ mark # NoMark /\ mark.id \in Restore /\ mark.id # None
           /\ mark.new \in Pair /\ mark.old \in Pair
           /\ mark.id \in safety
           /\ \A m \in Member : mark.old[m] \in {canon[m], roll[m]}
           /\ \A m \in Member : mark.new[m] \in {canon[m], prep[mark.id][m]}
<1>1. mark.state \notin {"none", "intent", "ready", "cleanup"} /\ step \in 1..13
  BY DEF IndInv, PlaceInv, StepInv
<1>2. job = None /\ ~accepted
  BY StartupFacts DEF Startup
<1>3. mark.id \in safety
  BY <1>1 DEF IndInv, PairInv
<1> QED  BY <1>1, <1>2, <1>3, MovedFacts DEF IndInv, PairsSurvive

\* A step of the plan that moves files or writes the fence.
LEMMA SwapFrame ==
    ASSUME IndInv, pc = "swap", Continue, step # 13,
           UNCHANGED <<mark, safety, receipt, audit, mine, accepted, job, memFence, applied>>,
           UNCHANGED <<syncFaults, quiet, used, whole, resumed, logged>>,
           canon' \in Files, roll' \in Files, prep' \in [Restore -> Files],
           \A m \in Member : mark.old[m] \in {canon'[m], roll'[m]},
           \A m \in Member : mark.new[m] \in {canon'[m], prep'[mark.id][m]},
           fence' \in {fence, mark.id}, step = 11 => fence' = mark.id
    PROVE  IndInv'
<1> USE DEF IndInv
<1>1. /\ step' \in 1..13 /\ pc' \in {"swap", "undo"} /\ (pc' = "undo" => step' = 1 /\ syncFaults)
      /\ pc' = "swap" => step' = step + 1
  BY SwapFacts, ContinueFacts
<1>2. TypeOK'
  <2>1. WellFormed(mark)'
    BY DEF TypeOK, WellFormed
  <2>2. {fence, receipt, job, memFence, applied}' \subseteq Restore \cup {None}
    BY SwapFacts DEF TypeOK
  <2> QED  BY <1>1, <2>1, <2>2, PlanLength DEF TypeOK, States, Startup
<1>3. MarkFields' /\ StepInv' /\ PlaceInv'
  BY <1>1, SwapFacts DEF MarkFields, StepInv, PlaceInv, Moved
<1>4. mark.state \notin {"none", "intent", "ready", "cleanup"} /\ mark # NoMark
  BY SwapFacts DEF Moved
<1>5. PairInv' /\ PairsSurvive'
  BY <1>1, <1>4, SwapFacts DEF PairInv, PairsSurvive
<1>6. ReviewInv'
  BY <1>1, <1>4, SwapFacts DEF ReviewInv
<1>7. AuditInv'
  BY <1>1, <1>4, SwapFacts DEF AuditInv, Inherited
<1> QED  BY <1>2, <1>3, <1>5, <1>6, <1>7

\* One file is renamed to its place or away from it.
LEMMA PutFile ==
    ASSUME NEW f \in Files, NEW m \in Member, NEW c \in Content \cup {None}
    PROVE  [f EXCEPT ![m] = c] \in Files
BY DEF Files

LEMMA PutPrepared ==
    ASSUME NEW p \in [Restore -> Files], NEW r \in Restore, NEW m \in Member,
           NEW c \in Content \cup {None}
    PROVE  /\ [p EXCEPT ![r][m] = c] \in [Restore -> Files]
           /\ [p EXCEPT ![r][m] = c][r] = [p[r] EXCEPT ![m] = c]
<1>1. [p[r] EXCEPT ![m] = c] \in Files
  BY PutFile
<1>2. [p EXCEPT ![r][m] = c] = [p EXCEPT ![r] = [p[r] EXCEPT ![m] = c]]
  OBVIOUS
<1> QED  BY <1>1, <1>2

LEMMA PairMember ==
    ASSUME NEW p \in Pair, NEW m \in Member
    PROVE  p[m] \in Content /\ p[m] # None /\ p[m] \in Content \cup {None}
BY NoneIsNoContent DEF Pair

\* Park and publish are no marker writes.
LEMMA MovingSteps ==
    ASSUME NEW s \in 1..13, Plan[s][1] \in {"park", "publish"}
    PROVE  s # 11 /\ s # 13 /\ Plan[s][2] \in Member
BY PlanSteps

LEMMA ParkStep ==
    ASSUME IndInv, Park PROVE IndInv'
<1> USE DEF IndInv
<1>1. PICK m : m = Plan[step][2]
  OBVIOUS
<1>2. pc = "swap" /\ Plan[step][1] = "park"
  BY DEF Park, At
<1>3. m \in Member /\ step # 11 /\ step # 13
  BY <1>1, <1>2, MovingSteps, SwapFacts
<1>4. /\ UNCHANGED <<prep, mark, safety, fence, receipt, audit, mine, accepted, job, memFence>>
      /\ UNCHANGED <<applied, syncFaults, quiet, used, whole, resumed, logged>>
      /\ Continue
  BY DEF Park, faults, history
<1>5. \/ UNCHANGED <<canon, roll>>
      \/ /\ mark.new[m] # mark.old[m] /\ canon[m] = mark.old[m]
         /\ canon' = [canon EXCEPT ![m] = None]
         /\ roll' = [roll EXCEPT ![m] = mark.old[m]]
  BY <1>1 DEF Park, Unchanging
<1>6. canon' \in Files /\ roll' \in Files
  <2>1. mark.old[m] \in Content \cup {None} /\ None \in Content \cup {None}
    BY <1>2, <1>3, SwapFacts, PairMember
  <2>2. canon \in Files /\ roll \in Files
    BY DEF TypeOK
  <2>3. [canon EXCEPT ![m] = None] \in Files /\ [roll EXCEPT ![m] = mark.old[m]] \in Files
    BY <1>3, <2>1, <2>2, PutFile, Zenon
  <2> QED  BY <1>5, <2>2, <2>3, Zenon
<1>7. \A n \in Member : mark.old[n] \in {canon'[n], roll'[n]}
  BY <1>2, <1>3, <1>5, SwapFacts DEF TypeOK, Files
<1>8. \A n \in Member : mark.new[n] \in {canon'[n], prep'[mark.id][n]}
  BY <1>2, <1>3, <1>4, <1>5, SwapFacts DEF TypeOK, Files
<1> QED  BY <1>2, <1>3, <1>4, <1>6, <1>7, <1>8, SwapFrame DEF TypeOK

LEMMA PublishStep ==
    ASSUME IndInv, Publish PROVE IndInv'
<1> USE DEF IndInv
<1>1. PICK m : m = Plan[step][2]
  OBVIOUS
<1>2. pc = "swap" /\ Plan[step][1] = "publish"
  BY DEF Publish, At
<1>3. m \in Member /\ step # 11 /\ step # 13
  BY <1>1, <1>2, MovingSteps, SwapFacts
<1>4. /\ UNCHANGED <<roll, mark, safety, fence, receipt, audit, mine, accepted, job, memFence>>
      /\ UNCHANGED <<applied, syncFaults, quiet, used, whole, resumed, logged>>
      /\ Continue
  BY DEF Publish, faults, history
<1>5. PICK id : id = mark.id
  OBVIOUS
<1>6. \/ UNCHANGED <<canon, prep>>
      \/ /\ canon[m] = None
         /\ canon' = [canon EXCEPT ![m] = mark.new[m]]
         /\ prep' = [prep EXCEPT ![id][m] = None]
  BY <1>1, <1>5 DEF Publish
<1>7. canon' \in Files /\ prep' \in [Restore -> Files]
  <2>1. /\ mark.new[m] \in Content \cup {None} /\ None \in Content \cup {None}
        /\ id \in Restore
    BY <1>2, <1>3, <1>5, SwapFacts, PairMember
  <2>2. canon \in Files /\ prep \in [Restore -> Files]
    BY DEF TypeOK
  <2>3. [canon EXCEPT ![m] = mark.new[m]] \in Files
    BY <1>3, <2>1, <2>2, PutFile, Zenon
  <2>4. [prep EXCEPT ![id][m] = None] \in [Restore -> Files]
    BY <1>3, <2>1, <2>2, PutPrepared, Zenon
  <2> QED  BY <1>6, <2>2, <2>3, <2>4, Zenon
<1>8. \A n \in Member : mark.old[n] \in {canon'[n], roll'[n]}
  BY <1>2, <1>3, <1>4, <1>6, SwapFacts, NoneIsNoContent DEF TypeOK, Files, Pair
<1>9. \A n \in Member : mark.new[n] \in {canon'[n], prep'[mark.id][n]}
  BY <1>2, <1>3, <1>4, <1>5, <1>6, SwapFacts DEF TypeOK, Files
<1> QED  BY <1>2, <1>3, <1>4, <1>7, <1>8, <1>9, SwapFrame DEF TypeOK

LEMMA SuppressStep ==
    ASSUME IndInv, Suppress PROVE IndInv'
<1> USE DEF IndInv
<1>1. /\ UNCHANGED <<canon, roll, prep, mark, safety, receipt, audit, mine, accepted, job, memFence>>
      /\ UNCHANGED <<applied, syncFaults, quiet, used, whole, resumed, logged>>
      /\ pc = "swap" /\ Plan[step][1] = "suppress" /\ fence' = mark.id /\ Continue
  BY DEF Suppress, At, faults, history
<1>2. step = 11
  BY <1>1, SwapFacts, PlanSteps
<1> QED  BY <1>1, <1>2, SwapFacts, SwapFrame DEF TypeOK

LEMMA AdvanceStep ==
    ASSUME IndInv, Advance PROVE IndInv'
<1> USE DEF IndInv
<1>1. PICK s : s = Plan[step][2]
  OBVIOUS
<1>2. /\ UNCHANGED <<canon, roll, prep, safety, fence, receipt, audit, mine, accepted, job, memFence>>
      /\ UNCHANGED <<applied, syncFaults, quiet, used, whole, resumed, logged>>
      /\ pc = "swap" /\ Plan[step][1] = "advance" /\ Continue
      /\ mark' = IF Rank(mark.state) >= Rank(s) THEN mark ELSE [mark EXCEPT !.state = s]
  BY <1>1 DEF Advance, At, faults, history
<1>3. s \in Moved \ {"ready", "safety"} /\ (s = "cleanup" <=> step = 13) /\ step # 11
  BY <1>1, <1>2, SwapFacts, PlanSteps
<1>4. /\ WellFormed(mark)' /\ MarkFields' /\ mark' # NoMark
      /\ mark'.state \in Moved \ {"ready"} /\ mark'.id = mark.id /\ mark'.new = mark.new
      /\ mark'.old = mark.old /\ (mark'.state = "cleanup" <=> step = 13)
  <2>1. CASE s = "cleanup"
    <3>1. ~ (Rank(mark.state) >= Rank(s))
      BY <1>2, <2>1, SwapFacts, CleanupIsLast
    <3> QED  BY <1>2, <1>3, <2>1, <3>1, MarkMoves, SwapFacts DEF TypeOK
  <2>2. CASE s # "cleanup" /\ Rank(mark.state) >= Rank(s)
    <3>1. mark' = mark
      BY <1>2, <2>2
    <3>2. WellFormed(mark)' /\ MarkFields'
      BY <3>1 DEF TypeOK, WellFormed, MarkFields
    <3> QED  BY <1>2, <1>3, <2>2, <3>1, <3>2, SwapFacts
  <2>3. CASE s # "cleanup" /\ ~(Rank(mark.state) >= Rank(s))
    BY <1>2, <1>3, <2>3, MarkMoves, SwapFacts DEF TypeOK
  <2> QED  BY <2>1, <2>2, <2>3
<1>5. /\ step' \in 1..14 /\ pc' \in {"swap", "undo", "finish"}
      /\ pc' = "undo" => step' = 1 /\ syncFaults
      /\ pc' = "swap" => step' = step + 1 /\ step # 13 /\ step' \in 1..13
      /\ pc' = "finish" => step = 13
  BY <1>2, SwapFacts, ContinueFacts
<1>6. TypeOK'
  BY <1>2, <1>4, <1>5, PlanLength DEF TypeOK, States, Startup
<1>7. StepInv' /\ PlaceInv'
  BY <1>2, <1>4, <1>5, SwapFacts DEF StepInv, PlaceInv, Moved
<1>8. mark'.state \notin {"none", "intent", "ready"}
  BY <1>4 DEF Moved
<1>9. PairInv' /\ PairsSurvive'
  BY <1>2, <1>4, <1>5, <1>8, SwapFacts DEF PairInv, PairsSurvive
<1>10. ReviewInv'
  BY <1>2, <1>3, <1>4, <1>5, <1>8, SwapFacts DEF ReviewInv
<1>11. AuditInv'
  BY <1>2, <1>4, <1>5, <1>8, SwapFacts DEF AuditInv, Inherited
<1> QED  BY <1>4, <1>6, <1>7, <1>9, <1>10, <1>11

-----------------------------------------------------------------------------
(* The way back.                                                           *)

LEMMA InOrderMember == InOrder[1] \in Member /\ InOrder[2] \in Member
BY DEF InOrder, Member

\* What restoreOld finds.
LEMMA UndoFacts ==
    ASSUME IndInv, pc = "undo"
    PROVE  /\ step \in 1..4 /\ job = None /\ ~accepted
           /\ mark.state \in Moved \ {"ready"}
           /\ mark # NoMark /\ mark.id \in Restore /\ mark.id # None
           /\ mark.new \in Pair /\ mark.old \in Pair
           /\ mark.id \in safety
           /\ mark.state # "cleanup" => \A m \in Member : mark.old[m] \in {canon[m], roll[m]}
           /\ \A m \in Member : mark.new[m] \in {canon[m], prep[mark.id][m]}
<1>1. mark.state \notin {"none", "intent", "ready"} /\ step \in 1..4
  BY DEF IndInv, PlaceInv, StepInv
<1>2. job = None /\ ~accepted
  BY StartupFacts DEF Startup
<1>3. mark.id \in safety
  BY <1>1 DEF IndInv, PairInv
<1> QED  BY <1>1, <1>2, <1>3, MovedFacts DEF IndInv, PairsSurvive

\* restoreOld moves files only.
LEMMA UndoFrame ==
    ASSUME IndInv, pc = "undo", pc' = "undo", step' \in 1..3,
           UNCHANGED <<mark, safety, fence, receipt, audit, mine, accepted, job, memFence, applied>>,
           UNCHANGED <<syncFaults, quiet, used, whole, resumed, logged>>,
           canon' \in Files, roll' \in Files, prep' \in [Restore -> Files],
           mark.state # "cleanup" => \A m \in Member : mark.old[m] \in {canon'[m], roll'[m]},
           \A m \in Member : mark.new[m] \in {canon'[m], prep'[mark.id][m]}
    PROVE  IndInv'
<1> USE DEF IndInv
<1>1. TypeOK'
  <2>1. WellFormed(mark)'
    BY DEF TypeOK, WellFormed
  <2>2. {fence, receipt, job, memFence, applied}' \subseteq Restore \cup {None}
    BY DEF TypeOK
  <2> QED  BY <2>1, <2>2, PlanLength DEF TypeOK, States, Startup
<1>2. MarkFields' /\ StepInv' /\ PlaceInv'
  BY DEF MarkFields, StepInv, PlaceInv
<1>3. mark.state \notin {"none", "intent", "ready"} /\ mark # NoMark
  BY UndoFacts DEF Moved
<1>4. PairInv' /\ PairsSurvive'
  BY <1>3, UndoFacts DEF PairInv, PairsSurvive
<1>5. ReviewInv'
  BY <1>3, UndoFacts DEF ReviewInv
<1>6. AuditInv'
  BY <1>3, UndoFacts DEF AuditInv, Inherited
<1> QED  BY <1>1, <1>2, <1>4, <1>5, <1>6

LEMMA UnpublishStep ==
    ASSUME IndInv, Unpublish PROVE IndInv'
<1> USE DEF IndInv
<1>1. PICK m : m = InOrder[step]
  OBVIOUS
<1>2. PICK id : id = mark.id
  OBVIOUS
<1>3. /\ UNCHANGED <<roll, mark, safety, fence, receipt, audit, step, mine, accepted, job, memFence>>
      /\ UNCHANGED <<applied, syncFaults, quiet, used, whole, resumed, logged>>
      /\ pc = "undo" /\ pc' = "undo" /\ step <= 2
      /\ canon[m] = mark.new[m] /\ canon[m] # mark.old[m]
      /\ prep' = [prep EXCEPT ![id][m] = mark.new[m]]
      /\ canon' = [canon EXCEPT ![m] = None]
  BY <1>1, <1>2 DEF Unpublish, Step, process, faults, history
<1>4. step \in {1, 2} /\ m \in Member /\ id \in Restore
  BY <1>1, <1>2, <1>3, UndoFacts, InOrderMember
<1>5. canon \in Files /\ prep \in [Restore -> Files] /\ roll' \in Files
  BY <1>3 DEF TypeOK
<1>6. /\ canon' \in Files /\ prep' \in [Restore -> Files]
      /\ prep'[id] = [prep[id] EXCEPT ![m] = mark.new[m]]
  <2>1. mark.new[m] \in Content \cup {None} /\ None \in Content \cup {None}
    BY <1>3, <1>4, UndoFacts, PairMember
  <2>2. [canon EXCEPT ![m] = None] \in Files
    BY <1>4, <1>5, <2>1, PutFile, Zenon
  <2>3. /\ [prep EXCEPT ![id][m] = mark.new[m]] \in [Restore -> Files]
        /\ [prep EXCEPT ![id][m] = mark.new[m]][id] = [prep[id] EXCEPT ![m] = mark.new[m]]
    BY <1>4, <1>5, <2>1, PutPrepared, Zenon
  <2> QED  BY <1>3, <2>2, <2>3
<1>7. prep[id] \in Files
  BY <1>4, <1>5
<1>8. mark.state # "cleanup" => \A n \in Member : mark.old[n] \in {canon'[n], roll'[n]}
  BY <1>3, <1>4, <1>5, UndoFacts DEF Files
<1>9. \A n \in Member : mark.new[n] \in {canon'[n], prep'[mark.id][n]}
  BY <1>2, <1>3, <1>4, <1>5, <1>6, <1>7, UndoFacts DEF Files
<1> QED  BY <1>3, <1>4, <1>5, <1>6, <1>8, <1>9, UndoFrame

LEMMA UnparkStep ==
    ASSUME IndInv, Unpark PROVE IndInv'
<1> USE DEF IndInv
<1>1. PICK m : m = InOrder[step]
  OBVIOUS
<1>2. /\ UNCHANGED <<prep, mark, safety, fence, receipt, audit, mine, accepted, job, memFence>>
      /\ UNCHANGED <<applied, syncFaults, quiet, used, whole, resumed, logged>>
      /\ pc = "undo" /\ pc' = "undo" /\ step <= 2 /\ step' = step + 1
      /\ \/ UNCHANGED <<canon, roll>>
         \/ /\ canon[m] = None
            /\ canon' = [canon EXCEPT ![m] = mark.old[m]]
            /\ roll' = [roll EXCEPT ![m] = None]
  BY <1>1 DEF Unpark, Step, faults, history
<1>3. step \in {1, 2} /\ m \in Member /\ step' \in 1..3
  BY <1>1, <1>2, UndoFacts, InOrderMember
<1>4. canon \in Files /\ roll \in Files /\ prep' \in [Restore -> Files]
  BY <1>2 DEF TypeOK
<1>5. mark.old[m] \in Content \cup {None} /\ None \in Content \cup {None} /\ mark.new[m] # None
  BY <1>2, <1>3, UndoFacts, PairMember
<1>6. canon' \in Files /\ roll' \in Files
  <2>1. [canon EXCEPT ![m] = mark.old[m]] \in Files /\ [roll EXCEPT ![m] = None] \in Files
    BY <1>3, <1>4, <1>5, PutFile, Zenon
  <2> QED  BY <1>2, <1>4, <2>1, Zenon
<1>7. mark.state # "cleanup" => \A n \in Member : mark.old[n] \in {canon'[n], roll'[n]}
  BY <1>2, <1>3, <1>4, UndoFacts DEF Files
<1>8. \A n \in Member : mark.new[n] \in {canon'[n], prep'[mark.id][n]}
  BY <1>2, <1>3, <1>4, <1>5, UndoFacts DEF Files
<1> QED  BY <1>2, <1>3, <1>4, <1>6, <1>7, <1>8, UndoFrame

LEMMA UndoMarkerStep ==
    ASSUME IndInv, UndoMarker PROVE IndInv'
<1> USE DEF IndInv
<1>1. /\ UNCHANGED <<canon, roll, prep, safety, fence, receipt, audit, mine, accepted, job>>
      /\ UNCHANGED <<memFence, applied, syncFaults, quiet, used, whole, resumed, logged>>
      /\ pc = "undo" /\ pc' = "undo" /\ step' = 4 /\ canon = mark.old
      /\ mark' = [mark EXCEPT !.state = "safety"]
  BY DEF UndoMarker, Step, faults, process, history
<1>2. /\ WellFormed(mark)' /\ MarkFields' /\ mark' # NoMark
      /\ mark'.state = "safety" /\ mark'.id = mark.id /\ mark'.new = mark.new
      /\ mark'.old = mark.old
  BY <1>1, UndoFacts, MarkMoves DEF TypeOK, Moved
<1>3. TypeOK'
  BY <1>1, <1>2, PlanLength DEF TypeOK, States, Startup
<1>4. StepInv' /\ PlaceInv'
  BY <1>1, <1>2, UndoFacts DEF StepInv, PlaceInv
<1>5. PairInv' /\ PairsSurvive'
  BY <1>1, <1>2, UndoFacts DEF PairInv, PairsSurvive
<1>6. ReviewInv'
  BY <1>1, <1>2, UndoFacts DEF ReviewInv
<1>7. AuditInv'
  BY <1>1, <1>2, UndoFacts DEF AuditInv, Inherited
<1> QED  BY <1>2, <1>3, <1>4, <1>5, <1>6, <1>7

LEMMA UndoDoneStep ==
    ASSUME IndInv, UndoDone PROVE IndInv'
<1> USE DEF IndInv
<1>1. /\ UNCHANGED <<canon, prep, mark, safety, fence, receipt, audit>>
      /\ UNCHANGED <<syncFaults, quiet, used, whole, resumed, logged>>
      /\ pc = "undo" /\ step = 4 /\ roll' = NoFiles
      /\ pc' = "down" /\ step' = 1 /\ mine' = FALSE /\ accepted' = FALSE
      /\ job' = None /\ memFence' = None /\ applied' = None
  BY DEF UndoDone, Down, faults, history
<1>2. canon = mark.old
  BY <1>1 DEF PairInv
<1>3. TypeOK'
  <2>1. WellFormed(mark)'
    BY <1>1 DEF TypeOK, WellFormed
  <2>2. {fence, receipt, job, memFence, applied}' \subseteq Restore \cup {None}
    BY <1>1 DEF TypeOK
  <2>3. {mine, accepted, syncFaults, quiet}' \subseteq BOOLEAN
    BY <1>1 DEF TypeOK
  <2> QED  BY <1>1, <2>1, <2>2, <2>3, PlanLength, PairIsFiles DEF TypeOK, States
<1>4. MarkFields' /\ StepInv' /\ PlaceInv'
  BY <1>1 DEF MarkFields, StepInv, PlaceInv
<1>5. PairInv' /\ PairsSurvive'
  BY <1>1, <1>2 DEF PairInv, PairsSurvive
<1>6. ReviewInv' /\ AuditInv'
  BY <1>1 DEF ReviewInv, AuditInv, Inherited
<1> QED  BY <1>3, <1>4, <1>5, <1>6

-----------------------------------------------------------------------------
(* Cleanup.                                                                *)

LEMMA FinishStep ==
    ASSUME IndInv, Finish PROVE IndInv'
<1> USE DEF IndInv
<1>1. /\ UNCHANGED <<canon, roll, prep, mark, safety, fence, audit, mine, accepted, job, memFence>>
      /\ UNCHANGED <<applied, syncFaults, quiet, used, whole, resumed, logged>>
      /\ pc = "finish" /\ pc' = "remove" /\ step' = 1 /\ receipt' = mark.id
      /\ canon = mark.new /\ fence = mark.id
  BY DEF Finish, Finishable, Step, faults, history
<1>2. mark.state = "cleanup" /\ mark.id \in Restore /\ mark # NoMark /\ job = None
  BY <1>1, MovedFacts, StartupFacts DEF PlaceInv, Startup
<1>3. TypeOK'
  <2>1. WellFormed(mark)'
    BY <1>1 DEF TypeOK, WellFormed
  <2>2. {fence, receipt, job, memFence, applied}' \subseteq Restore \cup {None}
    BY <1>1, <1>2 DEF TypeOK
  <2> QED  BY <1>1, <2>1, <2>2, PlanLength DEF TypeOK, States, Startup
<1>4. MarkFields' /\ StepInv' /\ PlaceInv'
  BY <1>1, <1>2 DEF MarkFields, StepInv, PlaceInv
<1>5. PairInv' /\ PairsSurvive'
  BY <1>1, <1>2 DEF PairInv, PairsSurvive
<1>6. ReviewInv' /\ AuditInv'
  BY <1>1, <1>2 DEF ReviewInv, AuditInv, Inherited
<1> QED  BY <1>3, <1>4, <1>5, <1>6

\* Old and prepared files go once the new pair is in place.
LEMMA RemoveFrame ==
    ASSUME IndInv, pc = "remove", pc' = "remove", step' \in 1..5,
           UNCHANGED <<canon, mark, safety, fence, receipt, audit, mine, accepted, job, memFence>>,
           UNCHANGED <<applied, syncFaults, quiet, used, whole, resumed, logged>>,
           roll' \in Files, prep' \in [Restore -> Files]
    PROVE  IndInv'
<1> USE DEF IndInv
<1>1. mark.state \in {"intent", "cleanup"} /\ job = None
  BY StartupFacts DEF PlaceInv, Startup
<1>2. TypeOK'
  <2>1. WellFormed(mark)'
    BY DEF TypeOK, WellFormed
  <2> QED  BY <2>1, PlanLength DEF TypeOK, States, Startup
<1>3. MarkFields' /\ StepInv' /\ PlaceInv'
  BY DEF MarkFields, StepInv, PlaceInv
<1>4. PairInv' /\ PairsSurvive'
  BY <1>1 DEF PairInv, PairsSurvive
<1>5. ReviewInv' /\ AuditInv'
  BY <1>1 DEF ReviewInv, AuditInv, Inherited
<1> QED  BY <1>2, <1>3, <1>4, <1>5

LEMMA RemoveRollbackStep ==
    ASSUME IndInv, RemoveRollback PROVE IndInv'
<1> USE DEF IndInv
<1>1. PICK m : m = InOrder[step]
  OBVIOUS
<1>2. /\ UNCHANGED <<canon, prep, mark, safety, fence, receipt, audit, mine, accepted, job>>
      /\ UNCHANGED <<memFence, applied, syncFaults, quiet, used, whole, resumed, logged>>
      /\ pc = "remove" /\ pc' = "remove" /\ step <= 2 /\ step' = step + 1
      /\ roll' = [roll EXCEPT ![m] = None] \/ roll' = roll
  BY <1>1 DEF RemoveRollback, Step, faults, history
<1>3. step \in {1, 2} /\ m \in Member /\ step' \in 1..5
  BY <1>1, <1>2, InOrderMember DEF StepInv
<1>4. roll \in Files /\ prep' \in [Restore -> Files] /\ None \in Content \cup {None}
  BY <1>2 DEF TypeOK
<1>5. [roll EXCEPT ![m] = None] \in Files
  BY <1>3, <1>4, PutFile, Zenon
<1> QED  BY <1>2, <1>3, <1>4, <1>5, RemoveFrame

LEMMA RemovePreparedStep ==
    ASSUME IndInv, RemovePrepared PROVE IndInv'
<1> USE DEF IndInv
<1>1. PICK m : m = InOrder[step - 2]
  OBVIOUS
<1>2. PICK id : id = mark.id
  OBVIOUS
<1>3. /\ UNCHANGED <<canon, roll, mark, safety, fence, receipt, audit, mine, accepted, job>>
      /\ UNCHANGED <<memFence, applied, syncFaults, quiet, used, whole, resumed, logged>>
      /\ pc = "remove" /\ pc' = "remove" /\ step \in {3, 4} /\ step' = step + 1
      /\ prep' = [prep EXCEPT ![id][m] = None]
  BY <1>1, <1>2 DEF RemovePrepared, Step, faults, history
<1>4. m \in Member /\ step' \in 1..5
  BY <1>1, <1>3, InOrderMember
<1>5. roll' \in Files /\ prep \in [Restore -> Files] /\ None \in Content \cup {None}
  BY <1>3 DEF TypeOK
<1>6. id \in Restore
  <2>1. mark # NoMark
    BY <1>3 DEF PlaceInv, NoMark
  <2> QED  BY <1>2, <2>1, MarkFacts DEF TypeOK
<1>7. [prep EXCEPT ![id][m] = None] \in [Restore -> Files]
  BY <1>4, <1>5, <1>6, PutPrepared, Zenon
<1> QED  BY <1>3, <1>4, <1>5, <1>7, RemoveFrame

LEMMA RemoveMarkerStep ==
    ASSUME IndInv, RemoveMarker PROVE IndInv'
<1> USE DEF IndInv
<1>1. /\ UNCHANGED <<canon, roll, prep, safety, fence, receipt, audit, mine, accepted, job, memFence>>
      /\ UNCHANGED <<syncFaults, quiet, used, whole, resumed, logged>>
      /\ pc = "remove" /\ pc' = "orphans" /\ step' = 1 /\ mark' = NoMark
      /\ applied' \in {mark.id, None}
  BY DEF RemoveMarker, Step, faults, history
<1>2. NoMark.state = "none" /\ DOMAIN NoMark = {"state", "id", "new", "old"}
  BY DEF NoMark
<1>3. mark.state \in {"intent", "cleanup"} /\ mark # NoMark /\ job = None /\ mark.id \in Restore
  <2>1. mark.state \in {"intent", "cleanup"} /\ job = None
    BY <1>1, StartupFacts DEF PlaceInv, Startup
  <2> QED  BY <1>2, <2>1, MarkFacts DEF TypeOK
<1>4. TypeOK'
  <2>1. WellFormed(mark)'
    BY <1>1 DEF WellFormed
  <2>2. {fence, receipt, job, memFence, applied}' \subseteq Restore \cup {None}
    BY <1>1, <1>3 DEF TypeOK
  <2> QED  BY <1>1, <2>1, <2>2, PlanLength DEF TypeOK, States, Startup
<1>5. MarkFields' /\ StepInv' /\ PlaceInv'
  BY <1>1, <1>2, <1>3 DEF MarkFields, StepInv, PlaceInv
<1>6. canon \in whole
  BY <1>1, <1>3 DEF PairInv
<1>7. PairInv' /\ PairsSurvive'
  BY <1>1, <1>2, <1>3, <1>6 DEF PairInv, PairsSurvive
<1>8. \A m \in Member : canon[m] \in Restore \ resumed => fence = canon[m]
  <2>1. CASE mark.state = "intent"
    BY <2>1 DEF ReviewInv
  <2>2. CASE mark.state = "cleanup"
    BY <1>1, <1>3, <2>2 DEF PairInv, ReviewInv, AuditInv, Inherited
  <2> QED  BY <1>3, <2>1, <2>2
<1>9. ReviewInv'
  BY <1>1, <1>2, <1>3, <1>8 DEF ReviewInv
<1>10. \A m \in Member : canon[m] \in Restore => logged[canon[m]] = 1 \/ receipt = canon[m]
  <2>1. CASE mark.state = "intent"
    BY <2>1 DEF AuditInv
  <2>2. CASE mark.state = "cleanup"
    BY <1>1, <1>3, <2>2 DEF PairInv, AuditInv, Inherited
  <2> QED  BY <1>3, <2>1, <2>2
<1>11. AuditInv'
  BY <1>1, <1>2, <1>3, <1>10 DEF AuditInv
<1> QED  BY <1>4, <1>5, <1>7, <1>9, <1>11

LEMMA RemoveOrphanStep ==
    ASSUME IndInv, NEW r \in Restore, RemoveOrphan(r) PROVE IndInv'
<1> USE DEF IndInv
<1>1. /\ UNCHANGED <<canon, roll, mark, safety, fence, receipt, audit, step, mine, accepted, job>>
      /\ UNCHANGED <<memFence, applied, syncFaults, quiet, used, whole, resumed, logged>>
      /\ pc = "orphans" /\ pc' = "orphans" /\ prep' = [prep EXCEPT ![r] = NoFiles]
  BY DEF RemoveOrphan, Step, faults, process, history
<1>2. mark.state = "none" /\ job = None
  BY <1>1, StartupFacts, MarkFacts DEF PlaceInv, Startup, TypeOK
<1>3. TypeOK'
  <2>1. WellFormed(mark)'
    BY <1>1 DEF TypeOK, WellFormed
  <2>2. prep' \in [Restore -> Files]
    BY <1>1, PairIsFiles DEF TypeOK
  <2> QED  BY <1>1, <2>1, <2>2 DEF TypeOK
<1>4. MarkFields' /\ StepInv' /\ PlaceInv'
  BY <1>1 DEF MarkFields, StepInv, PlaceInv
<1>5. PairInv' /\ PairsSurvive'
  BY <1>1, <1>2 DEF PairInv, PairsSurvive
<1>6. ReviewInv' /\ AuditInv'
  BY <1>1, <1>2 DEF ReviewInv, AuditInv, Inherited
<1> QED  BY <1>3, <1>4, <1>5, <1>6

-----------------------------------------------------------------------------
(* recordAppliedRestore.                                                   *)

LEMMA LogAppliedStep ==
    ASSUME IndInv, LogApplied PROVE IndInv'
<1> USE DEF IndInv
<1>1. /\ UNCHANGED <<canon, roll, prep, mark, safety, fence, receipt, step, mine, accepted, job>>
      /\ UNCHANGED <<memFence, applied, syncFaults, quiet, used, whole, resumed>>
      /\ pc = "record" /\ pc' = "record" /\ receipt # None /\ receipt \notin audit
      /\ audit' = audit \cup {receipt}
      /\ logged' = [logged EXCEPT ![receipt] = @ + 1]
  BY DEF LogApplied, Step, faults, process
<1>2. mark = NoMark /\ mark.state = "none" /\ job = None
  BY <1>1, StartupFacts, MarkFacts DEF PlaceInv, Startup, TypeOK
<1>3. receipt \in Restore /\ receipt \in used /\ logged[receipt] = 0
  BY <1>1 DEF TypeOK, AuditInv
<1>4. /\ logged' \in [Restore -> Nat] /\ logged'[receipt] = 1
      /\ \A r \in Restore \ {receipt} : logged'[r] = logged[r]
  BY <1>1, <1>3 DEF TypeOK
<1>5. TypeOK'
  <2>1. WellFormed(mark)'
    BY <1>1 DEF TypeOK, WellFormed
  <2> QED  BY <1>1, <1>3, <1>4, <2>1 DEF TypeOK
<1>6. MarkFields' /\ StepInv' /\ PlaceInv'
  BY <1>1 DEF MarkFields, StepInv, PlaceInv
<1>7. PairInv' /\ PairsSurvive' /\ ReviewInv'
  BY <1>1, <1>2 DEF PairInv, PairsSurvive, ReviewInv
<1>8. AuditInv'
  BY <1>1, <1>2, <1>3, <1>4 DEF AuditInv, TypeOK
<1> QED  BY <1>5, <1>6, <1>7, <1>8

LEMMA ClearReceiptStep ==
    ASSUME IndInv, NEW kept \in SUBSET safety, ClearReceipt(kept) PROVE IndInv'
<1> USE DEF IndInv
<1>1. /\ UNCHANGED <<canon, roll, prep, mark, fence, audit, step, mine, accepted, job>>
      /\ UNCHANGED <<memFence, applied, syncFaults, quiet, used, whole, resumed, logged>>
      /\ pc = "record" /\ pc' = "serving" /\ receipt \in audit
      /\ safety' = kept /\ receipt' = None
      /\ {receipt, fence, mark.id} \cap safety \subseteq kept
  BY DEF ClearReceipt, Kept, Step, faults, process, history
<1>2. mark = NoMark /\ mark.state = "none" /\ job = None
  BY <1>1, StartupFacts, MarkFacts DEF PlaceInv, Startup, TypeOK
<1>3. TypeOK'
  <2>1. WellFormed(mark)'
    BY <1>1 DEF TypeOK, WellFormed
  <2>2. {fence, receipt, job, memFence, applied}' \subseteq Restore \cup {None}
    BY <1>1 DEF TypeOK
  <2> QED  BY <1>1, <2>1, <2>2 DEF TypeOK, States
<1>4. MarkFields' /\ StepInv' /\ PlaceInv'
  BY <1>1, <1>2 DEF MarkFields, StepInv, PlaceInv
<1>5. PairInv' /\ PairsSurvive'
  BY <1>1, <1>2 DEF PairInv, PairsSurvive
<1>6. ReviewInv'
  BY <1>1, <1>2 DEF ReviewInv
<1>7. AuditInv'
  BY <1>1, <1>2 DEF AuditInv
<1> QED  BY <1>3, <1>4, <1>5, <1>6, <1>7

-----------------------------------------------------------------------------
LEMMA StutterStep ==
    ASSUME IndInv, UNCHANGED vars PROVE IndInv'
<1>1. /\ UNCHANGED <<canon, roll, prep, mark, safety, fence, receipt, audit, pc, step, mine>>
      /\ UNCHANGED <<accepted, job, memFence, applied, syncFaults, quiet>>
      /\ UNCHANGED <<used, whole, resumed, logged>>
  BY DEF vars, files, process, faults, history
<1>2. TypeOK'
  BY <1>1 DEF IndInv, TypeOK, WellFormed
<1>3. MarkFields' /\ StepInv' /\ PlaceInv' /\ PairInv' /\ PairsSurvive' /\ ReviewInv'
  BY <1>1 DEF IndInv, MarkFields, StepInv, PlaceInv, PairInv, PairsSurvive, ReviewInv
<1>4. AuditInv'
  BY <1>1 DEF IndInv, AuditInv, Inherited
<1> QED  BY <1>2, <1>3, <1>4 DEF IndInv

LEMMA NextInv == IndInv /\ [Next]_vars => IndInv'
<1> SUFFICES ASSUME IndInv, [Next]_vars PROVE IndInv'
  OBVIOUS
<1>1. CASE Unmoved
  BY <1>1, UnmovedStep
<1>2. CASE \E r \in Restore, same \in SUBSET Member : Prepare(r, same)
  BY <1>2, PrepareStep
<1>3. CASE \E cleaned \in BOOLEAN : DiscardPrepared(cleaned)
  BY <1>3, DiscardStep
<1>4. CASE \E retained \in BOOLEAN : CreateIntent(retained)
  BY <1>4, CreateIntentStep
<1>5. CASE \E failed \in BOOLEAN : ResumeRouterWrites(failed)
  BY <1>5, ResumeStep
<1>6. CASE \E r \in Restore : PruneEvents(r)
  BY <1>6, PruneStep
<1>7. CASE Exit
  BY <1>7, ExitStep
<1>8. CASE CreateSafety \/ RecordSafety
  BY <1>8, CreateSafetyStep, RecordSafetyStep
<1>9. CASE Park \/ Publish \/ Suppress \/ Advance
  BY <1>9, ParkStep, PublishStep, SuppressStep, AdvanceStep
<1>10. CASE Unpublish \/ Unpark \/ UndoMarker \/ UndoDone
  BY <1>10, UnpublishStep, UnparkStep, UndoMarkerStep, UndoDoneStep
<1>11. CASE Finish \/ RemoveRollback \/ RemovePrepared \/ RemoveMarker
  BY <1>11, FinishStep, RemoveRollbackStep, RemovePreparedStep, RemoveMarkerStep
<1>12. CASE \E r \in Restore : RemoveOrphan(r)
  BY <1>12, RemoveOrphanStep
<1>13. CASE LogApplied
  BY <1>13, LogAppliedStep
<1>14. CASE \E kept \in SUBSET safety : ClearReceipt(kept)
  BY <1>14, ClearReceiptStep
<1>15. CASE UNCHANGED vars
  BY <1>15, StutterStep
<1> QED  BY <1>1, <1>2, <1>3, <1>4, <1>5, <1>6, <1>7, <1>8, <1>9, <1>10, <1>11, <1>12, <1>13,
            <1>14, <1>15 DEF Next, Recover, Unmoved

LEMMA AlwaysInv == Spec => []IndInv
BY InitInv, NextInv, PTL DEF Spec

LEMMA InvKeepsPairs == IndInv => NoPairIsLost
<1> SUFFICES ASSUME IndInv PROVE NoPairIsLost
  OBVIOUS
<1>1. pc \in {"open", "record", "serving", "closed"} => mark.state \in {"none", "intent"}
  BY DEF IndInv, PlaceInv, NoMark
<1>2. OpenedPairIsWhole
  BY <1>1 DEF IndInv, PairInv, OpenedPairIsWhole
<1> QED  BY <1>2 DEF IndInv, NoPairIsLost

LEMMA InvReviews == IndInv => RestoredIsReviewed
<1> SUFFICES ASSUME IndInv PROVE RestoredIsReviewed
  OBVIOUS
<1> USE DEF IndInv
<1>1. RestoredIsFenced
  <2> SUFFICES ASSUME pc = "serving", NEW r \in Restore \ resumed, NEW m \in Member, canon[m] = r
               PROVE  memFence = r /\ fence = r
    BY DEF RestoredIsFenced
  <2>1. fence = r /\ r # None
    BY ServingFacts, RestoreConstants DEF ReviewInv
  <2> QED  BY <2>1 DEF ReviewInv
<1>2. ReviewKeepsSafety
  BY DEF ReviewKeepsSafety, ReviewInv
<1>3. AuditedOnce
  <2> SUFFICES ASSUME pc = "serving", NEW r \in Restore, NEW m \in Member, canon[m] = r
               PROVE  logged[r] = 1
    BY DEF AuditedOnce
  <2> QED  BY ServingFacts, RestoreConstants DEF AuditInv
<1> QED  BY <1>1, <1>2, <1>3 DEF RestoredIsReviewed

\* Whatever crashes, fails or comes back half-synced during a swap, its rollback
\* and the starts after it, no database or keyring is lost and no two pairs are
\* mixed (applyReady, restoreOld, finishCleanup, CleanupOrphanPrepared).
THEOREM RestoreSwapNoPairIsLost == Spec => []NoPairIsLost
BY AlwaysInv, InvKeepsPairs, PTL

\* A restored pair is served only behind its fence, with its safety artifact
\* kept and its audit record written exactly once (ensureSuppression,
\* pruneSafetyArtifacts, recordAppliedRestore).
THEOREM RestoreSwapRestoredIsReviewed == Spec => []RestoredIsReviewed
BY AlwaysInv, InvReviews, PTL

-----------------------------------------------------------------------------
(* RestoreSwap implements AtomicRestore.                                   *)

Mapped == <<PromisedPair, PromisedPending, PromisedFence, PromisedServed, PromisedWriting>>

\* Nothing the promise speaks of changes.
LEMMA MappedFrame ==
    ASSUME UNCHANGED <<canon, mark, fence, syncFaults, accepted>>,
           UNCHANGED <<pc, memFence>> \/ (pc # "serving" /\ pc' # "serving")
    PROVE  UNCHANGED Mapped
BY DEF Mapped, PromisedPair, PromisedPending, PromisedFence, PromisedServed, PromisedWriting, Swapping

\* Files move under a marker that is not yet at its commit point.
LEMMA MappedSwap ==
    ASSUME Swapping, Swapping', UNCHANGED syncFaults,
           mark'.id = mark.id, mark'.new = mark.new, mark'.old = mark.old,
           pc # "serving", pc' # "serving",
           fence \in {None, mark.id}, fence' \in {None, mark.id}
    PROVE  UNCHANGED Mapped
BY DEF Mapped, PromisedPair, PromisedPending, PromisedFence, PromisedServed, PromisedWriting

\* With fsyncs that fail after the rename the promise is not made.
LEMMA MappedFaulty ==
    ASSUME syncFaults, UNCHANGED syncFaults
    PROVE  UNCHANGED Mapped
BY DEF Mapped, PromisedPair, PromisedPending, PromisedFence, PromisedServed, PromisedWriting, Untouched

\* The process ends: what it accepted and did not promote is gone.
LEMMA MappedStop ==
    ASSUME ~syncFaults, UNCHANGED <<canon, mark, fence, syncFaults>>,
           UNCHANGED accepted \/ ~accepted', pc' # "serving"
    PROVE  Promised!Stop
<1>1. PromisedServed' = None /\ PromisedWriting' = FALSE
  BY DEF PromisedServed, PromisedWriting
<1>2. PromisedPending' \in {PromisedPending, None}
  BY DEF PromisedPending, Swapping
<1>3. UNCHANGED <<PromisedPair, PromisedFence>>
  BY DEF PromisedPair, PromisedFence, Swapping
<1> QED  BY <1>1, <1>2, <1>3 DEF Promised!Stop

LEMMA InitMaps == Init => Promised!Init
<1> SUFFICES ASSUME Init PROVE Promised!Init
  OBVIOUS
<1>1. mark.state = "none" /\ ~Swapping /\ canon = Untouched /\ Untouched \in Pair
      /\ fence = None /\ pc = "serving" /\ memFence = None /\ syncFaults \in BOOLEAN
  BY DEF Init, NoMark, Swapping, Untouched, Pair, Content
<1>2. PromisedPair = Untouched /\ PromisedServed = Untouched
  BY <1>1 DEF PromisedPair, PromisedServed
<1>3. PromisedPending = None /\ PromisedFence = None /\ PromisedWriting = TRUE
  BY <1>1 DEF PromisedPending, PromisedFence, PromisedWriting
<1> QED  BY <1>1, <1>2, <1>3 DEF Promised!Init

LEMMA UnmovedMaps ==
    ASSUME IndInv, ~syncFaults, Unmoved
    PROVE  Promised!Next \/ UNCHANGED Mapped
<1>1. UNCHANGED <<canon, mark, fence, syncFaults>>
  BY UnmovedPlaces DEF files
<1>2. CASE Shutdown
  <2>1. UNCHANGED accepted /\ pc' # "serving"
    BY <1>2 DEF Shutdown, Step, process
  <2> QED  BY <1>1, <2>1, MappedStop DEF Promised!Next
<1>3. CASE Refuse \/ Crash
  <2>1. ~accepted' /\ pc' # "serving"
    BY <1>3 DEF Refuse, Crash, Down
  <2> QED  BY <1>1, <2>1, MappedStop DEF Promised!Next
<1>4. CASE Start \/ Dispatch \/ Locate \/ SwapFails \/ ReadSuppression \/ OpenStore \/ Validate
  <2>1. UNCHANGED accepted /\ pc # "serving" /\ pc' # "serving"
    BY <1>4 DEF Start, Dispatch, Locate, SwapFails, ReadSuppression, OpenStore, Validate, Step,
                process, At, Continue
  <2> QED  BY <1>1, <2>1, MappedFrame
<1>5. CASE Quieten
  <2>1. UNCHANGED <<accepted, pc, memFence>>
    BY <1>5 DEF Quieten, process
  <2> QED  BY <1>1, <2>1, MappedFrame
<1>6. CASE Serve
  <2>1. pc = "record" /\ pc' = "serving" /\ UNCHANGED <<accepted, memFence>>
    BY <1>6 DEF Serve, Step, process
  <2>2. mark.state = "none" /\ memFence = fence
    BY <2>1 DEF IndInv, PlaceInv, ReviewInv, NoMark
  <2>3. PromisedServed = None /\ PromisedPending = None /\ PromisedServed' = PromisedPair
    BY <1>1, <2>1, <2>2 DEF PromisedServed, PromisedPending, PromisedPair, Swapping
  <2>4. PromisedWriting' = (PromisedFence = None)
    BY <1>1, <2>1, <2>2 DEF PromisedWriting, PromisedFence, Swapping
  <2>5. UNCHANGED <<PromisedPair, PromisedPending, PromisedFence>>
    BY <1>1, <2>1 DEF PromisedPair, PromisedPending, PromisedFence, Swapping
  <2> QED  BY <2>3, <2>4, <2>5 DEF Promised!Next, Promised!Serve
<1> QED  BY <1>2, <1>3, <1>4, <1>5, <1>6 DEF Unmoved

\* A confirmation with its marker for sure is the promise's Confirm.
LEMMA CreateIntentMaps ==
    ASSUME IndInv, ~syncFaults, NEW retained \in BOOLEAN, CreateIntent(retained)
    PROVE  Promised!Next \/ UNCHANGED Mapped
<1>1. /\ UNCHANGED <<canon, fence, memFence, syncFaults>> /\ pc = "serving" /\ pc' = "serving"
      /\ mark = NoMark /\ job # None /\ accepted' = ~retained
      /\ mark' = [state |-> "intent", id |-> job, new |-> prep[job], old |-> NoFiles]
  BY DEF CreateIntent, Step, faults
<1>2. /\ mark.state = "none" /\ mark'.state = "intent" /\ mark'.id = job /\ mark'.new = prep[job]
      /\ ~Swapping /\ ~Swapping'
  BY <1>1 DEF NoMark, Swapping
<1>3. job \in Restore /\ prep[job] \in Pair /\ fence = None
  BY <1>1 DEF IndInv, TypeOK, PairInv, ReviewInv
<1>4. UNCHANGED <<PromisedPair, PromisedFence, PromisedServed, PromisedWriting>>
  BY <1>1, <1>2 DEF PromisedPair, PromisedFence, PromisedServed, PromisedWriting
<1>5. PromisedPending = None
  BY <1>2 DEF PromisedPending
<1>6. CASE retained
  BY <1>1, <1>2, <1>4, <1>5, <1>6 DEF PromisedPending, Mapped
<1>7. CASE ~retained
  <2>1. PromisedPending' = [id |-> job, pair |-> prep[job]]
    BY <1>1, <1>2, <1>7 DEF PromisedPending
  <2>2. PromisedFence = None
    BY <1>3 DEF PromisedFence
  <2>3. PromisedServed # None
    BY <1>1, ServingFacts, NoneIsNoPair DEF PromisedServed
  <2> QED  BY <1>3, <1>4, <1>5, <2>1, <2>2, <2>3 DEF Promised!Next, Promised!Confirm
<1> QED  BY <1>6, <1>7

LEMMA ExitMaps ==
    ASSUME IndInv, ~syncFaults, Exit
    PROVE  Promised!Next \/ UNCHANGED Mapped
<1>1. /\ UNCHANGED <<canon, prep, fence, syncFaults>> /\ pc = "closed" /\ pc' = "down"
      /\ ~accepted'
  BY DEF Exit, Down, faults
<1>2. CASE UNCHANGED mark
  BY <1>1, <1>2, MappedStop DEF Promised!Next
<1>3. CASE MarkCleanShutdown
  <2>1. /\ accepted /\ mark.state = "intent"
        /\ mark' = [mark EXCEPT !.state = "ready", !.old = canon]
    BY <1>3 DEF MarkCleanShutdown, Promotable
  <2>2. /\ mark'.state = "ready" /\ mark'.id = mark.id /\ mark'.new = mark.new
        /\ mark'.old = canon
    BY <2>1 DEF IndInv, MarkFields
  <2>3. ~Swapping /\ Swapping'
    BY <2>1, <2>2 DEF Swapping
  <2>4. fence = None
    BY <2>1 DEF IndInv, ReviewInv
  <2> QED  BY <1>1, <2>1, <2>2, <2>3, <2>4
           DEF Mapped, PromisedPair, PromisedPending, PromisedFence, PromisedServed, PromisedWriting
<1> QED  BY <1>2, <1>3 DEF Exit

LEMMA ResumeMaps ==
    ASSUME IndInv, ~syncFaults, NEW failed \in BOOLEAN, ResumeRouterWrites(failed)
    PROVE  Promised!Next
<1>1. /\ UNCHANGED <<canon, mark, syncFaults, accepted>> /\ pc = "serving" /\ pc' = "serving"
      /\ fence # None /\ fence' = None
  BY DEF ResumeRouterWrites, Step, faults
<1>2. mark.state \in {"none", "intent"} /\ ~Swapping /\ ~Swapping'
  BY <1>1, ServingFacts DEF Swapping
<1>3. PromisedFence # None /\ PromisedFence' = None
  BY <1>1, <1>2 DEF PromisedFence
<1>4. PromisedServed # None
  BY <1>1, ServingFacts, NoneIsNoPair DEF PromisedServed
<1>5. UNCHANGED <<PromisedPair, PromisedPending, PromisedServed>>
  BY <1>1 DEF PromisedPair, PromisedPending, PromisedServed, Swapping
<1>6. PromisedWriting' \in BOOLEAN
  BY DEF PromisedWriting
<1> QED  BY <1>3, <1>4, <1>5, <1>6 DEF Promised!Next, Promised!Resume

\* The last marker write of the swap is the promise's Commit.
LEMMA AdvanceMaps ==
    ASSUME IndInv, ~syncFaults, Advance
    PROVE  Promised!Next \/ UNCHANGED Mapped
<1>1. PICK s : s = Plan[step][2]
  OBVIOUS
<1>2. /\ UNCHANGED <<canon, fence, syncFaults>> /\ pc = "swap" /\ Plan[step][1] = "advance"
      /\ Continue
      /\ mark' = IF Rank(mark.state) >= Rank(s) THEN mark ELSE [mark EXCEPT !.state = s]
  BY <1>1 DEF Advance, At, faults
<1>3. s \in Moved \ {"ready", "safety"} /\ (s = "cleanup" <=> step = 13)
  BY <1>1, <1>2, SwapFacts, PlanSteps
<1>4. pc # "serving" /\ pc' # "serving"
  BY <1>2 DEF Continue
<1>5. Swapping /\ fence \in {None, mark.id}
  BY <1>2, SwapFacts DEF Swapping, Moved, IndInv, ReviewInv
<1>6. CASE s # "cleanup"
  <2>1. /\ mark'.state \in Moved \ {"cleanup"} /\ mark'.id = mark.id /\ mark'.new = mark.new
        /\ mark'.old = mark.old
    <3>1. CASE Rank(mark.state) >= Rank(s)
      BY <1>2, <3>1, SwapFacts
    <3>2. CASE ~(Rank(mark.state) >= Rank(s))
      BY <1>2, <1>3, <1>6, <3>2, SwapFacts, MarkMoves DEF IndInv, TypeOK
    <3> QED  BY <3>1, <3>2
  <2>2. Swapping'
    BY <2>1 DEF Swapping, Moved
  <2> QED  BY <1>2, <1>4, <1>5, <2>1, <2>2, MappedSwap
<1>7. CASE s = "cleanup"
  <2>1. ~ (Rank(mark.state) >= Rank(s))
    BY <1>2, <1>7, SwapFacts, CleanupIsLast
  <2>2. /\ mark'.state = "cleanup" /\ mark'.id = mark.id /\ mark'.new = mark.new
    BY <1>2, <1>3, <1>7, <2>1, SwapFacts, MarkMoves DEF IndInv, TypeOK
  <2>3. ~Swapping' /\ fence = mark.id
    BY <1>2, <1>3, <1>7, <2>2 DEF Swapping, IndInv, ReviewInv
  <2>4. mark.id \in Restore /\ mark.new \in Pair
    BY <1>2, SwapFacts
  <2>5. PromisedPending = [id |-> mark.id, pair |-> mark.new] /\ PromisedPending' = None
    BY <1>2, <1>5, <2>2, <2>3 DEF PromisedPending
  <2>6. PromisedPending # None
    BY <2>4, <2>5, NoneIsNoPair
  <2>7. PromisedPair' = mark.new /\ PromisedFence' = mark.id
    BY <1>2, <2>2, <2>3 DEF PromisedPair, PromisedFence
  <2>8. PromisedServed = None /\ UNCHANGED <<PromisedServed, PromisedWriting>>
    BY <1>2, <1>4 DEF PromisedServed, PromisedWriting
  <2> QED  BY <2>5, <2>6, <2>7, <2>8 DEF Promised!Next, Promised!Commit
<1> QED  BY <1>6, <1>7

LEMMA SwapMaps ==
    ASSUME IndInv, ~syncFaults, RecordSafety \/ Park \/ Publish \/ Suppress
    PROVE  UNCHANGED Mapped
<1>1. CASE RecordSafety
  <2>1. /\ UNCHANGED <<fence, syncFaults>> /\ pc = "safety" /\ pc' = "swap"
        /\ mark' = [mark EXCEPT !.state = "safety"] /\ mark.state = "ready"
    BY <1>1 DEF RecordSafety, Step, faults, IndInv, PlaceInv
  <2>2. mark'.state = "safety" /\ mark'.id = mark.id /\ mark'.new = mark.new /\ mark'.old = mark.old
    BY <2>1, MarkMoves DEF IndInv, TypeOK, Moved
  <2>3. mark # NoMark /\ Swapping /\ Swapping'
    BY <2>1, <2>2, MovedFacts DEF Swapping
  <2>4. fence \in {None, mark.id}
    BY <2>3 DEF IndInv, ReviewInv
  <2> QED  BY <2>1, <2>2, <2>3, <2>4, MappedSwap
<1>2. CASE Park \/ Publish \/ Suppress
  <2>1. UNCHANGED <<mark, syncFaults>> /\ pc = "swap" /\ pc' # "serving" /\ fence' \in {fence, mark.id}
    BY <1>2 DEF Park, Publish, Suppress, At, Continue, faults
  <2>2. Swapping /\ mark # NoMark
    BY <2>1, SwapFacts DEF Swapping, Moved
  <2>3. Swapping' /\ fence \in {None, mark.id}
    BY <2>1, <2>2 DEF Swapping, IndInv, ReviewInv
  <2> QED  BY <2>1, <2>2, <2>3, MappedSwap
<1> QED  BY <1>1, <1>2

LEMMA UndoMaps ==
    ASSUME IndInv, ~syncFaults, Unpublish \/ Unpark \/ UndoMarker \/ UndoDone
    PROVE  Promised!Next \/ UNCHANGED Mapped
<1>1. pc = "undo" /\ UNCHANGED <<fence, syncFaults>>
  BY DEF Unpublish, Unpark, UndoMarker, UndoDone, Step, faults
<1>2. mark.state # "cleanup"
  BY <1>1 DEF IndInv, PlaceInv
<1>3. Swapping /\ mark # NoMark /\ fence \in {None, mark.id} /\ mark.state \in Moved
  BY <1>1, <1>2, UndoFacts DEF Swapping, Moved, IndInv, ReviewInv
<1>4. CASE UndoDone
  BY <1>4, <1>1, MappedStop DEF UndoDone, Down, Promised!Next
<1>5. CASE Unpublish \/ Unpark
  <2>1. UNCHANGED mark /\ pc' # "serving"
    BY <1>5 DEF Unpublish, Unpark, Step
  <2>2. Swapping'
    BY <1>3, <2>1 DEF Swapping
  <2> QED  BY <1>1, <1>3, <2>1, <2>2, MappedSwap
<1>6. CASE UndoMarker
  <2>1. mark' = [mark EXCEPT !.state = "safety"] /\ pc' # "serving"
    BY <1>6 DEF UndoMarker, Step
  <2>2. mark'.state = "safety" /\ mark'.id = mark.id /\ mark'.new = mark.new /\ mark'.old = mark.old
    BY <1>3, <2>1, MarkMoves DEF IndInv, TypeOK, Moved
  <2>3. Swapping'
    BY <2>2 DEF Swapping
  <2> QED  BY <1>1, <1>3, <2>1, <2>2, <2>3, MappedSwap
<1> QED  BY <1>4, <1>5, <1>6

\* The new pair has been canonical since the commit point.
LEMMA RemoveMarkerMaps ==
    ASSUME IndInv, ~syncFaults, RemoveMarker
    PROVE  UNCHANGED Mapped
<1>1. /\ UNCHANGED <<canon, fence, accepted, syncFaults>> /\ pc = "remove" /\ pc' = "orphans"
      /\ mark' = NoMark
  BY DEF RemoveMarker, Step, faults
<1>2. mark'.state = "none" /\ ~Swapping'
  BY <1>1 DEF NoMark, Swapping
<1>3. /\ mark.state \in {"intent", "cleanup"} /\ ~Swapping /\ ~accepted
      /\ mark.state = "cleanup" => canon = mark.new
  BY <1>1, StartupFacts DEF IndInv, PlaceInv, PairInv, Startup, Swapping
<1> QED  BY <1>1, <1>2, <1>3
         DEF Mapped, PromisedPair, PromisedPending, PromisedFence, PromisedServed, PromisedWriting

LEMMA ClearReceiptMaps ==
    ASSUME IndInv, ~syncFaults, NEW kept \in SUBSET safety, ClearReceipt(kept)
    PROVE  Promised!Next
<1>1. /\ UNCHANGED <<canon, mark, fence, syncFaults, accepted, memFence>>
      /\ pc = "record" /\ pc' = "serving"
  BY DEF ClearReceipt, Step, faults, process
<1>2. mark.state = "none" /\ memFence = fence
  BY <1>1 DEF IndInv, PlaceInv, ReviewInv, NoMark
<1>3. PromisedServed = None /\ PromisedPending = None /\ PromisedServed' = PromisedPair
  BY <1>1, <1>2 DEF PromisedServed, PromisedPending, PromisedPair, Swapping
<1>4. PromisedWriting' = (PromisedFence = None)
  BY <1>1, <1>2 DEF PromisedWriting, PromisedFence, Swapping
<1>5. UNCHANGED <<PromisedPair, PromisedPending, PromisedFence>>
  BY <1>1 DEF PromisedPair, PromisedPending, PromisedFence, Swapping
<1> QED  BY <1>3, <1>4, <1>5 DEF Promised!Next, Promised!Serve

\* Everything else happens beside what the promise speaks of.
LEMMA AsideMaps ==
    ASSUME \/ \E r \in Restore, same \in SUBSET Member : Prepare(r, same)
           \/ \E cleaned \in BOOLEAN : DiscardPrepared(cleaned)
           \/ \E r \in Restore : PruneEvents(r)
           \/ CreateSafety \/ Finish \/ RemoveRollback \/ RemovePrepared
           \/ \E r \in Restore : RemoveOrphan(r)
           \/ LogApplied
           \/ UNCHANGED vars
    PROVE  UNCHANGED Mapped
<1>1. UNCHANGED <<canon, mark, fence, syncFaults, accepted>>
  BY DEF Prepare, DiscardPrepared, PruneEvents, CreateSafety, Finish, RemoveRollback,
         RemovePrepared, RemoveOrphan, LogApplied, vars, files, process, faults
<1>2. UNCHANGED <<pc, memFence>> \/ (pc # "serving" /\ pc' # "serving")
  BY DEF Prepare, DiscardPrepared, PruneEvents, CreateSafety, Finish, RemoveRollback,
         RemovePrepared, RemoveOrphan, LogApplied, vars, process, Step
<1> QED  BY <1>1, <1>2, MappedFrame

LEMMA NextMaps == IndInv /\ [Next]_vars => [Promised!Next]_Promised!vars
<1> SUFFICES ASSUME IndInv, [Next]_vars PROVE Promised!Next \/ UNCHANGED Mapped
  BY DEF Mapped, Promised!vars
<1>1. CASE syncFaults
  <2>1. UNCHANGED syncFaults
    BY DEF Next, Recover, Prepare, DiscardPrepared, CreateIntent, Shutdown, Exit,
           ResumeRouterWrites, PruneEvents, Start, Dispatch, Locate, CreateSafety, RecordSafety,
           Park, Publish, Validate, Suppress, Advance, SwapFails, Unpublish, Unpark, UndoMarker,
           UndoDone, Finish, RemoveRollback, RemovePrepared, RemoveMarker, RemoveOrphan,
           ReadSuppression, OpenStore, LogApplied, ClearReceipt, Serve, Refuse, Crash, Quieten,
           vars, faults
  <2> QED  BY <1>1, <2>1, MappedFaulty
<1>2. CASE ~syncFaults /\ Unmoved
  BY <1>2, UnmovedMaps
<1>3. CASE ~syncFaults /\ ~Unmoved
  <2>1. CASE \E retained \in BOOLEAN : CreateIntent(retained)
    BY <1>3, <2>1, CreateIntentMaps
  <2>2. CASE \E failed \in BOOLEAN : ResumeRouterWrites(failed)
    BY <1>3, <2>2, ResumeMaps
  <2>3. CASE Exit
    BY <1>3, <2>3, ExitMaps
  <2>4. CASE Advance
    BY <1>3, <2>4, AdvanceMaps
  <2>5. CASE RecordSafety \/ Park \/ Publish \/ Suppress
    BY <1>3, <2>5, SwapMaps
  <2>6. CASE Unpublish \/ Unpark \/ UndoMarker \/ UndoDone
    BY <1>3, <2>6, UndoMaps
  <2>7. CASE RemoveMarker
    BY <1>3, <2>7, RemoveMarkerMaps
  <2>8. CASE \E kept \in SUBSET safety : ClearReceipt(kept)
    BY <1>3, <2>8, ClearReceiptMaps
  <2>9. CASE \/ \E r \in Restore, same \in SUBSET Member : Prepare(r, same)
             \/ \E cleaned \in BOOLEAN : DiscardPrepared(cleaned)
             \/ \E r \in Restore : PruneEvents(r)
             \/ CreateSafety \/ Finish \/ RemoveRollback \/ RemovePrepared
             \/ \E r \in Restore : RemoveOrphan(r)
             \/ LogApplied
             \/ UNCHANGED vars
    BY <2>9, AsideMaps
  <2> QED  BY <1>3, <2>1, <2>2, <2>3, <2>4, <2>5, <2>6, <2>7, <2>8, <2>9 DEF Next, Recover, Unmoved
<1> QED  BY <1>1, <1>2, <1>3

\* The served pair and the fence change together and at once, at the last marker
\* write of applyReady, only after an accepted confirmation, however the swap is
\* interrupted: the code's many file operations implement AtomicRestore.
THEOREM RestoreSwapImplementsAtomicRestore == Spec => ImplementsAtomicRestore
<1>1. Init => Promised!Init
  BY InitMaps
<1>2. IndInv /\ [Next]_vars => [Promised!Next]_Promised!vars
  BY NextMaps
<1> QED  BY <1>1, <1>2, AlwaysInv, PTL DEF Spec, ImplementsAtomicRestore, Promised!Spec

=============================================================================
