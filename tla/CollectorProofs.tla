--------------------------- MODULE CollectorProofs ---------------------------
(***************************************************************************)
(* QuiesceIsBoundary, CacheIsCurrent and SessionIsCurrent of Collector for *)
(* any number of callers, any interfaces and any targets.                  *)
(*                                                                         *)
(* BoundInv counts the callers between Quiesce and their first release:    *)
(* p.quiesce is that number, so it is positive while one of them is in.    *)
(* That no cycle runs then is what the rest rests on: an apply or an       *)
(* access refresh never happens under a poll in flight, and so what a poll *)
(* is told (LookInv, FreqInv, GrantInv) is still so when it files it.      *)
(***************************************************************************)
EXTENDS Collector, Fleet, FiniteSetTheorems, WellFoundedInduction, TLAPS

Flight == {"dial", "sent", "read"}
Keys == {t.key : t \in Targets}
Sessions == [key : Keys, grants : 0..MaxEvents] \cup {NoSession}

\* The records of a cycle.
CycleOK ==
    \/ cycle = Idle
    \/ cycle = [pc |-> "emit"]
    \/ /\ cycle.pc \in Flight
       /\ DOMAIN cycle = {"pc", "full", "client", "key", "asked", "freqIf", "early", "saw"}
       /\ cycle.full \in BOOLEAN /\ cycle.early \in BOOLEAN
       /\ cycle.client \in Sessions /\ cycle.key \in Keys

Types ==
    /\ target \in Targets /\ row \in Keys /\ client \in Sessions
    /\ events \in 0..MaxEvents /\ grants \in 0..events
    /\ live \subseteq Ifaces /\ config \in Shapes
    /\ due \subseteq SlowSources /\ refetch \in {None, "pending", "due"}
    /\ fails \in 0..2
    /\ wake \in BOOLEAN /\ owed \in BOOLEAN /\ cutShort \in BOOLEAN /\ crossed \in BOOLEAN
    /\ {"ifaces", "radio", "freq"} \subseteq DOMAIN cache
    /\ {"known", "of"} \subseteq DOMAIN cache.ifaces
    /\ CycleOK

\* The callers for whom the count is still raised.
Raised == {o \in Ops : held[o] \in {"waiting", "in"}}

BoundInv ==
    /\ held \in [Ops -> {"out", "waiting", "in", "done"}]
    /\ quiesce = Cardinality(Raised)
    /\ QuiesceIsBoundary

\* What is known of the router's interfaces once no second look is to come, or
\* when the one that is due has left.
LookInv ==
    /\ ~owed /\ refetch = None => live = config \/ cutShort
    /\ ~owed /\ refetch = "due" => live = config
    /\ cycle.pc \in {"sent", "read"} /\ ~owed /\ ~cycle.early => live = config
    /\ cycle.pc = "read" /\ ~owed /\ (refetch = None \/ ~cycle.early) =>
          cycle.saw = live \/ cutShort

\* The interface a frequency list was asked of is still the radio's.
FreqInv ==
    /\ cycle.pc = "dial" => "freq" \notin cycle.asked
    /\ cycle.pc \in {"sent", "read"} /\ "freq" \in cycle.asked =>
          cache.radio.known /\ cycle.freqIf = Preferred(cache.radio.of)

\* Every session in use has the grants installed last.
GrantInv ==
    /\ client # NoSession => client.grants = grants
    /\ cycle.pc = "dial" /\ cycle.client # NoSession => cycle.client.grants = grants

IndInv == Types /\ BoundInv /\ LookInv /\ FreqInv /\ GrantInv
          /\ SettledList /\ KnownIsAnswered /\ SessionIsCurrent

-----------------------------------------------------------------------------
LEMMA InitInv == Init => IndInv
<1> SUFFICES ASSUME Init PROVE IndInv
  OBVIOUS
<1>1. Types
  <2>1. /\ target \in Targets /\ row \in Keys /\ client \in Sessions
        /\ live \subseteq Ifaces /\ config \in Shapes
    BY DEF Init, Keys, Sessions, Ifaces
  <2>2. events \in 0..MaxEvents /\ grants \in 0..events /\ fails \in 0..2
    BY CollectorAssumption DEF Init
  <2>3. /\ due \subseteq SlowSources /\ refetch \in {None, "pending", "due"}
        /\ wake \in BOOLEAN /\ owed \in BOOLEAN /\ cutShort \in BOOLEAN /\ crossed \in BOOLEAN
    BY DEF Init
  <2>4. /\ {"ifaces", "radio", "freq"} \subseteq DOMAIN cache
        /\ {"known", "of"} \subseteq DOMAIN cache.ifaces
    BY DEF Init, Unknown
  <2> QED  BY <2>1, <2>2, <2>3, <2>4 DEF Init, Types, CycleOK
<1>2. BoundInv
  <2>1. Raised = {}
    BY DEF Init, Raised
  <2> QED  BY <2>1, FS_EmptySet DEF Init, BoundInv, QuiesceIsBoundary
<1>3. LookInv /\ FreqInv /\ GrantInv
  BY DEF Init, LookInv, FreqInv, GrantInv, Idle
<1>4. SettledList /\ KnownIsAnswered /\ SessionIsCurrent
  BY DEF Init, SettledList, KnownIsAnswered, SessionIsCurrent, Idle, Unknown
<1> QED  BY <1>1, <1>2, <1>3, <1>4 DEF IndInv

-----------------------------------------------------------------------------
(* The count of the callers, and the cycle that waits for them.            *)

\* A caller goes from one place to another.
LEMMA HeldMoves ==
    ASSUME BoundInv, NEW o \in Ops, NEW to \in {"out", "waiting", "in", "done"},
           held' = [held EXCEPT ![o] = to]
    PROVE  /\ held' \in [Ops -> {"out", "waiting", "in", "done"}]
           /\ held'[o] = to /\ \A q \in Ops : q # o => held'[q] = held[q]
           /\ Raised' = IF to \in {"waiting", "in"} THEN Raised \cup {o} ELSE Raised \ {o}
<1>1. held' = [q \in Ops |-> IF q = o THEN to ELSE held[q]]
  BY DEF BoundInv
<1> QED  BY <1>1 DEF BoundInv, Raised

LEMMA RaisedFinite ==
    IsFiniteSet(Raised) /\ Cardinality(Raised) \in 0..Cardinality(Ops)
<1>1. Raised \subseteq Ops
  BY DEF Raised
<1>2. IsFiniteSet(Raised) /\ Cardinality(Raised) <= Cardinality(Ops)
  BY <1>1, CollectorAssumption, FS_Subset
<1>3. Cardinality(Raised) \in Nat /\ Cardinality(Ops) \in Nat
  BY <1>2, CollectorAssumption, FS_CardinalityType
<1> QED  BY <1>2, <1>3

\* While a caller is in, the count is positive.
LEMMA InIsCounted ==
    ASSUME BoundInv, quiesce = 0, NEW o \in Ops PROVE held[o] # "in"
<1>1. Raised = {}
  BY RaisedFinite, FS_EmptySet DEF BoundInv
<1> QED  BY <1>1 DEF Raised

\* The steps of the poll loop start a cycle only when nobody is in.
LEMMA BoundCycle ==
    ASSUME BoundInv, UNCHANGED lease, CycleFree' \/ ~CycleFree \/ quiesce = 0
    PROVE  BoundInv'
<1>1. UNCHANGED <<held, quiesce, Raised>>
  BY DEF lease, Raised
<1>2. QuiesceIsBoundary'
  BY <1>1, InIsCounted DEF BoundInv, QuiesceIsBoundary
<1> QED  BY <1>1, <1>2 DEF BoundInv

LEMMA BoundRaises ==
    ASSUME BoundInv, NEW o \in Ops, QuiesceRaises(o) PROVE BoundInv'
<1>1. /\ held' \in [Ops -> {"out", "waiting", "in", "done"}]
      /\ held'[o] = "waiting" /\ \A q \in Ops : q # o => held'[q] = held[q]
      /\ Raised' = Raised \cup {o}
  BY HeldMoves DEF QuiesceRaises
<1>2. o \notin Raised
  BY DEF Raised, QuiesceRaises
<1>3. Cardinality(Raised') = Cardinality(Raised) + 1
  BY <1>1, <1>2, RaisedFinite, FS_AddElement
<1>4. quiesce' = Cardinality(Raised')
  BY <1>3 DEF QuiesceRaises, BoundInv
<1>5. QuiesceIsBoundary'
  BY <1>1 DEF BoundInv, QuiesceIsBoundary, QuiesceRaises, CycleFree
<1> QED  BY <1>1, <1>4, <1>5 DEF BoundInv

LEMMA BoundReturns ==
    ASSUME BoundInv, NEW o \in Ops, QuiesceReturns(o) PROVE BoundInv'
<1>1. /\ held' \in [Ops -> {"out", "waiting", "in", "done"}]
      /\ Raised' = Raised \cup {o}
  BY HeldMoves DEF QuiesceReturns
<1>2. o \in Raised
  BY DEF Raised, QuiesceReturns
<1>3. Raised' = Raised
  BY <1>1, <1>2
<1>4. QuiesceIsBoundary'
  BY DEF QuiesceIsBoundary, QuiesceReturns, CycleFree
<1> QED  BY <1>1, <1>3, <1>4 DEF BoundInv, QuiesceReturns

\* The count goes down with the first call of a release function only.
LEMMA BoundReleases ==
    ASSUME BoundInv, NEW o \in Ops, Release(o) PROVE BoundInv'
<1>1. PICK to \in {"out", "done"} : /\ held' = [held EXCEPT ![o] = to]
                                    /\ to = IF held[o] = "in" THEN "done" ELSE "out"
  BY DEF Release
<1>2. /\ held' \in [Ops -> {"out", "waiting", "in", "done"}]
      /\ held'[o] = to /\ \A q \in Ops : q # o => held'[q] = held[q]
      /\ Raised' = Raised \ {o}
  BY <1>1, HeldMoves
<1>3. quiesce' = Cardinality(Raised')
  <2>1. CASE held[o] = "in"
    <3>1. o \in Raised
      BY <2>1 DEF Raised
    <3>2. quiesce # 0
      BY <2>1, InIsCounted
    <3>3. Cardinality(Raised') = Cardinality(Raised) - 1
      BY <1>2, <3>1, RaisedFinite, FS_RemoveElement
    <3> QED  BY <2>1, <3>2, <3>3, RaisedFinite DEF Release, Lowers, BoundInv
  <2>2. CASE held[o] # "in"
    <3>1. Raised' = Raised
      BY <1>2, <2>2 DEF Raised, Release
    <3> QED  BY <2>2, <3>1 DEF Release, Lowers, BoundInv
  <2> QED  BY <2>1, <2>2
<1>4. QuiesceIsBoundary'
  BY <1>1, <1>2 DEF BoundInv, QuiesceIsBoundary, Release, CycleFree
<1> QED  BY <1>2, <1>3, <1>4 DEF BoundInv

LEMMA BoundStep ==
    ASSUME BoundInv, Next PROVE BoundInv'
<1>1. CASE StartFull \/ StartAux
  <2>1. UNCHANGED lease /\ (CycleFree' \/ quiesce = 0)
    <3>1. quiesce \in Nat
      BY RaisedFinite DEF BoundInv
    <3>2. CASE StartFull
      <4>1. UNCHANGED lease /\ CycleFree /\ (quiesce > 0 => cycle' = cycle)
        BY <3>2 DEF StartFull
      <4> QED  BY <3>1, <4>1 DEF CycleFree
    <3>3. CASE StartAux
      BY <3>3 DEF StartAux
    <3> QED  BY <1>1, <3>2, <3>3
  <2> QED  BY <2>1, BoundCycle
<1>2. CASE Send \/ RouterReads \/ Fail \/ Finish \/ FinishAux \/ Emit
  <2>1. UNCHANGED lease /\ ~CycleFree
    BY <1>2 DEF Send, RouterReads, Fail, Finish, FinishAux, Emit, CycleFree
  <2> QED  BY <2>1, BoundCycle
<1>3. CASE \/ \E o \in Ops, s \in Shapes : Apply(o, s)
           \/ \E o \in Ops : RefreshAccess(o)
           \/ InterfacesAppear \/ SettleDelayPasses
           \/ CadencePasses(SlowSources \ {"aux"}) \/ CadencePasses({"aux"})
           \/ \E t \in Targets : RowChanges(t.key) \/ Add(t)
  <2>1. UNCHANGED <<lease, cycle>>
    BY <1>3 DEF Apply, RefreshAccess, InterfacesAppear, SettleDelayPasses, CadencePasses,
                RowChanges, Add
  <2> QED  BY <2>1, BoundCycle DEF CycleFree
<1>4. CASE Rediscover
  <2>1. UNCHANGED lease /\ (CycleFree' \/ ~CycleFree)
    BY <1>4 DEF Rediscover, CycleFree
  <2> QED  BY <2>1, BoundCycle
<1> QED
  BY <1>1, <1>2, <1>3, <1>4, BoundRaises, BoundReturns, BoundReleases DEF Next

-----------------------------------------------------------------------------
(* The records.                                                            *)

\* The cycle as it is, except for what one of its steps changes.
LEMMA CycleSame == ASSUME CycleOK, UNCHANGED cycle PROVE CycleOK'
BY DEF CycleOK

LEMMA CycleEmits == ASSUME cycle' = [pc |-> "emit"] \/ cycle' = Idle PROVE CycleOK'
BY DEF CycleOK

LEMMA CycleBegins ==
    ASSUME Types, NEW full \in BOOLEAN, NEW asked, cycle' = Begin(full, asked)
    PROVE  CycleOK'
BY DEF CycleOK, Begin, Types, Flight

\* dial hands the cycle a session, and never one with older grants than there are.
LEMMA SendSession ==
    ASSUME Types, GrantInv, Send
    PROVE  /\ cycle'.pc = "sent" /\ cycle'.full = cycle.full /\ cycle'.key = cycle.key
           /\ cycle'.client \in Sessions /\ cycle'.client.grants = grants
           /\ client' \in Sessions
           /\ client' # client => /\ client = NoSession /\ client' = cycle'.client
                                  /\ client'.key = cycle.key
           /\ cycle'.asked = IF cycle.full THEN BuildCalls ELSE cycle.asked
           /\ cycle'.freqIf = IF cycle.full THEN RadioTarget ELSE 0
           /\ cycle'.early = (refetch # "due")
           /\ DOMAIN cycle' = DOMAIN cycle
<1> DEFINE Opened == [key |-> cycle.key, grants |-> grants]
           used == IF cycle.client # NoSession THEN cycle.client
                   ELSE IF client # NoSession THEN client ELSE Opened
           asked == IF cycle.full THEN BuildCalls ELSE cycle.asked
<1>1. /\ cycle.pc = "dial"
      /\ client' = IF cycle.client = NoSession THEN used ELSE client
      /\ cycle' = [cycle EXCEPT !.pc = "sent", !.client = used, !.asked = asked,
                                !.freqIf = IF cycle.full THEN RadioTarget ELSE 0,
                                !.early = refetch # "due"]
  BY DEF Send
<1>2. /\ DOMAIN cycle = {"pc", "full", "client", "key", "asked", "freqIf", "early", "saw"}
      /\ cycle.client \in Sessions /\ cycle.key \in Keys
  BY <1>1 DEF Types, CycleOK, Idle
<1>3. Opened \in Sessions /\ Opened.grants = grants /\ Opened.key = cycle.key
  <2>1. grants \in 0..MaxEvents
    BY CollectorAssumption DEF Types
  <2> QED  BY <1>2, <2>1 DEF Sessions
<1> HIDE DEF Opened
<1>4. used \in Sessions /\ used.grants = grants
  BY <1>1, <1>2, <1>3 DEF Types, GrantInv
<1>5. /\ client' \in Sessions
      /\ client' # client => client = NoSession /\ client' = used /\ client'.key = cycle.key
  BY <1>1, <1>3, <1>4 DEF Types
<1> HIDE DEF used, asked
<1>6. /\ cycle'.pc = "sent" /\ cycle'.full = cycle.full /\ cycle'.key = cycle.key
      /\ cycle'.client = used /\ cycle'.asked = asked
      /\ cycle'.freqIf = (IF cycle.full THEN RadioTarget ELSE 0)
      /\ cycle'.early = (refetch # "due")
      /\ DOMAIN cycle' = DOMAIN cycle
  BY <1>1, <1>2
<1> QED  BY <1>4, <1>5, <1>6 DEF asked

LEMMA TypesSend == ASSUME Types, GrantInv, Send PROVE Types'
<1>1. CycleOK'
  <2>1. cycle.pc = "dial"
    BY DEF Send
  <2>2. /\ DOMAIN cycle = {"pc", "full", "client", "key", "asked", "freqIf", "early", "saw"}
        /\ cycle.key \in Keys /\ cycle.full \in BOOLEAN
    BY <2>1 DEF Types, CycleOK, Idle
  <2> QED  BY <2>2, SendSession DEF CycleOK, Flight
<1>2. client' \in Sessions
  BY SendSession
<1>3. due' \subseteq SlowSources
  BY DEF Types, Send
<1>4. crossed' \in BOOLEAN
  BY DEF Send
<1> QED
  BY <1>1, <1>2, <1>3, <1>4 DEF Types, Send, router, cadence

\* The router's reads, and a second look that comes too late for the poll.
LEMMA CycleFields ==
    ASSUME CycleOK, cycle.pc \in Flight
    PROVE  DOMAIN cycle = {"pc", "full", "client", "key", "asked", "freqIf", "early", "saw"}
BY DEF CycleOK, Idle, Flight

LEMMA ReadCycle ==
    ASSUME CycleOK, RouterReads
    PROVE  /\ cycle.pc = "sent" /\ cycle'.pc = "read" /\ cycle'.saw = live
           /\ \A f \in {"full", "client", "key", "asked", "freqIf", "early"} : cycle'[f] = cycle[f]
           /\ DOMAIN cycle' = DOMAIN cycle
BY CycleFields DEF RouterReads, Flight

LEMMA EarlyCycle ==
    ASSUME CycleOK, Rediscover
    PROVE  /\ cycle'.pc = cycle.pc
           /\ cycle.pc \in {"sent", "read"} => cycle'.early = TRUE
           /\ cycle.pc \notin {"sent", "read"} => cycle' = cycle
           /\ cycle.pc \in Flight =>
                 \A f \in {"full", "client", "key", "asked", "freqIf", "saw"} : cycle'[f] = cycle[f]
           /\ DOMAIN cycle' = DOMAIN cycle
<1>1. CASE cycle.pc \in {"sent", "read"}
  <2>1. cycle' = [cycle EXCEPT !.early = TRUE]
    BY <1>1 DEF Rediscover
  <2> QED  BY <1>1, <2>1, CycleFields DEF Flight
<1>2. CASE cycle.pc \notin {"sent", "read"}
  BY <1>2 DEF Rediscover
<1> QED  BY <1>1, <1>2

LEMMA OutsideCounts ==
    ASSUME Types, Outside PROVE events' \in 0..MaxEvents /\ grants \in 0..events' /\ grants + 1 \in 0..events'
BY CollectorAssumption DEF Types, Outside

LEMMA ForgetListOK ==
    ASSUME Types, cache' = ForgetList
    PROVE  /\ {"ifaces", "radio", "freq"} \subseteq DOMAIN cache'
           /\ {"known", "of"} \subseteq DOMAIN cache'.ifaces
           /\ cache'.ifaces.known = FALSE /\ cache'.ifaces.of = cache.ifaces.of
           /\ cache'.radio = cache.radio /\ cache'.freq = cache.freq
<1>1. cache' = [cache EXCEPT !.ifaces = [cache.ifaces EXCEPT !.known = FALSE]]
  BY DEF ForgetList
<1> QED  BY <1>1 DEF Types

LEMMA TypesCycle ==
    ASSUME Types, StartFull \/ StartAux \/ RouterReads \/ Fail \/ Finish \/ FinishAux \/ Emit
    PROVE  Types'
<1>1. CycleOK'
  <2>1. CASE StartFull
    BY <2>1, CycleSame, CycleBegins DEF Types, StartFull
  <2>2. CASE StartAux
    BY <2>2, CycleBegins DEF StartAux
  <2>3. CASE RouterReads
    BY <2>3, ReadCycle DEF Types, CycleOK, Flight, Idle
  <2>4. CASE Fail \/ Finish \/ FinishAux \/ Emit
    BY <2>4, CycleEmits DEF Fail, Finish, FinishAux, Emit
  <2> QED  BY <2>1, <2>2, <2>3, <2>4
<1>2. UNCHANGED <<target, row, grants, live, config, owed, events, crossed>>
  BY DEF StartFull, StartAux, RouterReads, Fail, Finish, FinishAux, Emit, session, router
<1>3. client' \in Sessions /\ fails' \in 0..2
  <2>1. CASE Fail
    BY <2>1 DEF Types, Sessions, Fail
  <2>2. CASE Finish
    BY <2>2 DEF Types, Finish, Succeed, session
  <2>3. CASE StartFull \/ StartAux \/ RouterReads \/ FinishAux \/ Emit
    BY <2>3 DEF Types, StartFull, StartAux, RouterReads, FinishAux, Emit, session
  <2> QED  BY <2>1, <2>2, <2>3
<1>4. wake' \in BOOLEAN
  BY DEF Types, StartFull, StartAux, RouterReads, Fail, Finish, FinishAux, Emit
<1>5. /\ due' \subseteq SlowSources /\ refetch' \in {None, "pending", "due"} /\ cutShort' \in BOOLEAN
      /\ {"ifaces", "radio", "freq"} \subseteq DOMAIN cache'
      /\ {"known", "of"} \subseteq DOMAIN cache'.ifaces
  <2>1. CASE Finish
    <3>1. PICK answered \in SUBSET Answerable :
            LET listRead == "ifaces" \in answered
                invRead == "inventory" \in answered
                told == [known |-> TRUE, of |-> cycle.saw]
            IN  /\ cache' = [ifaces |-> IF listRead THEN told ELSE cache.ifaces,
                             radio |-> IF invRead THEN told ELSE cache.radio,
                             freq |-> ReconciledFreq(answered)]
                /\ due' = (due \ (IF listRead THEN {"ifaces"} ELSE {}))
                          \union (IF invRead /\ ~SameIdentity(cycle.saw) THEN {"radio"} ELSE {})
                /\ refetch' = IF listRead /\ refetch = "due" THEN None ELSE refetch
                /\ cutShort' = (cutShort \/ (listRead /\ refetch = "due" /\ cycle.early))
      BY <2>1 DEF Finish
    <3>2. due' \subseteq SlowSources
      BY <3>1 DEF Types, SlowSources
    <3>3. refetch' \in {None, "pending", "due"} /\ cutShort' \in BOOLEAN
      BY <3>1 DEF Types
    <3>4. /\ {"ifaces", "radio", "freq"} \subseteq DOMAIN cache'
          /\ {"known", "of"} \subseteq DOMAIN cache'.ifaces
      BY <3>1 DEF Types
    <3> QED  BY <3>2, <3>3, <3>4
  <2>2. CASE ~Finish
    BY <2>2 DEF Types, StartFull, StartAux, RouterReads, Fail, FinishAux, Emit, cadence
  <2> QED  BY <2>1, <2>2
<1> QED  BY <1>1, <1>2, <1>3, <1>4, <1>5 DEF Types

LEMMA TypesOthers ==
    ASSUME Types,
           \/ \E o \in Ops : QuiesceRaises(o) \/ QuiesceReturns(o) \/ Release(o)
           \/ \E o \in Ops, s \in Shapes : Apply(o, s)
           \/ InterfacesAppear \/ SettleDelayPasses
           \/ CadencePasses(SlowSources \ {"aux"}) \/ CadencePasses({"aux"})
           \/ \E t \in Targets : RowChanges(t.key)
    PROVE  Types'
<1>1. UNCHANGED <<target, client, grants, cache, cycle, fails, cutShort, crossed>>
  BY DEF QuiesceRaises, QuiesceReturns, Release, Apply, InterfacesAppear, SettleDelayPasses,
         CadencePasses, RowChanges, session, router
<1>2. CycleOK'
  BY <1>1, CycleSame DEF Types
<1>3. events' \in 0..MaxEvents /\ grants' \in 0..events'
  BY <1>1, OutsideCounts
     DEF Types, QuiesceRaises, QuiesceReturns, Release, Apply, InterfacesAppear, SettleDelayPasses,
         CadencePasses, RowChanges
<1>4. row' \in Keys
  BY DEF Types, Keys, QuiesceRaises, QuiesceReturns, Release, Apply, InterfacesAppear,
         SettleDelayPasses, CadencePasses, RowChanges, router
<1>5. live' \subseteq Ifaces /\ config' \in Shapes /\ owed' \in BOOLEAN
  BY DEF Types, Ifaces, QuiesceRaises, QuiesceReturns, Release, Apply, InterfacesAppear,
         SettleDelayPasses, CadencePasses, RowChanges, router
<1>6. due' \subseteq SlowSources /\ refetch' \in {None, "pending", "due"}
  BY DEF Types, SlowSources, QuiesceRaises, QuiesceReturns, Release, Apply, InterfacesAppear,
         SettleDelayPasses, CadencePasses, RowChanges, cadence
<1>7. wake' \in BOOLEAN
  BY DEF Types, QuiesceRaises, QuiesceReturns, Release, Apply, InterfacesAppear,
         SettleDelayPasses, CadencePasses, RowChanges
<1> QED  BY <1>1, <1>2, <1>3, <1>4, <1>5, <1>6, <1>7 DEF Types

\* Rediscover, Add and RefreshAccess forget the interface list.
LEMMA TypesForget ==
    ASSUME Types,
           Rediscover \/ (\E t \in Targets : Add(t)) \/ \E o \in Ops : RefreshAccess(o)
    PROVE  Types'
<1>1. cache' = ForgetList \/ UNCHANGED cache
  BY DEF Rediscover, Add, RefreshAccess
<1>2. /\ {"ifaces", "radio", "freq"} \subseteq DOMAIN cache'
      /\ {"known", "of"} \subseteq DOMAIN cache'.ifaces
  BY <1>1, ForgetListOK DEF Types
<1>3. CycleOK'
  BY CycleSame, EarlyCycle DEF Types, CycleOK, Flight, Idle, Rediscover, Add, RefreshAccess
<1>4. events' \in 0..MaxEvents /\ grants' \in 0..events'
  BY OutsideCounts DEF Types, Rediscover, Add, RefreshAccess, router
<1>5. target' \in Targets /\ client' \in Sessions /\ row' \in Keys
  BY DEF Types, Sessions, Rediscover, Add, RefreshAccess, SessionAfterAdd, session, router
<1>6. /\ UNCHANGED <<live, config, fails, crossed>> /\ owed' \in BOOLEAN
      /\ wake' \in BOOLEAN /\ cutShort' \in BOOLEAN
  BY DEF Types, Rediscover, Add, RefreshAccess, router
<1>7. due' \subseteq SlowSources /\ refetch' \in {None, "pending", "due"}
  BY DEF Types, SlowSources, Rediscover, SecondLook, Add, RefreshAccess, cadence
<1> QED  BY <1>2, <1>3, <1>4, <1>5, <1>6, <1>7 DEF Types

LEMMA TypesStep ==
    ASSUME Types, GrantInv, Next PROVE Types'
BY TypesSend, TypesCycle, TypesOthers, TypesForget DEF Next

-----------------------------------------------------------------------------
(* Sessions and grants.                                                    *)

LEMMA GrantStep ==
    ASSUME IndInv, Next PROVE GrantInv' /\ SessionIsCurrent'
<1> USE DEF IndInv
<1>1. CASE StartFull \/ StartAux
  <2>1. UNCHANGED <<client, target, row, grants, crossed>>
    BY <1>1 DEF StartFull, StartAux, session, router
  <2>2. cycle' = cycle \/ (cycle'.pc = "dial" /\ cycle'.client = client)
    BY <1>1 DEF StartFull, StartAux, Begin
  <2> QED  BY <2>1, <2>2 DEF GrantInv, SessionIsCurrent
<1>2. CASE Send
  <2>1. UNCHANGED <<target, row, grants>> /\ crossed' = (crossed \/ (client' # client /\ cycle.key # row))
    BY <1>2 DEF Send, router
  <2> QED  BY <1>2, <2>1, SendSession DEF GrantInv, SessionIsCurrent
<1>3. CASE RouterReads
  BY <1>3, ReadCycle DEF GrantInv, SessionIsCurrent, RouterReads, session, router, Types
<1>4. CASE Fail \/ Finish \/ FinishAux \/ Emit
  <2>1. UNCHANGED <<target, row, grants, crossed>> /\ client' \in {client, NoSession}
    BY <1>4 DEF Fail, Finish, FinishAux, Emit, session, router
  <2>2. cycle'.pc \notin Flight
    BY <1>4 DEF Fail, Finish, FinishAux, Emit, Idle, Flight
  <2> QED  BY <2>1, <2>2 DEF GrantInv, SessionIsCurrent, Flight
<1>5. CASE Rediscover
  <2>1. UNCHANGED <<target, client, row, grants, crossed>>
    BY <1>5 DEF Rediscover, session
  <2> QED  BY <1>5, <2>1, EarlyCycle DEF GrantInv, SessionIsCurrent, Types, Flight
<1>6. CASE \/ \E o \in Ops : QuiesceRaises(o) \/ QuiesceReturns(o) \/ Release(o)
           \/ \E o \in Ops, s \in Shapes : Apply(o, s)
           \/ InterfacesAppear \/ SettleDelayPasses
           \/ CadencePasses(SlowSources \ {"aux"}) \/ CadencePasses({"aux"})
  <2>1. UNCHANGED <<target, client, row, grants, crossed, cycle>>
    BY <1>6 DEF QuiesceRaises, QuiesceReturns, Release, Apply, InterfacesAppear, SettleDelayPasses,
                CadencePasses, session, router
  <2> QED  BY <2>1 DEF GrantInv, SessionIsCurrent
<1>7. CASE \E t \in Targets : RowChanges(t.key)
  BY <1>7 DEF RowChanges, session, GrantInv, SessionIsCurrent
<1>8. CASE \E t \in Targets : Add(t)
  BY <1>8 DEF Add, SessionAfterAdd, router, GrantInv, SessionIsCurrent
<1>9. CASE \E o \in Ops : RefreshAccess(o)
  <2>1. CycleFree
    BY <1>9 DEF RefreshAccess, BoundInv, QuiesceIsBoundary
  <2>2. client' = NoSession /\ UNCHANGED cycle
    BY <1>9 DEF RefreshAccess
  <2> QED  BY <2>1, <2>2 DEF GrantInv, SessionIsCurrent, CycleFree
<1> QED
  BY <1>1, <1>2, <1>3, <1>4, <1>5, <1>6, <1>7, <1>8, <1>9 DEF Next

-----------------------------------------------------------------------------
(* The frequency list.                                                     *)

LEMMA FreqStep ==
    ASSUME IndInv, Next PROVE FreqInv' /\ KnownIsAnswered'
<1> USE DEF IndInv
<1>1. CASE StartFull \/ StartAux
  <2>1. /\ UNCHANGED cache
        /\ cycle' = cycle \/ (cycle'.pc = "dial" /\ cycle'.asked \in {{}, {"aux"}})
    BY <1>1 DEF StartFull, StartAux, Begin
  <2> QED  BY <2>1 DEF FreqInv, KnownIsAnswered
<1>2. CASE Send
  <2>1. UNCHANGED cache
    BY <1>2 DEF Send
  <2>2. cycle'.asked = IF cycle.full THEN BuildCalls ELSE cycle.asked
    BY <1>2, SendSession
  <2>3. cycle'.freqIf = IF cycle.full THEN RadioTarget ELSE 0
    BY <1>2, SendSession
  <2>4. cycle.full /\ "freq" \in cycle'.asked => RadioTarget # 0
    BY <2>2 DEF BuildCalls
  <2>5. ~cycle.full => "freq" \notin cycle.asked
    BY <1>2 DEF FreqInv, Send
  <2>6. cycle'.pc = "sent"
    BY <1>2, SendSession
  <2> QED  BY <2>1, <2>2, <2>3, <2>4, <2>5, <2>6 DEF FreqInv, KnownIsAnswered, RadioTarget
<1>3. CASE RouterReads
  BY <1>3, ReadCycle DEF RouterReads, Types, FreqInv, KnownIsAnswered
<1>4. CASE Finish
  <2>1. PICK answered \in SUBSET Answerable :
          /\ cache'.radio = IF "inventory" \in answered
                            THEN [known |-> TRUE, of |-> cycle.saw] ELSE cache.radio
          /\ cache'.freq = ReconciledFreq(answered)
    BY <1>4 DEF Finish
  <2>2. cycle'.pc = "emit" /\ cycle.pc = "read"
    BY <1>4 DEF Finish
  <2>3. "freq" \in answered => "freq" \in cycle.asked
    BY <2>1 DEF Answerable
  <2>4. CASE cache'.freq # 0
    <3>1. "inventory" \in answered => SameIdentity(cycle.saw)
      BY <2>1, <2>4 DEF ReconciledFreq
    <3>2. cache'.freq = cache.freq \/ ("freq" \in answered /\ cache'.freq = cycle.freqIf)
      BY <2>1, <2>4 DEF ReconciledFreq
    <3>3. cache.radio.known /\ cache'.freq = Preferred(cache.radio.of)
      BY <2>2, <2>3, <2>4, <3>2 DEF FreqInv, KnownIsAnswered
    <3>4. CASE "inventory" \in answered
      <4>1. Preferred(cache.radio.of) = Preferred(cycle.saw)
        BY <3>1, <3>4 DEF SameIdentity
      <4>2. cache'.radio.known /\ cache'.radio.of = cycle.saw
        BY <2>1, <3>4
      <4> QED  BY <2>2, <3>3, <4>1, <4>2 DEF FreqInv, KnownIsAnswered, Preferred
    <3>5. CASE "inventory" \notin answered
      BY <2>1, <2>2, <3>3, <3>5 DEF FreqInv, KnownIsAnswered
    <3> QED  BY <3>4, <3>5
  <2> QED  BY <2>2, <2>4 DEF FreqInv, KnownIsAnswered
<1>5. CASE Fail \/ FinishAux \/ Emit
  <2>1. UNCHANGED cache /\ cycle'.pc \notin Flight
    BY <1>5 DEF Fail, FinishAux, Emit, Idle, Flight
  <2> QED  BY <2>1 DEF FreqInv, KnownIsAnswered, Flight
<1>6. CASE Rediscover
  BY <1>6, EarlyCycle, ForgetListOK DEF Rediscover, Types, FreqInv, KnownIsAnswered, Flight
<1>7. CASE \/ \E t \in Targets : Add(t)
           \/ \E o \in Ops : RefreshAccess(o)
  <2>1. UNCHANGED cycle /\ (UNCHANGED cache \/ cache' = ForgetList)
    BY <1>7 DEF Add, RefreshAccess
  <2>2. UNCHANGED <<cycle, cache.radio, cache.freq>>
    BY <2>1, ForgetListOK
  <2> QED  BY <2>2 DEF FreqInv, KnownIsAnswered
<1>8. CASE \/ \E o \in Ops : QuiesceRaises(o) \/ QuiesceReturns(o) \/ Release(o)
           \/ \E o \in Ops, s \in Shapes : Apply(o, s)
           \/ InterfacesAppear \/ SettleDelayPasses
           \/ CadencePasses(SlowSources \ {"aux"}) \/ CadencePasses({"aux"})
           \/ \E t \in Targets : RowChanges(t.key)
  <2>1. UNCHANGED <<cycle, cache>>
    BY <1>8 DEF QuiesceRaises, QuiesceReturns, Release, Apply, InterfacesAppear, SettleDelayPasses,
                CadencePasses, RowChanges
  <2> QED  BY <2>1 DEF FreqInv, KnownIsAnswered
<1> QED
  BY <1>1, <1>2, <1>3, <1>4, <1>5, <1>6, <1>7, <1>8 DEF Next

-----------------------------------------------------------------------------
(* The interface list.                                                     *)

LEMMA LookStep ==
    ASSUME IndInv, Next PROVE LookInv' /\ SettledList'
<1> USE DEF IndInv
<1>1. CASE StartFull \/ StartAux
  <2>1. UNCHANGED <<cache, refetch, owed, live, config, cutShort>> /\ due' \in {due, due \ {"aux"}}
    BY <1>1 DEF StartFull, StartAux, router, cadence
  <2>2. cycle' = cycle \/ cycle'.pc = "dial"
    BY <1>1 DEF StartFull, StartAux, Begin
  <2> QED  BY <2>1, <2>2 DEF LookInv, SettledList
<1>2. CASE Send
  <2>1. UNCHANGED <<cache, refetch, owed, live, config, cutShort>>
    BY <1>2 DEF Send, router
  <2>2. cycle'.pc = "sent" /\ cycle'.early = (refetch # "due")
    BY <1>2, SendSession
  <2>3. "ifaces" \in due => "ifaces" \in due'
    BY <1>2 DEF Send, Attempted
  <2>4. LookInv'
    BY <2>1, <2>2 DEF LookInv
  <2> QED  BY <2>1, <2>3, <2>4 DEF SettledList
<1>3. CASE RouterReads
  <2>1. UNCHANGED <<cache, refetch, due, owed, live, config, cutShort>>
    BY <1>3 DEF RouterReads, router, cadence
  <2> QED  BY <1>3, <2>1, ReadCycle DEF Types, LookInv, SettledList
<1>4. CASE Finish
  <2>1. PICK answered \in SUBSET Answerable :
          /\ cache'.ifaces = IF "ifaces" \in answered
                             THEN [known |-> TRUE, of |-> cycle.saw] ELSE cache.ifaces
          /\ "ifaces" \in due' <=> "ifaces" \in due /\ "ifaces" \notin answered
          /\ refetch' = IF "ifaces" \in answered /\ refetch = "due" THEN None ELSE refetch
          /\ cutShort' = (cutShort \/ ("ifaces" \in answered /\ refetch = "due" /\ cycle.early))
    BY <1>4 DEF Finish
  <2>2. UNCHANGED <<owed, live, config>> /\ cycle'.pc = "emit" /\ cycle.pc = "read"
    BY <1>4 DEF Finish, router
  <2>3. CASE "ifaces" \in answered
    <3>1. cache'.ifaces.of = cycle.saw
      BY <2>1, <2>3
    <3>2. ~owed /\ refetch' = None => cycle.saw = live \/ cutShort'
      BY <2>1, <2>2, <2>3 DEF LookInv, Types
    <3>3. ~owed /\ refetch' = None => live = config \/ cutShort'
      BY <2>1, <2>2, <2>3 DEF LookInv, Types
    <3>4. LookInv'
      BY <2>1, <2>2, <2>3, <3>3 DEF LookInv, None
    <3> QED  BY <2>2, <3>1, <3>2, <3>4 DEF SettledList
  <2>4. CASE "ifaces" \notin answered
    BY <2>1, <2>2, <2>4 DEF LookInv, SettledList, Types
  <2> QED  BY <2>3, <2>4
<1>5. CASE Fail \/ FinishAux \/ Emit
  <2>1. UNCHANGED <<cache, refetch, due, owed, live, config, cutShort>> /\ cycle'.pc \notin Flight
    BY <1>5 DEF Fail, FinishAux, Emit, Idle, Flight, router, cadence
  <2> QED  BY <2>1 DEF LookInv, SettledList, Flight
<1>6. CASE Rediscover
  <2>1. refetch' = "pending" /\ UNCHANGED <<live, config>>
    BY <1>6 DEF Rediscover, SecondLook
  <2> QED  BY <1>6, <2>1, EarlyCycle DEF Types, LookInv, SettledList, None
<1>7. CASE \E o \in Ops, s \in Shapes : Apply(o, s)
  <2>1. owed' = TRUE
    BY <1>7 DEF Apply
  <2> QED  BY <2>1 DEF LookInv, SettledList
<1>8. CASE InterfacesAppear
  <2>1. UNCHANGED <<cache, refetch, due, owed, config, cutShort, cycle>> /\ live # config /\ live' = config
    BY <1>8 DEF InterfacesAppear, cadence
  <2> QED  BY <2>1 DEF LookInv, SettledList
<1>9. CASE SettleDelayPasses
  <2>1. /\ UNCHANGED <<cache, due, owed, live, config, cutShort, cycle>>
        /\ refetch' = "due" /\ live = config
    BY <1>9 DEF SettleDelayPasses, router
  <2> QED  BY <2>1 DEF LookInv, SettledList, None
<1>10. CASE \/ \E t \in Targets : Add(t)
            \/ \E o \in Ops : RefreshAccess(o)
  <2>1. UNCHANGED <<owed, live, config, cycle>>
    BY <1>10 DEF Add, RefreshAccess, router
  <2>2. \/ UNCHANGED <<cache, refetch, due, cutShort>>
        \/ /\ "ifaces" \in due' /\ refetch' = None
           /\ cutShort' = (cutShort \/ refetch # None)
    BY <1>10 DEF Add, RefreshAccess, cadence, SlowSources
  <2> QED  BY <2>1, <2>2 DEF LookInv, SettledList, Types, None
<1>11. CASE \/ \E o \in Ops : QuiesceRaises(o) \/ QuiesceReturns(o) \/ Release(o)
            \/ CadencePasses(SlowSources \ {"aux"}) \/ CadencePasses({"aux"})
            \/ \E t \in Targets : RowChanges(t.key)
  <2>1. UNCHANGED <<cache, refetch, owed, live, config, cutShort, cycle>> /\ due \subseteq due'
    BY <1>11 DEF QuiesceRaises, QuiesceReturns, Release, CadencePasses, RowChanges, router, cadence
  <2> QED  BY <2>1 DEF LookInv, SettledList
<1> QED
  BY <1>1, <1>2, <1>3, <1>4, <1>5, <1>6, <1>7, <1>8, <1>9, <1>10, <1>11 DEF Next

-----------------------------------------------------------------------------
LEMMA IndInvStep == IndInv /\ [Next]_vars => IndInv'
<1> SUFFICES ASSUME IndInv, [Next]_vars PROVE IndInv'
  OBVIOUS
<1>1. CASE Next
  BY <1>1, TypesStep, BoundStep, LookStep, FreqStep, GrantStep DEF IndInv
<1>2. CASE UNCHANGED vars
  <2>1. Types' /\ BoundInv'
    <3>1. UNCHANGED Raised
      BY <1>2 DEF vars, lease, Raised
    <3> QED  BY <1>2, <3>1 DEF IndInv, Types, CycleOK, BoundInv, QuiesceIsBoundary, CycleFree,
                                vars, session, router, lease, cadence
  <2>2. LookInv' /\ FreqInv' /\ GrantInv'
    BY <1>2 DEF IndInv, LookInv, FreqInv, GrantInv, vars, session, router, cadence
  <2>3. SettledList' /\ KnownIsAnswered' /\ SessionIsCurrent'
    BY <1>2 DEF IndInv, SettledList, KnownIsAnswered, SessionIsCurrent, vars, session, router, cadence
  <2> QED  BY <2>1, <2>2, <2>3 DEF IndInv
<1> QED  BY <1>1, <1>2

\* Every reachable state of the poller satisfies the inductive invariant.
LEMMA IndInvAlways == Spec => []IndInv
BY InitInv, IndInvStep, PTL DEF Spec

(* However many callers quiesce the poller, and however often a release    *)
(* function is called (collector.go, addQuiesce and tick): from the return *)
(* of Quiesce to the release no poll is in flight or being published.      *)
THEOREM CollectorQuiesceIsBoundary == Spec => []QuiesceIsBoundary
<1>1. IndInv => QuiesceIsBoundary
  BY DEF IndInv, BoundInv
<1> QED  BY <1>1, IndInvAlways, PTL

(* For any targets, logins and access refreshes (collector.go, Add, dial,  *)
(* RefreshAccess): no poll runs on grants older than the last refresh, and *)
(* a session outlives its endpoint and credential only if its login was    *)
(* under way while they were replaced.                                     *)
THEOREM CollectorSessionIsCurrent == Spec => []SessionIsCurrent
<1>1. IndInv => SessionIsCurrent
  BY DEF IndInv
<1> QED  BY <1>1, IndInvAlways, PTL

(* For any interfaces, applies and polls (collector.go, Rediscover,        *)
(* reconcileRadios): the cached interface list is the one the router       *)
(* settled on, unless its second look was cancelled or pre-empted, and a   *)
(* frequency list is of the radio it is filed under.                       *)
THEOREM CollectorCacheIsCurrent == Spec => []CacheIsCurrent
<1>1. IndInv => CacheIsCurrent
  <2> SUFFICES ASSUME IndInv PROVE TypeOK
    BY DEF IndInv, CacheIsCurrent
  <2>1. Types /\ BoundInv
    BY DEF IndInv
  <2>2. quiesce \in 0..Cardinality(Ops)
    BY <2>1, RaisedFinite DEF BoundInv
  <2>3. cycle.pc \in {"idle", "dial", "sent", "read", "emit"}
    BY <2>1 DEF Types, CycleOK, Idle, Flight
  <2>4. client = NoSession \/ client \in [key : {t.key : t \in Targets}, grants : 0..MaxEvents]
    BY <2>1 DEF Types, Sessions, Keys
  <2>5. {wake, owed, cutShort, crossed} \subseteq BOOLEAN
    BY <2>1 DEF Types
  <2>6. held \in [Ops -> {"out", "waiting", "in", "done"}]
    BY <2>1 DEF BoundInv
  <2> QED  BY <2>1, <2>2, <2>3, <2>4, <2>5, <2>6 DEF Types, TypeOK, Keys
<1> QED  BY <1>1, IndInvAlways, PTL

-----------------------------------------------------------------------------
(***************************************************************************)
(* Fleet for any routers, polls, deletions and restarts, and any size of   *)
(* ring and of window. FleetOwn lists who may own what at each step of     *)
(* deleteDevice; FleetClocks orders the baselines by boot and time, which  *)
(* is what makes the uptime test see every restart; FleetLadder says which *)
(* hours already count their rows, which is why pruning loses none of      *)
(* them.                                                                   *)
(***************************************************************************)

\* The rank of an index among those kept counts up to their number, so that
\* each place of the kept sequence is filled.
LEMMA KeptIn ==
    ASSUME NEW E, NEW s \in Seq(E), NEW K, K \subseteq DOMAIN s,
           NEW D, \A i \in K : s[i] \in D
    PROVE  Kept(s, K) \in Seq(D)
<1>1. IsFiniteSet(K) /\ K \subseteq Nat
  <2>1. DOMAIN s = 1 .. Len(s) /\ Len(s) \in Nat
    OBVIOUS
  <2>2. IsFiniteSet(1 .. Len(s))
    BY <2>1, FS_Interval
  <2>3. IsFiniteSet(K)
    BY <2>1, <2>2, FS_Subset
  <2> QED  BY <2>1, <2>3
<1>2. PICK n \in Nat : n = Cardinality(K)
  BY <1>1, FS_CardinalityType
<1>3. PICK rank : rank = [i \in K |-> Cardinality({h \in K : h <= i})]
  OBVIOUS
<1>4. \A i \in K : rank[i] \in 1..n
  <2>1. SUFFICES ASSUME NEW i \in K
                 PROVE  Cardinality({h \in K : h <= i}) \in 1..n
    BY <1>3
  <2>2. PICK B : B = {h \in K : h <= i}
    OBVIOUS
  <2>3. B \subseteq K /\ i \in B
    BY <1>1, <2>2
  <2>4. IsFiniteSet(B) /\ Cardinality(B) <= n
    BY <1>1, <1>2, <2>3, FS_Subset
  <2>5. Cardinality(B) \in Nat /\ Cardinality(B) # 0
    BY <2>3, <2>4, FS_CardinalityType, FS_EmptySet
  <2> QED  BY <2>2, <2>4, <2>5
<1>5. \A i, j \in K : i < j => rank[i] < rank[j]
  <2>1. SUFFICES ASSUME NEW i \in K, NEW j \in K, i < j
                 PROVE  rank[i] < rank[j]
    OBVIOUS
  <2>2. PICK B, C : B = {h \in K : h <= i} /\ C = {h \in K : h <= j}
    OBVIOUS
  <2>3. B \subseteq C /\ B # C
    BY <1>1, <2>1, <2>2
  <2>4. IsFiniteSet(C)
    BY <1>1, <2>2, FS_Subset
  <2>5. IsFiniteSet(B) /\ Cardinality(B) <= Cardinality(C) /\ (Cardinality(B) = Cardinality(C) => B = C)
    BY <2>3, <2>4, FS_Subset
  <2>6. Cardinality(B) \in Nat /\ Cardinality(C) \in Nat
    BY <2>4, <2>5, FS_CardinalityType
  <2> QED  BY <1>3, <2>2, <2>3, <2>5, <2>6
<1>6. \A i, j \in K : rank[i] = rank[j] => i = j
  <2>1. SUFFICES ASSUME NEW i \in K, NEW j \in K, i # j
                 PROVE  rank[i] # rank[j]
    OBVIOUS
  <2>2. rank[i] \in Nat /\ rank[j] \in Nat
    BY <1>4
  <2>3. i < j \/ j < i
    BY <1>1, <2>1
  <2> QED  BY <1>5, <2>2, <2>3
<1>7. rank \in Injection(K, 1..n)
  BY <1>3, <1>4, <1>6 DEF Injection, IsInjective
<1>8. rank \in Surjection(K, 1..n)
  <2>1. IsFiniteSet(1..n) /\ Cardinality(1..n) = n
    BY FS_Interval
  <2> QED  BY <1>2, <1>7, <2>1, FS_Injection
<1>9. \A k \in 1..n : \E i \in K : Cardinality({h \in K : h <= i}) = k
  BY <1>3, <1>8 DEF Surjection
<1>10. \A k \in 1..n : s[CHOOSE i \in K : Cardinality({h \in K : h <= i}) = k] \in D
  <2>1. SUFFICES ASSUME NEW k \in 1..n
                 PROVE  s[CHOOSE i \in K : Cardinality({h \in K : h <= i}) = k] \in D
    OBVIOUS
  <2>2. (CHOOSE i \in K : Cardinality({h \in K : h <= i}) = k) \in K
    BY <1>9
  <2> QED  BY <2>2
<1>11. Kept(s, K) \in [1..n -> D]
  BY <1>2, <1>10 DEF Kept
<1> QED  BY <1>11

LEMMA KeptFacts ==
    ASSUME NEW D, NEW s \in Seq(D), NEW K, K \subseteq DOMAIN s
    PROVE  Kept(s, K) \in Seq(D)
<1>1. \A i \in K : s[i] \in D
  OBVIOUS
<1> QED  BY <1>1, KeptIn

-----------------------------------------------------------------------------
Readings == [r : Routers, boot : Nat, uptime : Nat, at : Nat]
Snaps == [r : Routers, at : Nat, boot : Nat, uptime : Nat, kind : {"full", "failed", "aux"}]

FleetTypes ==
    /\ now \in Nat
    /\ holder \in Routers \cup {NoRouter} /\ poller \in Routers \cup {NoRouter}
    /\ ring \in Seq([r : Routers, w : Nat])
    /\ seen \in Readings \cup {NoBase} /\ base \in {seen, NoBase}
    /\ boot \in [Routers -> [n : Nat, at : Int]]
    /\ \A r \in Routers : boot[r].at <= now
    /\ snap \in Snaps \cup {NoSnap}
    /\ retrack \in Routers \cup {NoRouter} /\ series \in BOOLEAN

\* The row is gone and the process has not yet forgotten what it kept.
Unpurged == holder = NoRouter /\ del = "removed"
Deleting == del \in {"removed", "purged"}
Own(r) == r \in {holder, NoRouter} \/ Unpurged

FleetOwn ==
    /\ Deleting => lifecycle = "delete" /\ holder = NoRouter
    /\ tick.next = "write" => lifecycle = "flush"
    /\ batch # {} => tick.next = "write"
    /\ holder = NoRouter => ~series
    /\ snap.kind \in {"full", "aux"} => snap.r = holder
    /\ snap.kind = "failed" /\ ~revived => snap.r = holder
    /\ ~revived => poller \in {holder, NoRouter}
    /\ \A i \in DOMAIN ring : Own(ring[i].r)
    /\ Own(base.r) /\ Own(seen.r) /\ Own(liveState) /\ Own(position) /\ cursor \in {holder, NoRouter}
    /\ ~revived => Own(sink) /\ Own(aliases)
    /\ \A x \in batch : x.of = {holder}
    /\ ~unswept /\ series => \A x \in five \cup hour : x.of = {holder}
    /\ ~unswept /\ ~series => Deleting \/ (five = {} /\ hour = {})

FleetInv == FleetTypes /\ FleetOwn

LEMMA FleetStart == FleetInit => FleetInv
<1> SUFFICES ASSUME FleetInit PROVE FleetInv
  OBVIOUS
<1> USE DEF FleetInit, TelemetryInit
<1>1. FleetTypes
  <2>1. boot \in [Routers -> [n : Nat, at : Int]] /\ \A r \in Routers : boot[r].at <= now
    BY DEF FleetTypes
  <2>2. <<>> \in Seq([r : Routers, w : Nat])
    OBVIOUS
  <2>3. ring = <<>> /\ seen = NoBase /\ base = NoBase /\ snap = NoSnap /\ now = 0 /\ retrack = NoRouter /\ series = FALSE
    OBVIOUS
  <2>4. holder \in Routers /\ poller = holder
    OBVIOUS
  <2> QED  BY ONLY <2>1, <2>2, <2>3, <2>4 DEF FleetTypes
<1>2. FleetOwn
  BY DEF FleetOwn, Own, Deleting, NoSnap, NoTick, NoBase
<1> QED  BY <1>1, <1>2 DEF FleetInv

LEMMA SeqElems ==
    ASSUME NEW D, NEW s \in Seq(D)
    PROVE  \A i \in DOMAIN s : s[i] \in D
OBVIOUS

LEMMA SeqRetyped ==
    ASSUME NEW D, NEW E, NEW s \in Seq(D), \A i \in DOMAIN s : s[i] \in E
    PROVE  s \in Seq(E)
<1>1. Len(s) \in Nat /\ DOMAIN s = 1..Len(s) /\ s = [i \in 1..Len(s) |-> s[i]]
  OBVIOUS
<1>2. s \in [1..Len(s) -> E]
  BY <1>1
<1> QED  BY <1>1, <1>2

LEMMA SampledFacts ==
    ASSUME NEW D, ring \in Seq(D), NEW s, [r |-> s.r, w |-> s.at] \in D
    PROVE  Sampled(s) \in Seq(D)
<1>1. PICK x \in D : x = [r |-> s.r, w |-> s.at]
  OBVIOUS
<1>2. Append(ring, x) \in Seq(D) /\ Len(Append(ring, x)) > 0
  OBVIOUS
<1>3. Append(ring, x) # <<>>
  BY <1>2
<1>4. Tail(Append(ring, x)) \in Seq(D)
  BY <1>2, <1>3
<1> QED  BY <1>1, <1>2, <1>4 DEF Sampled

\* While the holder is in the inventory every sample is its own.
LEMMA RingOwned ==
    ASSUME FleetInv, ~Unpurged
    PROVE  ring \in Seq([r : {holder}, w : Nat])
<1>1. ring \in Seq([r : Routers, w : Nat])
  BY DEF FleetInv, FleetTypes
<1>2. \A i \in DOMAIN ring : ring[i] \in [r : Routers, w : Nat]
  BY <1>1, SeqElems
<1>3. \A i \in DOMAIN ring : ring[i].r \in {holder, NoRouter}
  BY DEF FleetInv, FleetOwn, Own
<1>4. \A i \in DOMAIN ring : ring[i] \in [r : {holder}, w : Nat]
  BY <1>2, <1>3, TelemetryAssumption
<1> QED  BY <1>1, <1>4, SeqRetyped

\* ... and so it is after a sample is appended or the completed ones have gone.
LEMMA RowsOwned ==
    ASSUME NEW h, NEW s \in Seq([r : {h}, w : Nat])
    PROVE  \A i \in DOMAIN s : s[i].r = h
<1>1. \A i \in DOMAIN s : s[i] \in [r : {h}, w : Nat]
  BY SeqElems
<1> QED  BY <1>1

LEMMA FleetStep == FleetInv /\ [FleetNext]_fleetVars => FleetInv'
<1> SUFFICES ASSUME FleetInv, [FleetNext]_fleetVars PROVE FleetInv'
  OBVIOUS
<1>0. NoRouter \notin Routers
  BY TelemetryAssumption
<1> USE <1>0 DEF FleetInv, telemetry, fleet, control, ingested, memory, ladder
<1>1. ASSUME Advance PROVE FleetInv'
  <2>1. FleetTypes'
    <3>1. now' = now + 1 /\ UNCHANGED <<holder, poller, ring, seen, base, boot, snap, retrack, series>>
      BY <1>1 DEF Advance
    <3>2. \A r \in Routers : boot'[r].at <= now'
      <4>1. \A r \in Routers : boot[r] \in [n : Nat, at : Int] /\ boot[r].at <= now /\ now \in Nat
        BY DEF FleetTypes
      <4> QED  BY <3>1, <4>1
    <3> QED  BY <3>1, <3>2 DEF FleetTypes
  <2>2. FleetOwn'
    BY <1>1 DEF FleetTypes, FleetOwn, Own, Unpurged, Deleting, Advance
  <2> QED  BY <2>1, <2>2
<1>2. ASSUME NEW r \in Routers, Reboot(r) PROVE FleetInv'
  <2>1. FleetTypes'
    <3>1. PICK x : x = [n |-> boot[r].n + 1, at |-> now]
      OBVIOUS
    <3>2. boot[r] \in [n : Nat, at : Int] /\ now \in Nat
      BY DEF FleetTypes
    <3>3. x \in [n : Nat, at : Int] /\ x.at = now
      BY <3>1, <3>2
    <3>4. boot' = [boot EXCEPT ![r] = x] /\ UNCHANGED telemetry /\ UNCHANGED <<poller, snap, retrack>>
      BY <1>2, <3>1 DEF Reboot
    <3>5. boot' \in [Routers -> [n : Nat, at : Int]] /\ \A q \in Routers : boot'[q].at <= now
      BY <3>3, <3>4 DEF FleetTypes
    <3> QED  BY <3>4, <3>5 DEF FleetTypes
  <2>2. FleetOwn'
    <3>1. /\ UNCHANGED <<holder, series, ring, base, seen, batch, five, hour, tick, lifecycle>>
          /\ UNCHANGED <<poller, del, revived, unswept, snap, liveState, sink, aliases, position, cursor>>
      BY <1>2 DEF Reboot
    <3> QED  BY <3>1 DEF FleetOwn, Own, Unpurged, Deleting
  <2> QED  BY <2>1, <2>2
<1>3. ASSUME NEW r \in Routers, Register(r) PROVE FleetInv'
  <2>1. FleetTypes'
    BY <1>3 DEF FleetTypes, Register, LifecycleFree
  <2>2. FleetOwn'
    <3>1. ~Unpurged /\ ~Deleting /\ batch = {} /\ holder = NoRouter
      BY <1>3 DEF FleetOwn, Unpurged, Deleting, Register, LifecycleFree
    <3>2. ring = <<>> /\ cursor = NoRouter
      BY <3>1, RingOwned, TelemetryAssumption DEF FleetOwn, Own, FleetTypes
    <3>3. ~series /\ base.r = NoRouter /\ seen.r = NoRouter /\ liveState = NoRouter /\ position = NoRouter
          /\ (~revived => sink = NoRouter /\ aliases = NoRouter)
      BY <3>1 DEF FleetOwn, Own
    <3>4. snap.kind \notin {"full", "aux"} /\ (~revived => snap.kind # "failed")
      BY <3>1, TelemetryAssumption DEF FleetOwn, FleetTypes, Snaps, NoSnap
    <3> QED  BY <1>3, <3>1, <3>2, <3>3, <3>4 DEF FleetOwn, Own, Unpurged, Deleting, Register
  <2> QED  BY <2>1, <2>2
<1>4. ASSUME NEW kind \in {"full", "failed", "aux"}, Poll(kind) PROVE FleetInv'
  <2>1. FleetTypes'
    <3>1. PICK b : b = boot[poller]
      OBVIOUS
    <3>2. poller \in Routers /\ b \in [n : Nat, at : Int] /\ b.at <= now /\ now \in Nat
      BY <1>4, <3>1 DEF Poll, FleetTypes
    <3>3. now - b.at \in Nat
      BY <3>2
    <3>4. snap' \in Snaps
      BY <1>4, <3>1, <3>2, <3>3 DEF Poll, Snaps
    <3> QED  BY <1>4, <3>4 DEF Poll, FleetTypes
  <2>2. FleetOwn'
    BY <1>4 DEF FleetTypes, FleetOwn, Own, Unpurged, Deleting, Poll
  <2> QED  BY <2>1, <2>2
<1>5. ASSUME EmitFull PROVE FleetInv'
  <2>1. FleetTypes'
    <3>1. snap \in Snaps
      BY <1>5 DEF EmitFull, FleetTypes, NoSnap
    <3>2. ring' = Sampled(snap)
      BY <1>5 DEF EmitFull, ObserveFull
    <3>3. ring' \in Seq([r : Routers, w : Nat])
      <4>1. ring \in Seq([r : Routers, w : Nat])
        BY DEF FleetTypes
      <4>2. [r |-> snap.r, w |-> snap.at] \in [r : Routers, w : Nat]
        BY <3>1 DEF Snaps
      <4> QED  BY <3>2, <4>1, <4>2, SampledFacts
    <3>4. base' = seen' /\ seen' \in Readings
      BY <1>5, <3>1 DEF EmitFull, ObserveFull, Readings, Snaps
    <3>5. snap' = NoSnap /\ UNCHANGED <<now, holder, poller, boot, retrack, series>>
      BY <1>5 DEF EmitFull
    <3> QED  BY <3>3, <3>4, <3>5 DEF FleetTypes
  <2>2. FleetOwn'
    <3>1. snap \in Snaps /\ holder = snap.r /\ holder \in Routers /\ ~Unpurged
      BY <1>5 DEF EmitFull, FleetTypes, FleetOwn, NoSnap, Snaps, Unpurged
    <3>2. ring' = Sampled(snap)
      BY <1>5 DEF EmitFull, ObserveFull
    <3>3. ring' \in Seq([r : {holder}, w : Nat])
      <4>1. ring \in Seq([r : {holder}, w : Nat])
        BY <3>1, RingOwned
      <4>2. [r |-> snap.r, w |-> snap.at] \in [r : {holder}, w : Nat]
        BY <3>1 DEF Snaps
      <4> QED  BY <3>2, <4>1, <4>2, SampledFacts
    <3>4. base'.r = holder /\ seen'.r = holder
      BY <1>5, <3>1 DEF EmitFull, ObserveFull
    <3>5. /\ sink' = holder /\ liveState' = holder
          /\ position' \in {position, holder} /\ cursor' \in {cursor, holder}
          /\ aliases' \in {aliases, holder}
      BY <1>5, <3>1 DEF EmitFull, NoteReachability, RecordLive, RecordLogs, RecordTopology, UpdateAliases
    <3>6. /\ snap' = NoSnap
          /\ UNCHANGED <<now, holder, series, five, hour, batch, tick, lifecycle, poller, del, revived, unswept>>
      BY <1>5 DEF EmitFull
    <3>7. \A i \in DOMAIN ring' : ring'[i].r = holder
      BY <3>3, RowsOwned
    <3> QED  BY <3>1, <3>4, <3>5, <3>6, <3>7 DEF FleetOwn, Own, Unpurged, Deleting, NoSnap
  <2> QED  BY <2>1, <2>2
<1>6. ASSUME EmitFailed PROVE FleetInv'
  <2>1. FleetTypes'
    BY <1>6 DEF FleetTypes, EmitFailed, NoteReachability, UpdateAliases, NoSnap
  <2>2. FleetOwn'
    BY <1>6 DEF FleetTypes, FleetOwn, Own, Unpurged, Deleting, EmitFailed, NoteReachability, UpdateAliases, NoSnap
  <2> QED  BY <2>1, <2>2
<1>7. ASSUME EmitAux PROVE FleetInv'
  <2>1. FleetTypes'
    <3>1. snap \in Snaps
      BY <1>7 DEF EmitAux, FleetTypes, NoSnap
    <3>2. ring' = Sampled(snap)
      BY <1>7 DEF EmitAux, ObserveWAN
    <3>3. ring' \in Seq([r : Routers, w : Nat])
      <4>1. ring \in Seq([r : Routers, w : Nat])
        BY DEF FleetTypes
      <4>2. [r |-> snap.r, w |-> snap.at] \in [r : Routers, w : Nat]
        BY <3>1 DEF Snaps
      <4> QED  BY <3>2, <4>1, <4>2, SampledFacts
    <3>4. snap' = NoSnap /\ UNCHANGED <<now, holder, poller, boot, retrack, series, base, seen>>
      BY <1>7 DEF EmitAux, ObserveWAN
    <3> QED  BY <3>3, <3>4 DEF FleetTypes
  <2>2. FleetOwn'
    <3>1. snap \in Snaps /\ holder = snap.r /\ holder \in Routers /\ ~Unpurged
      BY <1>7 DEF EmitAux, FleetTypes, FleetOwn, NoSnap, Snaps, Unpurged
    <3>2. ring' = Sampled(snap)
      BY <1>7 DEF EmitAux, ObserveWAN
    <3>3. ring' \in Seq([r : {holder}, w : Nat])
      <4>1. ring \in Seq([r : {holder}, w : Nat])
        BY <3>1, RingOwned
      <4>2. [r |-> snap.r, w |-> snap.at] \in [r : {holder}, w : Nat]
        BY <3>1 DEF Snaps
      <4> QED  BY <3>2, <4>1, <4>2, SampledFacts
    <3>4. position' = holder /\ cursor' = holder
      BY <1>7, <3>1 DEF EmitAux, RecordLogs
    <3>5. /\ snap' = NoSnap
          /\ UNCHANGED <<now, holder, series, five, hour, batch, tick, lifecycle, poller, del, revived, unswept,
                         base, seen, liveState, sink, aliases>>
      BY <1>7 DEF EmitAux, ObserveWAN
    <3>6. \A i \in DOMAIN ring' : ring'[i].r = holder
      BY <3>3, RowsOwned
    <3> QED  BY <3>1, <3>4, <3>5, <3>6 DEF FleetOwn, Own, Unpurged, Deleting, NoSnap
  <2> QED  BY <2>1, <2>2
<1>8. ASSUME RetrackReads PROVE FleetInv'
  <2>1. FleetTypes'
    BY <1>8 DEF FleetTypes, RetrackReads
  <2>2. FleetOwn'
    BY <1>8 DEF FleetTypes, FleetOwn, Own, Unpurged, Deleting, RetrackReads
  <2> QED  BY <2>1, <2>2
<1>9. ASSUME RetrackAdds PROVE FleetInv'
  <2>1. FleetTypes'
    BY <1>9 DEF FleetTypes, RetrackAdds
  <2>2. FleetOwn'
    <3>1. poller' = retrack /\ (revived' <=> revived \/ holder # retrack)
      BY <1>9 DEF RetrackAdds
    <3>2. /\ UNCHANGED <<holder, series, ring, base, seen, batch, five, hour, tick, lifecycle>>
          /\ UNCHANGED <<del, unswept, snap, liveState, sink, aliases, position, cursor>>
      BY <1>9 DEF RetrackAdds
    <3> QED  BY <3>1, <3>2 DEF FleetOwn, Own, Unpurged, Deleting
  <2> QED  BY <2>1, <2>2
<1>10. ASSUME BeginDelete PROVE FleetInv'
  <2>1. FleetTypes'
    BY <1>10 DEF FleetTypes, BeginDelete
  <2>2. FleetOwn'
    BY <1>10 DEF FleetTypes, FleetOwn, Own, Unpurged, Deleting, BeginDelete
  <2> QED  BY <2>1, <2>2
<1>11. ASSUME CommitDelete PROVE FleetInv'
  <2>1. FleetTypes'
    BY <1>11 DEF FleetTypes, CommitDelete, LifecycleFree, RemovePoller
  <2>2. FleetOwn'
    BY <1>11 DEF FleetTypes, FleetOwn, Own, Unpurged, Deleting, CommitDelete, LifecycleFree, RemovePoller
  <2> QED  BY <2>1, <2>2
<1>12. ASSUME RefuseDelete PROVE FleetInv'
  <2>1. FleetTypes'
    BY <1>12 DEF FleetTypes, RefuseDelete, LifecycleFree
  <2>2. FleetOwn'
    BY <1>12 DEF FleetTypes, FleetOwn, Own, Unpurged, Deleting, RefuseDelete, LifecycleFree
  <2> QED  BY <2>1, <2>2
<1>13. ASSUME PurgeDeviceState PROVE FleetInv'
  <2>1. FleetTypes'
    BY <1>13 DEF FleetTypes, PurgeDeviceState, ForgetDevice, NoBase
  <2>2. FleetOwn'
    BY <1>13 DEF FleetTypes, FleetOwn, Own, Unpurged, Deleting, PurgeDeviceState, ForgetDevice, NoBase
  <2> QED  BY <2>1, <2>2
<1>14. ASSUME SweepDeleted PROVE FleetInv'
  <2>1. FleetTypes'
    BY <1>14 DEF FleetTypes, SweepDeleted, SweepOrphans
  <2>2. FleetOwn'
    BY <1>14 DEF FleetTypes, FleetOwn, Own, Unpurged, Deleting, SweepDeleted, SweepOrphans
  <2> QED  BY <2>1, <2>2
<1>15. ASSUME SweepFails PROVE FleetInv'
  <2>1. FleetTypes'
    BY <1>15 DEF FleetTypes, SweepFails
  <2>2. FleetOwn'
    BY <1>15 DEF FleetTypes, FleetOwn, Own, Unpurged, Deleting, SweepFails
  <2> QED  BY <2>1, <2>2
<1>16. ASSUME Restart PROVE FleetInv'
  <2>1. FleetTypes'
    BY <1>16 DEF FleetTypes, Restart, ForgetDevice, NoBase, NoTick, NoSnap, SweepOrphans
  <2>2. FleetOwn'
    <3>1. CASE SweepOrphans /\ UNCHANGED <<faults, unswept>>
      BY <1>16, <3>1 DEF FleetTypes, FleetOwn, Own, Unpurged, Deleting, Restart, ForgetDevice, NoBase, NoTick, NoSnap, SweepOrphans
    <3>2. CASE /\ unswept' = (unswept \/ (~series /\ five \cup hour # {}))
               /\ UNCHANGED <<five, hour>>
      <4>1. ~unswept' /\ series' => \A x \in five' \cup hour' : x.of = {holder'}
        BY <1>16, <3>2 DEF FleetOwn, Restart
      <4>2. ~unswept' /\ ~series' => five' = {} /\ hour' = {}
        BY <1>16, <3>2 DEF Restart
      <4> QED  BY <1>16, <4>1, <4>2 DEF FleetTypes, FleetOwn, Own, Unpurged, Deleting, Restart, ForgetDevice, NoBase, NoTick, NoSnap
    <3> QED  BY <1>16, <3>1, <3>2 DEF Restart
  <2> QED  BY <2>1, <2>2
<1>17. ASSUME Flush, UNCHANGED fleet PROVE FleetInv'
  <2>1. FleetTypes'
    <3>1. ring' \in Seq([r : Routers, w : Nat])
      BY <1>17, KeptFacts DEF FleetTypes, Flush
    <3>2. base' \in {base, NoBase}
      BY <1>17 DEF Flush, Aging, Expired
    <3>3. UNCHANGED <<now, holder, poller, seen, boot, snap, retrack, series>>
      BY <1>17 DEF Flush
    <3> QED  BY <3>1, <3>2, <3>3 DEF FleetTypes
  <2>2. FleetOwn'
    <3>1. ~Unpurged /\ ~Deleting /\ lifecycle = "free"
      BY <1>17 DEF FleetOwn, Unpurged, Deleting, Flush, LifecycleFree
    <3>2. ring \in Seq([r : {holder}, w : Nat])
      BY <3>1, RingOwned
    <3>3. ring' \in Seq([r : {holder}, w : Nat])
      BY <1>17, <3>2, KeptFacts DEF Flush
    <3>4. \A i \in DOMAIN ring' : ring'[i].r = holder
      BY <3>3, RowsOwned
    <3>5. \A x \in batch' : x.of = {holder}
      <4>1. \A i \in DOMAIN ring : ring[i].r = holder
        BY <3>2, RowsOwned
      <4>2. SUFFICES ASSUME NEW x \in Drained
                     PROVE  x.of = {holder}
        BY <1>17 DEF Flush
      <4>3. PICK w \in {ring[i].w : i \in Completed} :
               x = [w |-> w, cnt |-> Cardinality({i \in Completed : ring[i].w = w}),
                    of |-> {ring[i].r : i \in {k \in Completed : ring[k].w = w}}]
        BY DEF Drained
      <4>4. \E i \in Completed : ring[i].w = w
        BY <4>3
      <4> QED  BY <4>1, <4>3, <4>4 DEF Completed
    <3>6. base' \in {base, NoBase}
      BY <1>17 DEF Flush, Aging, Expired
    <3>7. /\ tick'.next = "write" /\ lifecycle' = "flush"
          /\ UNCHANGED <<now, holder, series, five, hour, poller, del, revived, unswept, snap,
                         seen, liveState, sink, aliases, position, cursor>>
      BY <1>17 DEF Flush
    <3> QED  BY <3>1, <3>4, <3>5, <3>6, <3>7 DEF FleetOwn, Own, Unpurged, Deleting, NoBase
  <2> QED  BY <2>1, <2>2
<1>18. ASSUME WriteRollups, UNCHANGED fleet PROVE FleetInv'
  <2>1. FleetTypes'
    BY <1>18 DEF FleetTypes, WriteRollups, Upserted
  <2>2. FleetOwn'
    <3>1. lifecycle = "flush" /\ ~Deleting /\ tick'.next = "fold" /\ batch' = {} /\ lifecycle' = "free"
      BY <1>18 DEF FleetOwn, Deleting, WriteRollups, FleetTypes
    <3>2. \/ UNCHANGED <<series, five>>
          \/ /\ series' = TRUE /\ (holder # NoRouter \/ series)
             /\ \A x \in five' : x \in five \/ x \in batch
      BY <1>18 DEF WriteRollups, Upserted
    <3>3. /\ UNCHANGED <<holder, ring, base, seen, hour, poller>>
          /\ UNCHANGED <<del, revived, unswept, snap, liveState, sink, aliases, position, cursor>>
      BY <1>18 DEF WriteRollups
    <3> QED  BY <3>1, <3>2, <3>3 DEF FleetOwn, Own, Unpurged, Deleting
  <2> QED  BY <2>1, <2>2
<1>19. ASSUME LoseRollups, UNCHANGED fleet PROVE FleetInv'
  <2>1. FleetTypes'
    BY <1>19 DEF FleetTypes, LoseRollups
  <2>2. FleetOwn'
    <3>1. tick.next = "write" /\ tick'.next # "write" /\ batch' = {} /\ lifecycle = "flush"
      BY <1>19 DEF LoseRollups, FleetOwn
    <3>2. /\ UNCHANGED <<holder, series, ring, base, seen, five, hour, poller>>
          /\ UNCHANGED <<del, revived, unswept, snap, liveState, sink, aliases, position, cursor>>
      BY <1>19 DEF LoseRollups
    <3> QED  BY <3>1, <3>2 DEF FleetOwn, Own, Unpurged, Deleting
  <2> QED  BY <2>1, <2>2
<1>20. ASSUME FoldHourly, UNCHANGED fleet PROVE FleetInv'
  <2>1. FleetTypes'
    BY <1>20 DEF FleetTypes, FoldHourly, Folded
  <2>2. FleetOwn'
    <3>1. tick.next = "fold" /\ tick'.next = "prune" /\ hour' = Folded
      BY <1>20 DEF FoldHourly
    <3>2. UNCHANGED <<now, holder, series, ring, base, seen, five, batch, lifecycle, poller, del, revived, unswept, snap,
                      liveState, sink, aliases, position, cursor>>
      BY <1>20 DEF FoldHourly
    <3>3. \A x \in Folded : \/ x \in hour
                            \/ \E S \in SUBSET five : S # {} /\ x.of = UNION {y.of : y \in S}
      <4> DEFINE rows == {x \in five : HourOf(x.w) >= Floor /\ HourOf(x.w) < HourOf(tick.at)}
                 In(h) == {x \in rows : HourOf(x.w) = h}
                 new == {[h |-> h, cnt |-> CountOf(In(h)), of |-> UNION {x.of : x \in In(h)}] : h \in {HourOf(x.w) : x \in rows}}
      <4>1. \A x \in Folded : x \in hour \/ x \in new
        BY DEF Folded
      <4>2. \A x \in new : \E S \in SUBSET five : S # {} /\ x.of = UNION {y.of : y \in S}
        <5>1. SUFFICES ASSUME NEW x \in new
                       PROVE  \E S \in SUBSET five : S # {} /\ x.of = UNION {y.of : y \in S}
          OBVIOUS
        <5>2. PICK h \in {HourOf(z.w) : z \in rows} :
                 x = [h |-> h, cnt |-> CountOf(In(h)), of |-> UNION {y.of : y \in In(h)}]
          OBVIOUS
        <5>3. In(h) # {} /\ In(h) \in SUBSET five
          OBVIOUS
        <5> QED  BY <5>2, <5>3
      <4> QED  BY <4>1, <4>2
    <3>4. \A S : S # {} /\ (\A y \in S : y.of = {holder}) => UNION {y.of : y \in S} = {holder}
      OBVIOUS
    <3>5. ~unswept /\ series => \A x \in hour' : x.of = {holder}
      BY <3>1, <3>3, <3>4 DEF FleetOwn
    <3>6. five = {} /\ hour = {} => hour' = {}
      BY <3>1, <3>3
    <3> QED  BY <3>1, <3>2, <3>5, <3>6 DEF FleetOwn, Own, Unpurged, Deleting
  <2> QED  BY <2>1, <2>2
<1>21. ASSUME EndTickEarly, UNCHANGED fleet PROVE FleetInv'
  <2>1. FleetTypes'
    BY <1>21 DEF FleetTypes, EndTickEarly, NoTick
  <2>2. FleetOwn'
    BY <1>21 DEF FleetTypes, FleetOwn, Own, Unpurged, Deleting, EndTickEarly, NoTick
  <2> QED  BY <2>1, <2>2
<1>22. ASSUME Prune, UNCHANGED fleet PROVE FleetInv'
  <2>1. FleetTypes'
    BY <1>22 DEF FleetTypes, Prune, NoTick
  <2>2. FleetOwn'
    <3>1. tick.next = "prune" /\ tick'.next = "none" /\ five' \subseteq five /\ hour' \subseteq hour
      BY <1>22 DEF Prune, NoTick
    <3>2. series' <=> series /\ (five' # {} \/ hour' # {})
      BY <1>22 DEF Prune
    <3>3. UNCHANGED <<now, holder, ring, base, seen, batch, lifecycle, poller, del, revived, unswept, snap,
                      liveState, sink, aliases, position, cursor>>
      BY <1>22 DEF Prune
    <3> QED  BY <3>1, <3>2, <3>3 DEF FleetOwn, Own, Unpurged, Deleting
  <2> QED  BY <2>1, <2>2
<1>23. CASE UNCHANGED fleetVars
  <2>1. /\ UNCHANGED <<now, holder, series, ring, base, seen, batch, five, hour, tick, lifecycle>>
        /\ UNCHANGED <<poller, boot, retrack, del, revived, unswept, snap, liveState, sink, aliases, position, cursor>>
    BY <1>23 DEF fleetVars
  <2>2. FleetTypes'
    BY <2>1 DEF FleetTypes
  <2>3. FleetOwn'
    BY <2>1 DEF FleetOwn, Own, Unpurged, Deleting
  <2> QED  BY <2>2, <2>3
<1>24. [FleetNext]_fleetVars
  OBVIOUS
<1> QED
  BY ONLY <1>1, <1>2, <1>3, <1>4, <1>5, <1>6, <1>7, <1>8, <1>9, <1>10, <1>11, <1>12, <1>13, <1>14, <1>15, <1>16,
          <1>17, <1>18, <1>19, <1>20, <1>21, <1>22, <1>23, <1>24 DEF FleetNext

(* What the process and the database hold under the id is the holder's,    *)
(* but for what an unfinished deletion has not purged or swept yet.        *)
THEOREM FleetInvariant == FleetSpec => []FleetInv
BY FleetStart, FleetStep, PTL DEF FleetSpec

(* Whatever was in flight, drained or half deleted when the last router    *)
(* left, what is kept under the id is the present holder's, for any number *)
(* of routers, polls, deletions and restarts.                              *)
THEOREM FleetOwnData == FleetSpec => []OwnData
<1>1. FleetInv => OwnData
  <2> SUFFICES ASSUME FleetInv, holder # NoRouter, ~revived
               PROVE  /\ \A i \in DOMAIN ring : ring[i].r = holder
                      /\ {base.r, seen.r, sink, liveState, aliases, Position} \subseteq {holder, NoRouter}
                      /\ series /\ ~unswept => \A x \in five \cup hour : x.of = {holder}
    BY DEF OwnData
  <2>1. ~Unpurged
    BY DEF Unpurged
  <2>2. \A i \in DOMAIN ring : ring[i].r = holder
    BY <2>1, RingOwned, RowsOwned
  <2> QED  BY <2>1, <2>2 DEF FleetInv, FleetOwn, Own, Position
<1> QED  BY <1>1, FleetInvariant, PTL

-----------------------------------------------------------------------------
\* A reading of a router is followed by its restarts.
Recorded(s) == /\ s.at <= now /\ s.boot <= boot[s.r].n
               /\ s.boot < boot[s.r].n => s.at <= boot[s.r].at

\* A later reading of the router, and what a restart in between leaves of its
\* uptime.
Follows(a, b) == /\ a.at <= b.at /\ a.boot <= b.boot
                 /\ a.boot < b.boot => b.uptime <= b.at - a.at

FleetClocks ==
    /\ seen # NoBase => Recorded(seen)
    /\ snap # NoSnap => Recorded(snap)
    /\ snap # NoSnap /\ seen # NoBase /\ snap.r = seen.r => Follows(seen, snap)
    /\ ~spliced

LEMMA FleetClockStep == FleetInv /\ FleetClocks /\ [FleetNext]_fleetVars => FleetClocks'
<1> SUFFICES ASSUME FleetInv, FleetClocks, [FleetNext]_fleetVars PROVE FleetClocks'
  OBVIOUS
<1>1. /\ now \in Nat /\ seen \in Readings \cup {NoBase} /\ snap \in Snaps \cup {NoSnap}
      /\ boot \in [Routers -> [n : Nat, at : Int]] /\ poller \in Routers \cup {NoRouter}
      /\ base \in {seen, NoBase} /\ \A r \in Routers : boot[r].at <= now
  BY DEF FleetInv, FleetTypes
<1>2. \A r \in Routers : boot[r] \in [n : Nat, at : Int]
  BY <1>1
<1>3. CASE Advance
  <2>1. now' = now + 1 /\ UNCHANGED <<seen, snap, boot, spliced>>
    BY <1>3 DEF Advance, fleet, control, memory
  <2> QED  BY <1>1, <1>2, <2>1, TelemetryAssumption DEF FleetClocks, Recorded, Follows, Readings, Snaps, NoBase, NoSnap
<1>4. CASE \E r \in Routers : Reboot(r)
  <2>1. PICK r \in Routers : Reboot(r)
    BY <1>4
  <2>2. PICK x : x = [n |-> boot[r].n + 1, at |-> now]
    OBVIOUS
  <2>3. boot' = [boot EXCEPT ![r] = x] /\ UNCHANGED <<now, seen, snap, spliced>>
    BY <2>1, <2>2 DEF Reboot, telemetry
  <2>4. /\ boot'[r].n = boot[r].n + 1 /\ boot'[r].at = now
        /\ \A q \in Routers \ {r} : boot'[q] = boot[q]
    BY <1>1, <2>2, <2>3
  <2>5. ASSUME NEW s \in Readings \cup Snaps, Recorded(s)
        PROVE  /\ s.at <= now /\ s.boot <= boot'[s.r].n
               /\ s.boot < boot'[s.r].n => s.at <= boot'[s.r].at
    <3>1. s.r \in Routers /\ s.boot \in Nat /\ s.at \in Nat
      BY DEF Readings, Snaps
    <3>2. /\ s.at <= now /\ s.boot <= boot[s.r].n
          /\ s.boot < boot[s.r].n => s.at <= boot[s.r].at
      BY <2>5 DEF Recorded
    <3>3. CASE s.r = r
      BY <1>1, <1>2, <2>4, <3>1, <3>2, <3>3
    <3>4. CASE s.r # r
      BY <2>4, <3>1, <3>2, <3>4
    <3> QED  BY <3>3, <3>4
  <2>6. seen # NoBase => Recorded(seen)'
    <3>1. SUFFICES ASSUME seen # NoBase
                   PROVE  /\ seen.at <= now /\ seen.boot <= boot'[seen.r].n
                          /\ seen.boot < boot'[seen.r].n => seen.at <= boot'[seen.r].at
      BY <2>3 DEF Recorded
    <3>2. seen \in Readings \cup Snaps /\ Recorded(seen)
      BY <1>1, <3>1 DEF FleetClocks
    <3> QED  BY <2>5, <3>2
  <2>7. snap # NoSnap => Recorded(snap)'
    <3>1. SUFFICES ASSUME snap # NoSnap
                   PROVE  /\ snap.at <= now /\ snap.boot <= boot'[snap.r].n
                          /\ snap.boot < boot'[snap.r].n => snap.at <= boot'[snap.r].at
      BY <2>3 DEF Recorded
    <3>2. snap \in Readings \cup Snaps /\ Recorded(snap)
      BY <1>1, <3>1 DEF FleetClocks
    <3> QED  BY <2>5, <3>2
  <2> QED  BY <2>3, <2>6, <2>7 DEF FleetClocks, Follows
<1>5. CASE \E kind \in {"full", "failed", "aux"} : Poll(kind)
  <2>1. PICK kind \in {"full", "failed", "aux"} : Poll(kind)
    BY <1>5
  <2>2. PICK b : b = boot[poller]
    OBVIOUS
  <2>3. poller \in Routers /\ b \in [n : Nat, at : Int] /\ b.at <= now
    BY <1>1, <1>2, <2>1, <2>2 DEF Poll
  <2>4. /\ snap' = [r |-> poller, at |-> now, boot |-> b.n, uptime |-> now - b.at, kind |-> kind]
        /\ UNCHANGED <<now, seen, boot, spliced>>
    BY <2>1, <2>2 DEF Poll, telemetry
  <2>5. Recorded(snap)'
    BY <1>1, <2>2, <2>3, <2>4 DEF Recorded
  <2>6. seen # NoBase /\ seen.r = poller => Follows(seen, snap)'
    BY <1>1, <2>2, <2>3, <2>4 DEF Follows, FleetClocks, Recorded, Readings
  <2> QED  BY <2>4, <2>5, <2>6 DEF FleetClocks, Recorded
<1>6. CASE EmitFull
  <2>1. snap \in Snaps /\ snap.r = holder /\ snap.r \in Routers /\ ~Unpurged
    BY <1>1, <1>6, TelemetryAssumption DEF EmitFull, NoSnap, Snaps, FleetInv, FleetOwn, Unpurged
  <2>2. /\ seen' = [r |-> snap.r, boot |-> snap.boot, uptime |-> snap.uptime, at |-> snap.at]
        /\ snap' = NoSnap /\ UNCHANGED <<now, boot>>
    BY <1>6 DEF EmitFull, ObserveFull, control
  <2>3. Recorded(snap)
    BY <2>1, TelemetryAssumption DEF FleetClocks, NoSnap, Snaps
  <2>4. Recorded(seen)'
    BY <2>2, <2>3 DEF Recorded
  <2>5. ~spliced'
    <3>1. PICK b : b = MeasuredFrom(snap)
      OBVIOUS
    <3>2. spliced' <=> (spliced \/ (b # NoBase /\ <<b.r, b.boot>> # <<snap.r, snap.boot>>
                                               /\ ~(b.r = snap.r /\ b.uptime = 0)))
      BY <1>6, <3>1 DEF EmitFull, ObserveFull
    <3>3. SUFFICES ASSUME b # NoBase
                   PROVE  b.r = snap.r /\ (b.boot = snap.boot \/ b.uptime = 0)
      BY <3>2 DEF FleetClocks
    <3>4. b = base /\ b = seen /\ ~Rebooted(snap) /\ b \in Readings
      BY <1>1, <3>1, <3>3 DEF MeasuredFrom
    <3>5. b.r = snap.r
      BY <2>1, <3>4, TelemetryAssumption DEF FleetInv, FleetOwn, Own, Readings
    <3>6. Follows(b, snap)
      BY <2>1, <3>3, <3>4, <3>5, TelemetryAssumption DEF FleetClocks, NoSnap, Snaps
    <3>7. snap.uptime >= b.uptime + (snap.at - b.at)
      BY <2>1, <3>3, <3>4 DEF Rebooted, Readings, Snaps
    <3> QED  BY <2>1, <3>4, <3>5, <3>6, <3>7 DEF Follows, Readings, Snaps
  <2> QED  BY <2>2, <2>4, <2>5 DEF FleetClocks
<1>7. CASE EmitFailed \/ EmitAux
  <2>1. snap' = NoSnap /\ UNCHANGED <<now, seen, boot, spliced>>
    BY <1>7 DEF EmitFailed, EmitAux, ObserveWAN, telemetry, control
  <2> QED  BY <2>1 DEF FleetClocks, Recorded
<1>8. CASE PurgeDeviceState \/ Restart
  <2>1. /\ seen' = NoBase /\ UNCHANGED <<now, boot, spliced>> /\ snap' \in {snap, NoSnap}
    BY <1>8 DEF PurgeDeviceState, Restart, ForgetDevice
  <2> QED  BY <2>1 DEF FleetClocks, Recorded
<1>9. CASE UNCHANGED <<now, seen, boot, spliced, snap>>
  BY <1>9 DEF FleetClocks, Recorded, Follows
<1>10. \/ Advance \/ (\E r \in Routers : Reboot(r)) \/ (\E kind \in {"full", "failed", "aux"} : Poll(kind))
       \/ EmitFull \/ EmitFailed \/ EmitAux \/ PurgeDeviceState \/ Restart
       \/ UNCHANGED <<now, seen, boot, spliced, snap>>
  BY DEF FleetNext, fleetVars, telemetry, fleet, control, memory, Register, RetrackReads, RetrackAdds, BeginDelete, CommitDelete,
         RefuseDelete, SweepDeleted, SweepFails, Flush, WriteRollups, LoseRollups, FoldHourly,
         EndTickEarly, Prune
<1> QED  BY <1>3, <1>4, <1>5, <1>6, <1>7, <1>8, <1>9, <1>10

(* A rate is measured within one boot of one router: a restart leaves less *)
(* uptime than the time that passed, whatever polls failed in between, and *)
(* the baselines of a deleted router are gone before its id is used again. *)
THEOREM FleetNoSplicedRate == FleetSpec => []NoSplicedRate
<1>1. FleetInit => FleetClocks
  BY DEF FleetInit, TelemetryInit, FleetClocks
<1>2. FleetClocks => NoSplicedRate
  BY DEF FleetClocks, NoSplicedRate
<1> QED  BY <1>1, <1>2, FleetInvariant, FleetClockStep, PTL DEF FleetSpec

-----------------------------------------------------------------------------
\* Sums over finite sets. A recursive function is a CHOOSE, which is what its
\* definition says once some function satisfies it.  Induction is over a set of
\* numbers: one that has 0 and successors lacks no least number.
LEMMA AllNumbers ==
    ASSUME NEW T, T \subseteq Nat, 0 \in T, \A n \in T : n + 1 \in T
    PROVE  T = Nat
<1>1. SUFFICES ASSUME Nat \ T # {} PROVE FALSE
  OBVIOUS
<1>2. \E m \in Nat \ T : \A n \in Nat \ T : ~(n < m)
  <2>1. PICK m \in Nat \ T : \A n \in Nat \ T : ~(<<n, m>> \in OpToRel(<, Nat))
    BY <1>1, WFMin, NatLessThanWellFounded
  <2>2. \A n \in Nat \ T : ~(n < m)
    BY <2>1 DEF OpToRel
  <2> QED  BY <2>2
<1>3. PICK m \in Nat \ T : \A n \in Nat \ T : ~(n < m)
  BY <1>2
<1>4. m # 0 /\ m - 1 \in Nat
  BY <1>3
<1>5. m - 1 \in T
  BY <1>3, <1>4
<1> QED  BY <1>3, <1>4, <1>5

LEMMA CountUnfolds ==
    ASSUME NEW rows
    PROVE  \E iter :
        /\ iter = CHOOSE f : f = [s \in SUBSET rows |->
                      IF s = {} THEN 0 ELSE (CHOOSE x \in s : TRUE).cnt + f[s \ {CHOOSE x \in s : TRUE}]]
        /\ CountOf(rows) = iter[rows]
BY DEF CountOf, MapThenSumSet, MapThenFoldSet

LEMMA SmallerPart ==
    ASSUME NEW s, IsFiniteSet(s), s # {}
    PROVE  /\ (CHOOSE x \in s : TRUE) \in s
           /\ Cardinality(s) \in Nat
           /\ Cardinality(s \ {CHOOSE x \in s : TRUE}) = Cardinality(s) - 1
<1>1. (CHOOSE x \in s : TRUE) \in s
  OBVIOUS
<1> QED  BY <1>1, FS_RemoveElement, FS_CardinalityType

\* A function defined as the sum is, on the subsets of at most n rows.
LEMMA SumExists ==
    ASSUME NEW rows, IsFiniteSet(rows)
    PROVE  \E f : f = [s \in SUBSET rows |->
               IF s = {} THEN 0 ELSE (CHOOSE x \in s : TRUE).cnt + f[s \ {CHOOSE x \in s : TRUE}]]
<1> DEFINE pick(s) == CHOOSE x \in s : TRUE
           Part(n) == {s \in SUBSET rows : Cardinality(s) <= n}
           Sums(f, P) == f = [s \in P |-> IF s = {} THEN 0 ELSE pick(s).cnt + f[s \ {pick(s)}]]
           T == {n \in Nat : \E f : Sums(f, Part(n))}
<1>1. \A s \in SUBSET rows : IsFiniteSet(s) /\ Cardinality(s) \in Nat
  BY FS_Subset, FS_CardinalityType
<1>2. \A s \in SUBSET rows : s # {} => /\ s \ {pick(s)} \in SUBSET rows
                                       /\ Cardinality(s \ {pick(s)}) = Cardinality(s) - 1
  BY <1>1, SmallerPart
<1>3. 0 \in T
  <2>1. Part(0) = {{}}
    BY <1>1, FS_EmptySet
  <2>2. PICK f : f = [s \in {{}} |-> 0]
    OBVIOUS
  <2>3. Sums(f, Part(0))
    BY <2>1, <2>2
  <2> QED  BY <2>3
<1>4. ASSUME NEW n \in Nat, NEW f, Sums(f, Part(n))
      PROVE  \E g : Sums(g, Part(n + 1))
  <2> DEFINE Term(h, s) == IF s = {} THEN 0 ELSE pick(s).cnt + h[s \ {pick(s)}]
  <2>2. PICK g : g = [s \in Part(n + 1) |-> Term(f, s)]
    OBVIOUS
  <2>3. \A s \in Part(n + 1) : s # {} => s \ {pick(s)} \in Part(n) /\ s \ {pick(s)} \in Part(n + 1)
    <3>1. SUFFICES ASSUME NEW s \in SUBSET rows, Cardinality(s) <= n + 1, s # {}
                   PROVE  /\ s \ {pick(s)} \in SUBSET rows
                          /\ Cardinality(s \ {pick(s)}) <= n /\ Cardinality(s \ {pick(s)}) <= n + 1
      OBVIOUS
    <3> HIDE DEF pick
    <3> QED  BY <1>1, <1>2, <3>1
  <2>4. f = [s \in Part(n) |-> Term(f, s)]
    BY <1>4
  <2>5. Part(n) \subseteq Part(n + 1)
    BY <1>1
  <2> HIDE DEF pick, Part, Term
  <2>6. \A s \in Part(n) : g[s] = f[s]
    BY <2>2, <2>4, <2>5
  <2>7. \A s \in Part(n + 1) : Term(f, s) = Term(g, s)
    BY <2>3, <2>6 DEF Term
  <2>8. g = [s \in Part(n + 1) |-> Term(g, s)]
    BY <2>2, <2>7
  <2> QED  BY <2>8 DEF Term
<1>5. T = Nat
  <2>1. T \subseteq Nat
    OBVIOUS
  <2>2. \A n \in T : n + 1 \in T
    <3> HIDE DEF Sums
    <3>1. \A n \in Nat : (\E f : Sums(f, Part(n))) => \E g : Sums(g, Part(n + 1))
      BY <1>4
    <3>2. \A n \in Nat : n + 1 \in Nat
      OBVIOUS
    <3> HIDE DEF Part
    <3> QED  BY <3>1, <3>2
  <2> HIDE DEF T
  <2> QED  BY <1>3, <2>1, <2>2, AllNumbers
<1>6. PICK n \in Nat : n = Cardinality(rows)
  BY <1>1
<1>7. Part(n) = SUBSET rows
  BY <1>1, <1>6, FS_Subset
<1>8. \E f : Sums(f, Part(n))
  <2>1. n \in T
    BY <1>5
  <2> QED  BY <2>1
<1> QED
  <2> HIDE DEF Part
  <2> QED  BY <1>7, <1>8

\* The count of rows with counts is a number.
LEMMA CountIsNat ==
    ASSUME NEW rows, IsFiniteSet(rows), \A x \in rows : x.cnt \in Nat
    PROVE  CountOf(rows) \in Nat
<1>1. PICK iter :
        /\ iter = CHOOSE f : f = [s \in SUBSET rows |->
                      IF s = {} THEN 0 ELSE (CHOOSE x \in s : TRUE).cnt + f[s \ {CHOOSE x \in s : TRUE}]]
        /\ CountOf(rows) = iter[rows]
  BY CountUnfolds
<1>2. iter = [s \in SUBSET rows |->
                 IF s = {} THEN 0 ELSE (CHOOSE x \in s : TRUE).cnt + iter[s \ {CHOOSE x \in s : TRUE}]]
  BY <1>1, SumExists
<1> DEFINE T == {n \in Nat : \A s \in SUBSET rows : Cardinality(s) <= n => iter[s] \in Nat}
<1>3. \A s \in SUBSET rows : IsFiniteSet(s) /\ Cardinality(s) \in Nat
  BY FS_Subset, FS_CardinalityType
<1>4. 0 \in T
  <2>1. \A s \in SUBSET rows : Cardinality(s) <= 0 => s = {}
    BY <1>3, FS_EmptySet
  <2>2. iter[{}] = 0
    BY <1>2
  <2> QED  BY <2>1, <2>2
<1>5. ASSUME NEW n \in Nat, \A s \in SUBSET rows : Cardinality(s) <= n => iter[s] \in Nat,
             NEW s \in SUBSET rows, Cardinality(s) <= n + 1
      PROVE  iter[s] \in Nat
  <2>1. CASE s = {}
    BY <1>2, <2>1
  <2>2. CASE s # {}
    <3>1. PICK x : x = CHOOSE y \in s : TRUE
      OBVIOUS
    <3>2. x \in s /\ Cardinality(s \ {x}) = Cardinality(s) - 1
      BY <1>3, <2>2, <3>1, SmallerPart
    <3>3. iter[s] = x.cnt + iter[s \ {x}]
      BY <1>2, <2>2, <3>1
    <3>4. Cardinality(s \ {x}) <= n
      BY <1>3, <1>5, <3>2
    <3>5. iter[s \ {x}] \in Nat
      BY <1>5, <3>4
    <3> QED  BY <3>2, <3>3, <3>5
  <2> QED  BY <2>1, <2>2
<1>6. T = Nat
  <2>1. T \subseteq Nat
    OBVIOUS
  <2>2. \A n \in T : n + 1 \in T
    BY <1>5
  <2> HIDE DEF T
  <2> QED  BY <1>4, <2>1, <2>2, AllNumbers
<1>7. PICK n \in Nat : n = Cardinality(rows)
  BY <1>3
<1>8. n \in T
  BY <1>6
<1>9. iter[rows] \in Nat
  BY <1>7, <1>8
<1> QED  BY <1>1, <1>9

-----------------------------------------------------------------------------
LEMMA TimesApart ==
    ASSUME NEW a \in Int, NEW b \in Int, NEW n \in Nat \ {0}, a < b
    PROVE  a * n + n <= b * n
<1>1. b - a \in Nat \ {0}
  OBVIOUS
<1>2. PICK k \in Nat : k = b - a - 1
  BY <1>1
<1>3. k * n \in Nat /\ a * n \in Int /\ b * n \in Int
  BY <1>2
<1>4. b * n = (a + 1 + k) * n
  BY <1>2
<1>5. (a + 1 + k) * n = a * n + n + k * n
  BY <1>2
<1> QED  BY <1>3, <1>4, <1>5

\* An hour begins at the last multiple of its length.
LEMMA HourBegins ==
    ASSUME NEW w \in Int
    PROVE  /\ HourOf(w) \in Int
           /\ HourOf(w) * HourLen \in Int
           /\ HourOf(w) * HourLen <= w /\ w < HourOf(w) * HourLen + HourLen
<1>1. PICK n \in Nat \ {0} : n = HourLen
  BY TelemetryAssumption
<1>2. /\ w \div n \in Int /\ (w \div n) * n <= w /\ w < (w \div n) * n + n
  OBVIOUS
<1> QED  BY <1>1, <1>2 DEF HourOf

LEMMA HourIs ==
    ASSUME NEW w \in Int, NEW h \in Int
    PROVE  /\ HourOf(w) < h <=> w < h * HourLen
           /\ h <= HourOf(w) <=> h * HourLen <= w
<1>1. PICK n \in Nat \ {0} : n = HourLen
  BY TelemetryAssumption
<1>2. PICK v \in Int : v = HourOf(w)
  BY HourBegins
<1>3. v * n <= w /\ w < v * n + n /\ v * n \in Int /\ h * n \in Int
  BY <1>1, <1>2, HourBegins
<1>4. v < h => v * n + n <= h * n
  BY <1>1, <1>2, TimesApart
<1>5. h < v => h * n + n <= v * n
  BY <1>1, <1>2, TimesApart
<1>6. h = v => h * n = v * n
  OBVIOUS
<1>7. (v < h <=> w < h * n) /\ (h <= v <=> h * n <= w)
  BY <1>1, <1>2, <1>3, <1>4, <1>5, <1>6
<1> QED  BY <1>1, <1>2, <1>7

LEMMA HourOrder ==
    ASSUME NEW v \in Int, NEW w \in Int
    PROVE  /\ v <= w => HourOf(v) <= HourOf(w)
           /\ v + HourLen <= w => HourOf(v) < HourOf(w)
           /\ HourOf(v) - 1 <= HourOf(v - 1)
<1>1. PICK n \in Nat \ {0} : n = HourLen
  BY TelemetryAssumption
<1>10. PICK u \in Int : u = v - 1
  OBVIOUS
<1>11. PICK a \in Int : a = HourOf(v)
  BY HourBegins
<1>12. PICK b \in Int : b = HourOf(w)
  BY HourBegins
<1>13. PICK c \in Int : c = HourOf(u)
  BY HourBegins
<1>2. a = HourOf(v) /\ b = HourOf(w) /\ c = HourOf(v - 1)
  BY <1>10, <1>11, <1>12, <1>13
<1>3. /\ a * n \in Int /\ b * n \in Int /\ c * n \in Int /\ (a - 1) * n \in Int
      /\ a * n <= v /\ w < b * n + n /\ b * n <= w /\ v - 1 < c * n + n
  BY <1>1, <1>10, <1>11, <1>12, <1>13, HourBegins
<1>4. b < a => b * n + n <= a * n
  BY <1>2, TimesApart
<1>5. c < a - 1 => c * n + n <= (a - 1) * n
  BY <1>2, TimesApart
<1>6. (a - 1) * n = a * n - n
  BY <1>2
<1>7. v + n <= w => a < b
  <2>1. b = a => b * n = a * n
    OBVIOUS
  <2> QED  BY <1>2, <1>3, <1>4, <2>1
<1>8. v <= w => a <= b
  BY <1>2, <1>3, <1>4
<1>9. a - 1 <= c
  BY <1>1, <1>2, <1>3, <1>5, <1>6
<1> QED  BY <1>1, <1>2, <1>7, <1>8, <1>9

-----------------------------------------------------------------------------
\* The ring has no sample older than the window before the last cycle: a poll
\* is let across one boundary only.
FleetTicks ==
    /\ ticked \in Nat /\ ticked <= now
    /\ tick # NoTick => tick \in [next : {"write", "fold", "prune"}, at : {now}] /\ ticked = now
    /\ snap # NoSnap => now - 1 <= snap.at /\ snap.at <= now
    /\ \A i \in DOMAIN ring : ticked - 1 <= ring[i].w

\* The hours are folded up to the last cycle, and what is drained is not older
\* than the newest of them.
FleetRows ==
    /\ IsFiniteSet(five) /\ IsFiniteSet(batch)
    /\ \A x \in five \cup batch : x.w \in Nat /\ x.cnt \in Nat
    /\ \A y \in hour : y.h \in Nat /\ y.cnt \in Nat /\ y.h < HourOf(ticked)
    /\ \A y, z \in hour : y.h = z.h => y = z
    /\ \A x \in batch : \A y \in hour : y.h <= HourOf(x.w)

InHour(h) == {x \in five : HourOf(x.w) = h}
Counted(h) == \E y \in hour : y.h = h /\ y.cnt >= CountOf(InHour(h))

\* An hour before one that is folded counts its rows, and once a cycle has
\* folded so does every hour that has passed.
FleetLadder ==
    /\ \A x \in five : \A y \in hour : HourOf(x.w) < y.h => Counted(HourOf(x.w))
    /\ tick.next = "prune" => \A x \in five : HourOf(x.w) < HourOf(tick.at) => Counted(HourOf(x.w))

LEMMA NewestHour ==
    ASSUME \A y \in hour : y.h \in Nat, NEW b \in Nat, \A y \in hour : y.h < b, hour # {}
    PROVE  Floor \in Nat /\ (\E y \in hour : y.h = Floor) /\ (\A y \in hour : y.h <= Floor)
<1>1. \E y \in hour : \A z \in hour : y.h >= z.h
  <2>1. SUFFICES ASSUME \A y \in hour : \E z \in hour : ~(y.h >= z.h)
                 PROVE  FALSE
    OBVIOUS
  <2>2. PICK T : T = {n \in Nat : \E y \in hour : y.h >= n}
    OBVIOUS
  <2>3. T \subseteq Nat /\ 0 \in T
    BY <2>2
  <2>4. \A n \in T : n + 1 \in T
    <3>1. SUFFICES ASSUME NEW n \in T PROVE \E y \in hour : y.h >= n + 1
      BY <2>2
    <3>2. PICK y \in hour : y.h >= n /\ n \in Nat
      BY <2>2
    <3>3. PICK z \in hour : ~(y.h >= z.h)
      BY <2>1
    <3>4. y.h \in Nat /\ z.h \in Nat
      OBVIOUS
    <3> QED  BY <3>2, <3>3, <3>4
  <2>5. b \in T
    BY <2>3, <2>4, AllNumbers
  <2> QED  BY <2>2, <2>5
<1>2. PICK S : S = {y.h : y \in hour}
  OBVIOUS
<1>3. \E x \in S : \A y \in S : x >= y
  BY <1>1, <1>2
<1>4. Max(S) \in S /\ \A y \in S : Max(S) >= y
  BY <1>3 DEF Max
<1>5. Floor = Max(S)
  BY <1>2 DEF Floor
<1> QED  BY <1>2, <1>4, <1>5

LEMMA DrainedFacts ==
    ASSUME NEW n \in Nat, DOMAIN ring = 1..n, \A i \in DOMAIN ring : ring[i].w \in Nat
    PROVE  /\ IsFiniteSet(Drained)
           /\ \A x \in Drained : x.cnt \in Nat /\ \E i \in DOMAIN ring : x.w = ring[i].w /\ x.w < now
<1>1. IsFiniteSet(Completed)
  <2>1. IsFiniteSet(1..n) /\ Completed \subseteq 1..n
    BY FS_Interval DEF Completed
  <2> QED  BY <2>1, FS_Subset
<1>2. PICK W : W = {ring[i].w : i \in Completed}
  OBVIOUS
<1>3. IsFiniteSet(W)
  <2>1. PICK f : f = [i \in Completed |-> ring[i].w]
    OBVIOUS
  <2>2. f \in Surjection(Completed, W)
    BY <1>2, <2>1 DEF Surjection
  <2> QED  BY <1>1, <2>2, FS_Surjection
<1>4. PICK g : g = [w \in W |-> [w |-> w, cnt |-> Cardinality({i \in Completed : ring[i].w = w}),
                                 of |-> {ring[i].r : i \in {k \in Completed : ring[k].w = w}}]]
  OBVIOUS
<1>5. Drained = {g[w] : w \in W}
  BY <1>2, <1>4 DEF Drained
<1>6. IsFiniteSet(Drained)
  <2>1. g \in Surjection(W, Drained)
    <3>1. DOMAIN g = W /\ g = [w \in DOMAIN g |-> g[w]]
      BY <1>4
    <3> HIDE <1>4
    <3> QED  BY <1>5, <3>1 DEF Surjection
  <2> QED  BY <1>3, <2>1, FS_Surjection
<1>7. \A w \in W : g[w].w = w /\ g[w].cnt = Cardinality({i \in Completed : ring[i].w = w})
  BY <1>4
<1>8. \A w \in W : Cardinality({i \in Completed : ring[i].w = w}) \in Nat
  <2>1. \A w \in W : {i \in Completed : ring[i].w = w} \subseteq Completed
    OBVIOUS
  <2>2. \A B : B \subseteq Completed => Cardinality(B) \in Nat
    BY <1>1, FS_Subset, FS_CardinalityType
  <2> QED  BY <2>1, <2>2
<1>9. \A w \in W : \E i \in DOMAIN ring : w = ring[i].w /\ w < now
  BY <1>2 DEF Completed
<1>10. SUFFICES ASSUME NEW x \in Drained
                PROVE  x.cnt \in Nat /\ \E i \in DOMAIN ring : x.w = ring[i].w /\ x.w < now
  BY <1>6
<1>11. PICK w \in W : x = g[w]
  BY <1>5
<1>12. x.w = w /\ x.cnt \in Nat
  BY <1>7, <1>8, <1>11
<1>13. PICK i \in DOMAIN ring : w = ring[i].w /\ w < now
  BY <1>9
<1> QED  BY <1>12, <1>13

\* A new hour counts all the rows of its hour, and there is one for each hour
\* of the rows that are folded.
LEMMA NewHours ==
    ASSUME FleetRows, Floor \in Nat, HourOf(tick.at) \in Int, HourOf(tick.at) <= HourOf(ticked)
    PROVE  \E new :
             /\ Folded = {y \in hour : \A x \in new : x.h = y.h => ~MayReplace(x, y)}
                         \cup {x \in new : \A y \in hour : x.h = y.h => MayReplace(x, y)}
             /\ \A x \in new : /\ x.h \in Nat /\ x.cnt \in Nat /\ x.cnt = CountOf(InHour(x.h))
                               /\ Floor <= x.h /\ x.h < HourOf(tick.at)
             /\ \A x, z \in new : x.h = z.h => x = z
             /\ \A x \in five : Floor <= HourOf(x.w) /\ HourOf(x.w) < HourOf(tick.at)
                                  => \E z \in new : z.h = HourOf(x.w)
<1> DEFINE rows == {x \in five : HourOf(x.w) >= Floor /\ HourOf(x.w) < HourOf(tick.at)}
           In(h) == {x \in rows : HourOf(x.w) = h}
           entry(h) == [h |-> h, cnt |-> CountOf(In(h)), of |-> UNION {x.of : x \in In(h)}]
           new == {entry(h) : h \in {HourOf(x.w) : x \in rows}}
<1>1. Folded = {y \in hour : \A x \in new : x.h = y.h => ~MayReplace(x, y)}
                \cup {x \in new : \A y \in hour : x.h = y.h => MayReplace(x, y)}
  BY DEF Folded
<1>2. \A x \in five : HourOf(x.w) \in Int
  BY HourBegins DEF FleetRows
<1>3. \A x \in new : \E z \in rows : x = entry(HourOf(z.w))
  OBVIOUS
<1>4. ASSUME NEW x \in new
      PROVE  /\ x.h \in Nat /\ x.cnt \in Nat /\ x.cnt = CountOf(InHour(x.h))
             /\ Floor <= x.h /\ x.h < HourOf(tick.at)
  <2>1. PICK z \in rows : x = entry(HourOf(z.w))
    BY <1>3
  <2>2. PICK h : h = HourOf(z.w)
    OBVIOUS
  <2>3. h \in Int /\ Floor <= h /\ h < HourOf(tick.at)
    BY <1>2, <2>2
  <2>4. In(h) = InHour(h)
    BY <2>3 DEF InHour
  <2>5. x.h = h /\ x.cnt = CountOf(InHour(h))
    BY <2>1, <2>2, <2>4
  <2>6. CountOf(InHour(h)) \in Nat
    <3>1. InHour(h) \subseteq five
      BY DEF InHour
    <3>2. IsFiniteSet(InHour(h)) /\ \A y \in InHour(h) : y.cnt \in Nat
      BY <3>1, FS_Subset DEF FleetRows
    <3> QED  BY <3>2, CountIsNat
  <2> QED  BY <2>3, <2>5, <2>6
<1>5. \A x, z \in new : x.h = z.h => x = z
  <2>1. \A h : entry(h).h = h
    OBVIOUS
  <2>2. \A x \in new : x = entry(x.h)
    <3> HIDE DEF entry, new
    <3> QED  BY <1>3, <2>1
  <2> HIDE DEF entry, new
  <2> QED  BY <2>2
<1>6. ASSUME NEW x \in five, Floor <= HourOf(x.w), HourOf(x.w) < HourOf(tick.at)
      PROVE  \E z \in new : z.h = HourOf(x.w)
  <2>1. x \in rows
    BY <1>2, <1>6
  <2>2. entry(HourOf(x.w)) \in new
    BY <2>1
  <2> QED  BY <2>2
<1> HIDE DEF new
<1> QED  BY <1>1, <1>4, <1>5, <1>6

LEMMA FoldFacts ==
    ASSUME FleetRows, FleetTicks, FleetLadder, now \in Nat, tick.next = "fold"
    PROVE  /\ \A z \in Folded : z.h \in Nat /\ z.cnt \in Nat /\ z.h < HourOf(ticked)
           /\ \A y, z \in Folded : y.h = z.h => y = z
           /\ \A y \in hour : \E z \in Folded : z.h = y.h /\ z.cnt >= y.cnt
           /\ \A x \in five : HourOf(x.w) < HourOf(tick.at)
                => \E z \in Folded : z.h = HourOf(x.w) /\ z.cnt >= CountOf(InHour(HourOf(x.w)))
<1>1. tick.at = ticked /\ ticked \in Nat /\ HourOf(ticked) \in Int
  BY HourBegins DEF FleetTicks, NoTick
<1>2. \A y \in hour : y.h \in Nat /\ y.cnt \in Nat /\ y.h < HourOf(ticked)
  BY DEF FleetRows
<1>3. hour # {} => Floor \in Nat /\ (\E y \in hour : y.h = Floor)
  <2>1. HAVE hour # {}
  <2>2. HourOf(ticked) \in Nat
    BY <1>1, <1>2, <2>1
  <2> QED  BY <1>2, <2>1, <2>2, NewestHour
<1>4. Floor \in Nat
  <2>1. hour = {} => Floor = 0
    BY DEF Floor
  <2> QED  BY <1>3, <2>1
<1>5. PICK new :
             /\ Folded = {y \in hour : \A x \in new : x.h = y.h => ~MayReplace(x, y)}
                         \cup {x \in new : \A y \in hour : x.h = y.h => MayReplace(x, y)}
             /\ \A x \in new : /\ x.h \in Nat /\ x.cnt \in Nat /\ x.cnt = CountOf(InHour(x.h))
                               /\ Floor <= x.h /\ x.h < HourOf(tick.at)
             /\ \A x, z \in new : x.h = z.h => x = z
             /\ \A x \in five : Floor <= HourOf(x.w) /\ HourOf(x.w) < HourOf(tick.at)
                                  => \E z \in new : z.h = HourOf(x.w)
  BY <1>1, <1>4, NewHours
<1>6. \A y, z \in hour : y.h = z.h => y = z
  BY DEF FleetRows
<1>7. \A z \in Folded : z.h \in Nat /\ z.cnt \in Nat /\ z.h < HourOf(ticked)
  BY <1>1, <1>2, <1>5
<1>8. \A y, z \in Folded : y.h = z.h => y = z
  BY <1>5, <1>6
\* Of a new hour and the one it finds the one that counts more is kept.
<1>9. \A y \in hour : \E z \in Folded : z.h = y.h /\ z.cnt >= y.cnt
  <2>1. SUFFICES ASSUME NEW y \in hour
                 PROVE  \E z \in Folded : z.h = y.h /\ z.cnt >= y.cnt
    OBVIOUS
  <2>2. CASE \A x \in new : x.h = y.h => ~MayReplace(x, y)
    BY <1>2, <1>5, <2>2
  <2>3. CASE \E x \in new : x.h = y.h /\ MayReplace(x, y)
    <3>1. PICK x \in new : x.h = y.h /\ MayReplace(x, y)
      BY <2>3
    <3>2. \A v \in hour : x.h = v.h => v = y
      BY <1>6, <3>1
    <3>3. x \in Folded
      BY <1>5, <3>1, <3>2
    <3> QED  BY <3>1, <3>3 DEF MayReplace
  <2> QED  BY <2>2, <2>3
<1>10. \A x \in new : \E z \in Folded : z.h = x.h /\ z.cnt >= x.cnt
  <2>1. SUFFICES ASSUME NEW x \in new
                 PROVE  \E z \in Folded : z.h = x.h /\ z.cnt >= x.cnt
    OBVIOUS
  <2>2. CASE \A y \in hour : x.h = y.h => MayReplace(x, y)
    BY <1>5, <2>2
  <2>3. CASE \E y \in hour : x.h = y.h /\ ~MayReplace(x, y)
    <3>1. PICK y \in hour : x.h = y.h /\ ~MayReplace(x, y)
      BY <2>3
    <3>2. y.cnt >= x.cnt
      BY <1>2, <1>5, <3>1 DEF MayReplace
    <3>3. \A v \in new : v.h = y.h => v = x
      BY <1>5, <3>1
    <3>4. y \in Folded
      BY <1>5, <3>1, <3>3
    <3> QED  BY <3>1, <3>2, <3>4
  <2> QED  BY <2>2, <2>3
<1>11. ASSUME NEW x \in five, HourOf(x.w) < HourOf(tick.at)
       PROVE  \E z \in Folded : z.h = HourOf(x.w) /\ z.cnt >= CountOf(InHour(HourOf(x.w)))
  <2>1. PICK h \in Int : h = HourOf(x.w)
    BY HourBegins DEF FleetRows
  <2>2. h < Floor => \E y \in hour : h < y.h
    <3>1. x.w \in Nat
      BY DEF FleetRows
    <3>2. 0 <= h
      <4>1. 0 * HourLen <= x.w
        BY <3>1, TelemetryAssumption
      <4> QED  BY <2>1, <3>1, <4>1, HourIs
    <3>3. hour = {} => Floor = 0
      BY DEF Floor
    <3> QED  BY <1>3, <2>1, <3>2, <3>3
  <2>3. CASE Floor <= h
    <3>1. PICK z \in new : z.h = h
      BY <1>5, <2>1, <2>3, <1>11
    <3>2. z.cnt = CountOf(InHour(h)) /\ z.cnt \in Nat
      BY <1>5, <3>1
    <3> QED  BY <1>10, <2>1, <3>1, <3>2
  <2>4. CASE h < Floor
    <3>1. Counted(h)
      BY <2>1, <2>2, <2>4 DEF FleetLadder
    <3>2. PICK y \in hour : y.h = h /\ y.cnt >= CountOf(InHour(h))
      BY <3>1 DEF Counted
    <3>3. \A v \in new : v.h # h
      BY <1>4, <1>5, <2>4
    <3>4. y \in Folded
      BY <1>5, <3>2, <3>3
    <3> QED  BY <2>1, <3>2, <3>4
  <2> QED  BY <1>4, <2>1, <2>3, <2>4
<1> HIDE <1>5
<1> QED  BY <1>7, <1>8, <1>9, <1>11

\* The ring, the clock and the cycle.
LEMMA FleetTickStep == FleetInv /\ FleetTicks /\ [FleetNext]_fleetVars => FleetTicks'
<1> SUFFICES ASSUME FleetInv, FleetTicks, [FleetNext]_fleetVars PROVE FleetTicks'
  OBVIOUS
<1>1. /\ now \in Nat /\ ring \in Seq([r : Routers, w : Nat]) /\ snap \in Snaps \cup {NoSnap}
  BY DEF FleetInv, FleetTypes
<1>2. \A i \in DOMAIN ring : ring[i] \in [r : Routers, w : Nat]
  BY <1>1, SeqElems
<1>3. CASE Advance
  <2>1. now' = now + 1 /\ tick = NoTick /\ (snap.kind # "none" => snap.at = now) /\ UNCHANGED <<ring, snap, tick, ticked>>
    BY <1>3 DEF Advance, fleet, memory
  <2>2. snap # NoSnap => snap.kind # "none"
    BY <1>1 DEF Snaps
  <2> QED  BY <1>1, <1>2, <2>1, <2>2 DEF FleetTicks
<1>4. CASE \E kind \in {"full", "failed", "aux"} : Poll(kind)
  <2>1. snap'.at = now /\ UNCHANGED <<now, ring, tick, ticked>>
    BY <1>4 DEF Poll, telemetry
  <2> QED  BY <1>1, <2>1 DEF FleetTicks
<1>5. CASE EmitFull \/ EmitAux
  <2>1. ring' = Sampled(snap) /\ snap' = NoSnap /\ UNCHANGED <<now, tick, ticked>>
    BY <1>5 DEF EmitFull, EmitAux, ObserveFull, ObserveWAN
  <2>2. snap \in Snaps
    BY <1>1, <1>5 DEF EmitFull, EmitAux, NoSnap
  <2>3. PICK D : D = {x \in [r : Routers, w : Nat] : ticked - 1 <= x.w}
    OBVIOUS
  <2>4. ring \in Seq(D)
    BY <1>1, <1>2, <2>3, SeqRetyped DEF FleetTicks
  <2>5. [r |-> snap.r, w |-> snap.at] \in D
    <3>1. ticked - 1 <= snap.at
      BY <1>1, <2>2, TelemetryAssumption DEF FleetTicks, NoSnap, Snaps
    <3> QED  BY <2>2, <2>3, <3>1 DEF Snaps
  <2>6. ring' \in Seq(D)
    BY <2>1, <2>4, <2>5, SampledFacts
  <2>7. \A i \in DOMAIN ring' : ring'[i] \in D
    BY <2>6, SeqElems
  <2> QED  BY <2>1, <2>3, <2>7 DEF FleetTicks
<1>6. CASE EmitFailed
  <2>1. snap' = NoSnap /\ UNCHANGED <<now, ring, tick, ticked>>
    BY <1>6 DEF EmitFailed, telemetry
  <2> QED  BY <2>1 DEF FleetTicks
<1>7. CASE PurgeDeviceState \/ Restart
  <2>1. ring' = <<>> /\ tick' \in {tick, NoTick} /\ snap' \in {snap, NoSnap} /\ UNCHANGED <<now, ticked>>
    BY <1>7 DEF PurgeDeviceState, Restart, ForgetDevice
  <2> QED  BY <2>1 DEF FleetTicks
<1>8. CASE Flush /\ UNCHANGED fleet
  <2>1. /\ tick' = [next |-> "write", at |-> now] /\ ticked' = now /\ UNCHANGED <<now, snap>>
        /\ ring' = Kept(ring, DOMAIN ring \ Completed)
    BY <1>8 DEF Flush, fleet
  <2>2. PICK D : D = {x \in [r : Routers, w : Nat] : now <= x.w}
    OBVIOUS
  <2>3. \A i \in DOMAIN ring \ Completed : ring[i] \in D
    BY <1>1, <1>2, <2>2 DEF Completed
  <2>4. ring' \in Seq(D)
    BY <1>1, <2>1, <2>3, KeptIn
  <2>5. \A i \in DOMAIN ring' : now <= ring'[i].w /\ ring'[i].w \in Nat
    <3>1. \A i \in DOMAIN ring' : ring'[i] \in D
      BY <2>4, SeqElems
    <3> QED  BY <2>2, <3>1
  <2>6. \A i \in DOMAIN ring' : now - 1 <= ring'[i].w
    BY <1>1, <2>5
  <2>7. tick' \in [next : {"write", "fold", "prune"}, at : {now}]
    BY <2>1
  <2>8. snap' # NoSnap => now - 1 <= snap'.at /\ snap'.at <= now
    BY <2>1 DEF FleetTicks, NoSnap
  <2>9. now' = now /\ ticked' = now
    BY <2>1
  <2> QED  BY ONLY <1>1, <2>6, <2>7, <2>8, <2>9 DEF FleetTicks, NoSnap
<1>9. CASE (WriteRollups \/ LoseRollups \/ FoldHourly \/ EndTickEarly \/ Prune) /\ UNCHANGED fleet
  <2>1. UNCHANGED <<now, ring, snap, ticked>>
    BY <1>9 DEF WriteRollups, LoseRollups, FoldHourly, EndTickEarly, Prune, fleet, memory
  <2>2. tick # NoTick /\ (tick' = NoTick \/ \E n \in {"fold", "prune"} : tick' = [tick EXCEPT !.next = n])
    BY <1>9 DEF WriteRollups, LoseRollups, FoldHourly, EndTickEarly, Prune, NoTick
  <2>3. tick' = NoTick \/ tick' \in [next : {"write", "fold", "prune"}, at : {now}]
    BY <2>2 DEF FleetTicks
  <2> QED  BY <2>1, <2>2, <2>3 DEF FleetTicks
<1>10. CASE UNCHANGED <<now, ring, snap, tick, ticked>>
  BY <1>10 DEF FleetTicks
<1>11. ((\E r \in Routers : Reboot(r) \/ Register(r)) \/ RetrackReads \/ RetrackAdds \/ BeginDelete \/ CommitDelete
          \/ RefuseDelete \/ SweepDeleted \/ SweepFails \/ UNCHANGED fleetVars)
         => UNCHANGED <<now, ring, snap, tick, ticked>>
  BY DEF Reboot, Register, RetrackReads, RetrackAdds, BeginDelete, CommitDelete, RefuseDelete, SweepDeleted, SweepFails,
         fleetVars, telemetry, fleet, memory
<1> QED  BY <1>3, <1>4, <1>5, <1>6, <1>7, <1>8, <1>9, <1>10, <1>11 DEF FleetNext

\* What is drained is not older than the newest hour.
LEMMA FlushRows ==
    ASSUME FleetInv, FleetTicks, FleetRows, FleetLadder, Flush
    PROVE  FleetRows' /\ FleetLadder'
<1>1. /\ now \in Nat /\ ring \in Seq([r : Routers, w : Nat])
      /\ ticked \in Nat /\ ticked <= now /\ \A i \in DOMAIN ring : ticked - 1 <= ring[i].w
  BY DEF FleetInv, FleetTypes, FleetTicks
<1>2. \A i \in DOMAIN ring : ring[i].w \in Nat
  <2>1. \A i \in DOMAIN ring : ring[i] \in [r : Routers, w : Nat]
    BY <1>1, SeqElems
  <2> QED  BY <2>1
<1>3. /\ batch' = Drained /\ ticked' = now /\ tick'.next = "write"
      /\ UNCHANGED <<five, hour>>
  BY DEF Flush, ladder
<1>4. IsFiniteSet(batch') /\ \A x \in batch' : x.w \in Nat /\ x.cnt \in Nat /\ ticked - 1 <= x.w
  <2>1. PICK n \in Nat : DOMAIN ring = 1..n
    BY <1>1
  <2>2. /\ IsFiniteSet(Drained)
        /\ \A x \in Drained : x.cnt \in Nat /\ \E i \in DOMAIN ring : x.w = ring[i].w /\ x.w < now
    BY <1>2, <2>1, DrainedFacts
  <2> QED  BY <1>1, <1>2, <1>3, <2>2
<1>5. \A y \in hour : y.h \in Nat /\ y.cnt \in Nat /\ y.h < HourOf(ticked)
  BY DEF FleetRows
<1>6. \A y \in hour' : y.h \in Nat /\ y.cnt \in Nat /\ y.h < HourOf(ticked')
  <2>1. HourOf(ticked) <= HourOf(now) /\ HourOf(ticked) \in Int /\ HourOf(now) \in Int
    <3>1. ticked \in Int /\ now \in Int
      BY <1>1
    <3>2. HourOf(ticked) <= HourOf(now)
      BY <1>1, <3>1, HourOrder
    <3> QED  BY <3>1, <3>2, HourBegins
  <2> QED  BY <1>3, <1>5, <2>1
<1>7. \A x \in batch' : \A y \in hour' : y.h <= HourOf(x.w)
  <2>1. SUFFICES ASSUME NEW x \in batch', NEW y \in hour PROVE y.h <= HourOf(x.w)
    BY <1>3
  <2>2. PICK w \in Nat : w = x.w /\ ticked - 1 <= w
    BY <1>4
  <2>3. HourOf(ticked) - 1 <= HourOf(ticked - 1)
    BY <1>1, HourOrder
  <2>4. HourOf(ticked - 1) <= HourOf(w)
    <3>1. ticked - 1 \in Int /\ w \in Int
      BY <1>1
    <3> QED  BY <2>2, <3>1, HourOrder
  <2>5. HourOf(ticked) \in Int /\ HourOf(ticked - 1) \in Int /\ HourOf(w) \in Int
    <3>1. ticked - 1 \in Int /\ w \in Int /\ ticked \in Int
      BY <1>1
    <3> QED  BY <3>1, HourBegins
  <2>6. y.h \in Nat /\ y.h < HourOf(ticked)
    BY <1>5
  <2> QED  BY <2>2, <2>3, <2>4, <2>5, <2>6
<1>8. FleetRows'
  BY <1>3, <1>4, <1>6, <1>7 DEF FleetRows
<1>9. FleetLadder'
  BY <1>3 DEF FleetLadder, Counted, InHour
<1> QED  BY <1>8, <1>9

\* The rows that are written leave the hours before the newest as they are.
LEMMA WriteRows ==
    ASSUME FleetTicks, FleetRows, FleetLadder, WriteRollups
    PROVE  FleetRows' /\ FleetLadder'
<1>1. batch' = {} /\ tick'.next # "prune" /\ UNCHANGED <<hour, ticked>> /\ five' \in {five, Upserted(five, batch)}
  <2>1. tick' = [tick EXCEPT !.next = "fold"] /\ tick \in [next : {"write", "fold", "prune"}, at : {now}]
    BY DEF WriteRollups, FleetTicks, NoTick
  <2> QED  BY <2>1 DEF WriteRollups
<1>2. CASE five' = five
  <2>1. FleetRows'
    BY <1>1, <1>2, FS_EmptySet DEF FleetRows
  <2>2. FleetLadder'
    BY <1>1, <1>2 DEF FleetLadder, Counted, InHour
  <2> QED  BY <2>1, <2>2
<1>3. CASE five' = Upserted(five, batch)
  <2>1. IsFiniteSet(five') /\ five' \subseteq five \cup batch
    <3>1. five' \subseteq five \cup batch
      BY <1>3 DEF Upserted
    <3>2. IsFiniteSet(five \cup batch)
      BY FS_Union DEF FleetRows
    <3> QED  BY <3>1, <3>2, FS_Subset
  <2>2. FleetRows'
    BY <1>1, <2>1, FS_EmptySet DEF FleetRows
  <2>3. ASSUME NEW x \in five', NEW y \in hour, HourOf(x.w) < y.h
        PROVE  x \in five /\ InHour(HourOf(x.w))' = InHour(HourOf(x.w))
    <3>1. PICK h \in Int : h = HourOf(x.w)
      BY <2>1, HourBegins DEF FleetRows
    <3>2. y.h \in Nat /\ h < y.h
      BY <2>3, <3>1 DEF FleetRows
    <3>3. \A b \in batch : HourOf(b.w) \in Int /\ y.h <= HourOf(b.w)
      BY HourBegins DEF FleetRows
    <3>4. \A b \in batch : HourOf(b.w) # h
      BY <3>2, <3>3
    <3>5. \A z : HourOf(z.w) = h => (z \in five' <=> z \in five)
      <4>1. SUFFICES ASSUME NEW z, HourOf(z.w) = h PROVE z \in five' <=> z \in five
        OBVIOUS
      <4>2. z \notin batch /\ \A b \in batch : b.w # z.w
        BY <3>4, <4>1
      <4> QED  BY <1>3, <4>2 DEF Upserted
    <3> QED  BY <3>1, <3>5 DEF InHour
  <2>4. FleetLadder'
    <3>1. SUFFICES ASSUME NEW x \in five', NEW y \in hour, HourOf(x.w) < y.h
                   PROVE  \E z \in hour : z.h = HourOf(x.w) /\ z.cnt >= CountOf(InHour(HourOf(x.w))')
      BY <1>1 DEF FleetLadder, Counted
    <3>2. Counted(HourOf(x.w))
      BY <2>3, <3>1 DEF FleetLadder
    <3> QED  BY <2>3, <3>1, <3>2 DEF Counted
  <2> QED  BY <2>2, <2>4
<1> QED  BY <1>1, <1>2, <1>3

LEMMA FoldRows ==
    ASSUME FleetInv, FleetTicks, FleetRows, FleetLadder, FoldHourly
    PROVE  FleetRows' /\ FleetLadder'
<1>1. tick.next = "fold" /\ hour' = Folded /\ UNCHANGED <<five, batch, ticked>> /\ tick'.at = tick.at /\ tick.at = ticked
  <2>1. tick' = [tick EXCEPT !.next = "prune"] /\ tick.next = "fold"
    BY DEF FoldHourly
  <2>2. tick \in [next : {"write", "fold", "prune"}, at : {now}] /\ ticked = now
    BY <2>1 DEF FleetTicks, NoTick
  <2> QED  BY <2>1, <2>2 DEF FoldHourly
<1>2. batch = {}
  BY <1>1 DEF FleetInv, FleetOwn
<1>3. /\ \A z \in hour' : z.h \in Nat /\ z.cnt \in Nat /\ z.h < HourOf(ticked)
      /\ \A y, z \in hour' : y.h = z.h => y = z
      /\ \A x \in five : HourOf(x.w) < HourOf(tick.at)
            => \E z \in hour' : z.h = HourOf(x.w) /\ z.cnt >= CountOf(InHour(HourOf(x.w)))
  <2>1. now \in Nat
    BY DEF FleetInv, FleetTypes
  <2> QED  BY <1>1, <2>1, FoldFacts
<1>4. FleetRows'
  BY <1>1, <1>2, <1>3 DEF FleetRows
<1>5. \A x \in five : HourOf(x.w) < HourOf(ticked) => Counted(HourOf(x.w))'
  <2>1. \A h : InHour(h)' = InHour(h)
    BY <1>1 DEF InHour
  <2> QED  BY <1>1, <1>3, <2>1 DEF Counted
<1>6. \A x \in five : HourOf(x.w) \in Int
  BY HourBegins DEF FleetRows
<1>7. HourOf(ticked) \in Int
  BY HourBegins DEF FleetTicks
<1>8. FleetLadder'
  BY <1>1, <1>3, <1>5, <1>6, <1>7 DEF FleetLadder
<1> QED  BY <1>4, <1>8

\* The cut is at an hour, so that an hour goes with all of its rows or stays
\* with all of them, and an hour outlives its rows.
LEMMA PruneFacts ==
    ASSUME FleetTicks, FleetRows, now \in Nat, Prune
    PROVE  /\ tick.next = "prune" /\ tick.at = now
           /\ \A x \in five : x \notin five' => HourOf(x.w) < HourOf(tick.at)
           /\ \A x \in five' : InHour(HourOf(x.w))' = InHour(HourOf(x.w))
           /\ \A x \in five' : \A y \in hour : y.h = HourOf(x.w) => y \in hour'
<1>1. tick.next = "prune" /\ tick.at = now
  BY DEF Prune, FleetTicks, NoTick
<1>2. /\ five' = {x \in five : x.w >= Cut(now)}
      /\ hour' = {y \in hour : y.h * HourLen >= now - Hourly}
  BY <1>1 DEF Prune
<1>3. PICK n \in Nat \ {0}, f \in Int, r \in Int : n = HourLen /\ f = FiveMinute /\ r = Hourly /\ f >= n /\ r >= f + (n - 1)
  BY TelemetryAssumption
<1>4. PICK t \in Int : t = now - f
  BY <1>3
<1>5. PICK c \in Int : c = HourOf(t)
  BY <1>4, HourBegins
<1>6. Cut(now) = c * n /\ c * n \in Int /\ c * n <= t /\ t < c * n + n
  BY <1>3, <1>4, <1>5, HourBegins DEF Cut
<1>7. \A x \in five : HourOf(x.w) \in Int /\ (c <= HourOf(x.w) <=> x.w >= Cut(now))
  <2>1. SUFFICES ASSUME NEW x \in five
                 PROVE  HourOf(x.w) \in Int /\ (c <= HourOf(x.w) <=> x.w >= Cut(now))
    OBVIOUS
  <2>2. PICK w \in Int : w = x.w
    BY DEF FleetRows
  <2>3. c <= HourOf(w) <=> c * n <= w
    BY <1>3, HourIs
  <2>4. HourOf(w) \in Int
    BY HourBegins
  <2> QED  BY <1>6, <2>2, <2>3, <2>4
<1>8. \A x \in five : x \notin five' => HourOf(x.w) < HourOf(now)
  <2>1. c <= HourOf(now) /\ HourOf(now) \in Int
    <3>1. t <= now /\ now \in Int
      BY <1>3, <1>4
    <3> QED  BY <1>4, <1>5, <3>1, HourOrder, HourBegins
  <2> QED  BY <1>2, <1>7, <2>1
<1>9. \A x \in five' : InHour(HourOf(x.w))' = InHour(HourOf(x.w))
  BY <1>2, <1>7 DEF InHour
<1>10. \A x \in five' : \A y \in hour : y.h = HourOf(x.w) => y \in hour'
  <2>1. SUFFICES ASSUME NEW x \in five', NEW y \in hour, y.h = HourOf(x.w)
                 PROVE  y.h * HourLen >= now - Hourly
    BY <1>2
  <2>2. PICK h \in Nat : h = y.h
    BY DEF FleetRows
  <2>3. c <= h
    BY <1>2, <1>7, <2>1, <2>2
  <2>4. c * n <= h * n /\ h * n \in Int
    <3>1. c < h => c * n + n <= h * n
      BY <1>3, TimesApart
    <3>2. c = h => c * n = h * n
      OBVIOUS
    <3>3. h * n \in Int
      OBVIOUS
    <3> QED  BY <1>6, <2>3, <3>1, <3>2, <3>3
  <2>5. h * n >= now - r
    BY <1>3, <1>4, <1>6, <2>4
  <2> QED  BY <1>3, <2>2, <2>5
<1> QED  BY <1>1, <1>8, <1>9, <1>10

LEMMA PruneRows ==
    ASSUME FleetInv, FleetTicks, FleetRows, FleetLadder, Prune
    PROVE  FleetRows' /\ FleetLadder'
<1>1. five' \subseteq five /\ hour' \subseteq hour /\ tick'.next = "none" /\ UNCHANGED <<batch, ticked>>
  BY DEF Prune, NoTick
<1>2. IsFiniteSet(five')
  BY <1>1, FS_Subset DEF FleetRows
<1>3. FleetRows'
  BY <1>1, <1>2 DEF FleetRows
<1>4. /\ \A x \in five' : InHour(HourOf(x.w))' = InHour(HourOf(x.w))
      /\ \A x \in five' : \A y \in hour : y.h = HourOf(x.w) => y \in hour'
  <2>1. now \in Nat
    BY DEF FleetInv, FleetTypes
  <2> QED  BY <2>1, PruneFacts
<1>5. ASSUME NEW x \in five', NEW y \in hour', HourOf(x.w) < y.h
      PROVE  Counted(HourOf(x.w))'
  <2>1. Counted(HourOf(x.w))
    BY <1>1, <1>5 DEF FleetLadder
  <2> QED  BY <1>4, <2>1 DEF Counted
<1>6. FleetLadder'
  BY <1>1, <1>5 DEF FleetLadder
<1> QED  BY <1>3, <1>6

\* A sweep takes the rows and the hours together.
LEMMA SweepRows ==
    ASSUME FleetRows, FleetLadder, batch' \in {batch, {}}, ticked' = ticked, tick' \in {tick, NoTick},
           UNCHANGED <<five, hour>> \/ (five' = {} /\ hour' = {})
    PROVE  FleetRows' /\ FleetLadder'
<1>1. IsFiniteSet(five') /\ IsFiniteSet(batch')
  BY FS_EmptySet DEF FleetRows
<1>2. five' \subseteq five /\ hour' \subseteq hour /\ batch' \subseteq batch
  OBVIOUS
<1>3. FleetRows'
  BY <1>1, <1>2 DEF FleetRows
<1>4. tick'.next = "prune" => tick' = tick
  BY DEF NoTick
<1>5. FleetLadder'
  <2>1. CASE UNCHANGED <<five, hour>>
    BY <1>4, <2>1 DEF FleetLadder, Counted, InHour
  <2>2. CASE five' = {}
    BY <2>2 DEF FleetLadder
  <2> QED  BY <2>1, <2>2
<1> QED  BY <1>3, <1>5

LEMMA FleetLadderStep ==
    FleetInv /\ FleetTicks /\ FleetRows /\ FleetLadder /\ [FleetNext]_fleetVars => FleetRows' /\ FleetLadder'
<1> SUFFICES ASSUME FleetInv, FleetTicks, FleetRows, FleetLadder, [FleetNext]_fleetVars
             PROVE  FleetRows' /\ FleetLadder'
  OBVIOUS
<1>1. CASE Flush /\ UNCHANGED fleet
  BY <1>1, FlushRows
<1>2. CASE WriteRollups /\ UNCHANGED fleet
  BY <1>2, WriteRows
<1>3. CASE LoseRollups /\ UNCHANGED fleet
  <2>1. tick \in [next : {"write", "fold", "prune"}, at : {now}]
    BY <1>3 DEF LoseRollups, FleetTicks, NoTick
  <2>2. batch' = {} /\ tick'.next = "fold" /\ UNCHANGED <<five, hour, ticked>>
    BY <1>3, <2>1 DEF LoseRollups, ladder
  <2>3. FleetRows'
    BY <2>2, FS_EmptySet DEF FleetRows
  <2>4. FleetLadder'
    BY <2>2 DEF FleetLadder, Counted, InHour
  <2> QED  BY <2>3, <2>4
<1>4. CASE FoldHourly /\ UNCHANGED fleet
  BY <1>4, FoldRows
<1>5. CASE Prune /\ UNCHANGED fleet
  BY <1>5, PruneRows
<1>6. CASE /\ batch' \in {batch, {}} /\ ticked' = ticked /\ tick' \in {tick, NoTick}
           /\ UNCHANGED <<five, hour>> \/ (five' = {} /\ hour' = {})
  BY <1>6, SweepRows
<1>7. (Advance \/ (\E r \in Routers : Reboot(r) \/ Register(r)) \/ (\E kind \in {"full", "failed", "aux"} : Poll(kind))
         \/ EmitFull \/ EmitFailed \/ EmitAux \/ RetrackReads \/ RetrackAdds \/ BeginDelete \/ CommitDelete \/ RefuseDelete
         \/ PurgeDeviceState \/ SweepFails \/ (EndTickEarly /\ UNCHANGED fleet) \/ UNCHANGED fleetVars)
        => ticked' = ticked /\ batch' = batch /\ tick' \in {tick, NoTick} /\ UNCHANGED <<five, hour>>
  BY DEF Advance, Reboot, Register, Poll, EmitFull, EmitFailed, EmitAux, RetrackReads, RetrackAdds, BeginDelete,
         CommitDelete, RefuseDelete, PurgeDeviceState, SweepFails, EndTickEarly, fleetVars, telemetry, ladder
<1>8. SweepDeleted \/ Restart
        => /\ batch' \in {batch, {}} /\ ticked' = ticked /\ tick' \in {tick, NoTick}
           /\ UNCHANGED <<five, hour>> \/ (five' = {} /\ hour' = {})
  BY DEF SweepDeleted, Restart, SweepOrphans
<1> QED  BY <1>1, <1>2, <1>3, <1>4, <1>5, <1>6, <1>7, <1>8 DEF FleetNext

HistoryInv == FleetTicks /\ FleetRows /\ FleetLadder

LEMMA HistoryStart == FleetInit => HistoryInv
<1> SUFFICES ASSUME FleetInit PROVE HistoryInv
  OBVIOUS
<1>1. /\ now = 0 /\ ring = <<>> /\ snap = NoSnap /\ tick = NoTick /\ ticked = 0
      /\ batch = {} /\ five = {} /\ hour = {}
  BY DEF FleetInit, TelemetryInit
<1>2. FleetTicks
  BY <1>1 DEF FleetTicks
<1>3. FleetRows
  BY <1>1, FS_EmptySet DEF FleetRows
<1>4. FleetLadder
  BY <1>1 DEF FleetLadder
<1> QED  BY <1>2, <1>3, <1>4 DEF HistoryInv

\* What leaves the rows and the hours as they are keeps history.
RowsKept == \A x \in five : (series' /\ \A y \in five' : y.w # x.w) =>
                \E y \in hour : y.h = HourOf(x.w)
                              /\ y.cnt >= CountOf({z \in five : HourOf(z.w) = HourOf(x.w)})
HoursKept == \A y \in hour : (series' /\ y.h * HourLen >= now - Hourly) =>
                \E z \in hour' : z.h = y.h /\ z.cnt >= y.cnt

LEMMA HistoryStep == FleetInv /\ HistoryInv /\ [FleetNext]_fleetVars => RowsKept /\ HoursKept
<1> SUFFICES ASSUME FleetInv, FleetTicks, FleetRows, FleetLadder, [FleetNext]_fleetVars
             PROVE  RowsKept /\ HoursKept
  BY DEF HistoryInv
<1>1. \A y \in hour : y.cnt \in Nat
  BY DEF FleetRows
<1>2. hour' = hour => HoursKept
  BY <1>1 DEF HoursKept
<1>3. five' = five => RowsKept
  BY DEF RowsKept
<1>4. ~series' => RowsKept /\ HoursKept
  BY DEF RowsKept, HoursKept
<1>5. CASE WriteRollups /\ UNCHANGED fleet
  <2>1. hour' = hour /\ five' \in {five, Upserted(five, batch)}
    BY <1>5 DEF WriteRollups
  <2>2. \A x \in five : \E y \in Upserted(five, batch) : y.w = x.w
    BY DEF Upserted
  <2>3. RowsKept
    BY <1>3, <2>1, <2>2 DEF RowsKept
  <2> QED  BY <1>2, <2>1, <2>3
<1>6. CASE FoldHourly /\ UNCHANGED fleet
  <2>1. five' = five /\ hour' = Folded /\ tick.next = "fold"
    BY <1>6 DEF FoldHourly
  <2>2. \A y \in hour : \E z \in Folded : z.h = y.h /\ z.cnt >= y.cnt
    <3>1. now \in Nat
      BY DEF FleetInv, FleetTypes
    <3> QED  BY <2>1, <3>1, FoldFacts
  <2>3. HoursKept
    BY <2>1, <2>2 DEF HoursKept
  <2> QED  BY <1>3, <2>1, <2>3
<1>7. CASE Prune /\ UNCHANGED fleet
  <2>1. /\ tick.next = "prune" /\ tick.at = now
        /\ \A x \in five : x \notin five' => HourOf(x.w) < HourOf(tick.at)
    <3>1. now \in Nat
      BY DEF FleetInv, FleetTypes
    <3> QED  BY <1>7, <3>1, PruneFacts
  <2>2. hour' = {y \in hour : y.h * HourLen >= now - Hourly}
    BY <1>7, <2>1 DEF Prune
  <2>3. HoursKept
    BY <1>1, <2>2 DEF HoursKept
  <2>4. \A x \in five : x \notin five' => Counted(HourOf(x.w))
    BY <2>1 DEF FleetLadder
  <2>5. RowsKept
    BY <2>4 DEF RowsKept, Counted, InHour
  <2> QED  BY <2>3, <2>5
<1>8. CASE UNCHANGED <<five, hour>>
  BY <1>2, <1>3, <1>8
<1>9. (Advance \/ (\E r \in Routers : Reboot(r) \/ Register(r)) \/ (\E kind \in {"full", "failed", "aux"} : Poll(kind))
         \/ EmitFull \/ EmitFailed \/ EmitAux \/ RetrackReads \/ RetrackAdds \/ BeginDelete \/ CommitDelete \/ RefuseDelete
         \/ PurgeDeviceState \/ SweepFails \/ ((EndTickEarly \/ Flush \/ LoseRollups) /\ UNCHANGED fleet) \/ UNCHANGED fleetVars)
        => UNCHANGED <<five, hour>>
  BY DEF Advance, Reboot, Register, Poll, EmitFull, EmitFailed, EmitAux, RetrackReads, RetrackAdds, BeginDelete, Flush, LoseRollups,
         CommitDelete, RefuseDelete, PurgeDeviceState, SweepFails, EndTickEarly, fleetVars, telemetry, ladder
<1>10. SweepDeleted \/ Restart => UNCHANGED <<five, hour>> \/ ~series'
  BY DEF SweepDeleted, Restart, SweepOrphans
<1> QED  BY <1>4, <1>5, <1>6, <1>7, <1>8, <1>9, <1>10 DEF FleetNext

(* Retention loses detail and never history, through late samples, lost    *)
(* writes, failed folds, un-adoptions and restarts: a five-minute row goes *)
(* only when its hour counts what its rows do, and the count of an hour    *)
(* never falls, for any length of an hour and any retentions.              *)
THEOREM FleetHistoryIsKept == FleetSpec => HistoryIsKept
<1>1. FleetInit => HistoryInv
  BY HistoryStart
<1>2. FleetInv /\ HistoryInv /\ [FleetNext]_fleetVars => HistoryInv'
  BY FleetTickStep, FleetLadderStep DEF HistoryInv
<1>3. FleetInv /\ HistoryInv /\ [FleetNext]_fleetVars => [RowsKept]_fleetVars /\ [HoursKept]_fleetVars
  BY HistoryStep
<1>4. FleetSpec => [][RowsKept]_fleetVars /\ [][HoursKept]_fleetVars
  BY <1>1, <1>2, <1>3, FleetInvariant, PTL DEF FleetSpec
<1>5. PrunedIsFolded <=> [][RowsKept]_fleetVars
  BY DEF PrunedIsFolded, RowsKept
<1>6. HourNeverShrinks <=> [][HoursKept]_fleetVars
  BY DEF HourNeverShrinks, HoursKept
<1> QED  BY <1>4, <1>5, <1>6 DEF HistoryIsKept
=============================================================================
