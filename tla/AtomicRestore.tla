---------------------------- MODULE AtomicRestore ----------------------------
(***************************************************************************)
(* What a controller restore promises: the database and keyring pair that  *)
(* is served changes in one step, only after an accepted confirmation, and *)
(* in the same step router writes are fenced until the owner resumes them. *)
(***************************************************************************)
CONSTANTS Restore, Pair, None

VARIABLES
    pair,      \* the controller's state
    pending,   \* the accepted restore: [id, pair], or None
    fenced,    \* the restore whose review is outstanding
    served,    \* the pair that answers requests, None while stopped
    writing    \* router writes are admitted

vars == <<pair, pending, fenced, served, writing>>

Init ==
    /\ pair \in Pair
    /\ pending = None
    /\ fenced = None
    /\ served = pair
    /\ writing = TRUE

Confirm ==
    /\ served # None /\ pending = None /\ fenced = None
    /\ pending' \in [id : Restore, pair : Pair]
    /\ UNCHANGED <<pair, fenced, served, writing>>

\* An accepted restore may be lost with the process that accepted it.
Stop ==
    /\ served' = None
    /\ writing' = FALSE
    /\ pending' \in {pending, None}
    /\ UNCHANGED <<pair, fenced>>

Commit ==
    /\ served = None /\ pending # None
    /\ pair' = pending.pair
    /\ fenced' = pending.id
    /\ pending' = None
    /\ UNCHANGED <<served, writing>>

Serve ==
    /\ served = None /\ pending = None
    /\ served' = pair
    /\ writing' = (fenced = None)
    /\ UNCHANGED <<pair, pending, fenced>>

\* The fence may go while this process still keeps router writes shut.
Resume ==
    /\ served # None /\ fenced # None
    /\ fenced' = None
    /\ writing' \in BOOLEAN
    /\ UNCHANGED <<pair, pending, served>>

Next == Confirm \/ Stop \/ Commit \/ Serve \/ Resume

Spec == Init /\ [][Next]_vars
==============================================================================
