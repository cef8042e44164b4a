------------------------------ MODULE Accounts ------------------------------
(***************************************************************************)
(* Controller accounts: the rows of the admins table (store/admin.go), the *)
(* in-memory session table, the sign-in throttle (api/auth.go) and the     *)
(* owner's account-management handlers (api/accounts.go).                  *)
(*                                                                         *)
(* Each account mutation is one BEGIN IMMEDIATE transaction; revoking the  *)
(* sessions it invalidates is a separate step of its handler, and a        *)
(* password derivation lies between reading a row and acting on it.  So a  *)
(* request is a process, `req[h]`, whose steps interleave with those of    *)
(* the others.  Time is abstracted: a session expires, a recent            *)
(* re-authentication lapses and a lockout ends at any moment.  A request   *)
(* whose client leaves, whose session is revoked (its context is           *)
(* cancelled) or that finds no free hashing slot stops before it commits.  *)
(***************************************************************************)
EXTENDS Naturals, FiniteSets

CONSTANTS Ids,        \* account ids; the username of an id never changes
          Passwords,
          Tokens,     \* session tokens
          Reqs,       \* requests in progress at the same time
          MaxFails,   \* throttle.max
          MaxEdits    \* bound on the account mutations started

ASSUME AccountsAssumption == /\ MaxFails \in Nat \ {0}
                             /\ MaxEdits \in Nat
                             /\ IsFiniteSet(Ids)

Roles == {"owner", "viewer"}   \* every role below owner is refused alike
Nobody == [status |-> "none"]
Deleted == [status |-> "deleted"]   \* the row reserves the username
Idle   == [pc |-> "idle"]
NoSession == [live |-> FALSE]
NoPassword == "none"
Guesses == Passwords \cup {NoPassword}   \* what a request offers as password

VARIABLES row,       \* id -> the admins row, Nobody without one
          sess,      \* token -> session
          throttle,  \* failed sign-ins of the address, counted up to the limit
          req,       \* requests in progress
          firsts,    \* history: accounts created without an authenticated actor
          edits      \* account mutations started, bounded by MaxEdits

vars == <<row, sess, throttle, req, firsts, edits>>

Hash(p, s, w) == [pw |-> p, salt |-> s, weak |-> w]

Enabled(i) == row[i].status = "enabled"
Owner(i)   == Enabled(i) /\ row[i].role = "owner"
Owners     == {i \in Ids : Owner(i)}
Present(i) == row[i].status \in {"enabled", "disabled"}

Live(t)   == sess[t].live
\* A random token: neither in the table nor that of a request in progress.
Fresh(t)  == ~Live(t) /\ \A h \in Reqs : "tok" \in DOMAIN req[h] => req[h].tok # t

-----------------------------------------------------------------------------
(* The session table.                                                      *)

\* create: the random token is one nobody holds.  `born` is a history: the
\* account's row as it was then, for a session that nobody compares with it.
Create(t, i, role, ver, born) ==
    [sess EXCEPT ![t] = [live |-> TRUE, id |-> i, role |-> role, ver |-> ver,
                         born |-> born, recent |-> TRUE]]

Drop(t) == [sess EXCEPT ![t] = NoSession]

DropAdmin(i) == [t \in Tokens |->
                    IF Live(t) /\ sess[t].id = i THEN NoSession ELSE sess[t]]

RoleAllows(actual, required) == required = "viewer" \/ actual = "owner"

\* requireAuth and requireRole, then requireRecentReauth on owner mutations.
MayManage(t) == Live(t) /\ RoleAllows(sess[t].role, "owner") /\ sess[t].recent

-----------------------------------------------------------------------------
(* The throttle: the failure that reaches the limit locks the address out. *)

Locked  == throttle = MaxFails
Fail    == IF Locked THEN throttle ELSE throttle + 1
Succeed == 0

\* The window or the lockout has passed (allow, fail and sweep start afresh).
ThrottleLapses == /\ throttle > 0
                  /\ throttle' = Succeed
                  /\ UNCHANGED <<row, sess, req, firsts, edits>>

-----------------------------------------------------------------------------
(* First-run setup.                                                        *)

Step(h, r) == req' = [req EXCEPT ![h] = r]

HandleSetup(h) ==
    /\ req[h] = Idle
    /\ \A i \in Ids : row[i] = Nobody
    /\ \E i \in Ids, p \in Passwords :
          Step(h, [pc |-> "setup_insert", id |-> i, pw |-> p])
    /\ UNCHANGED <<row, sess, throttle, firsts, edits>>

\* The insert repeats the check of HandleSetup inside its statement, over
\* every row: the tombstones of deleted accounts count.
NoAccounts == \A i \in Ids : row[i].status = "none"

CreateFirstAdmin(h) ==
    LET r == req[h] IN
    /\ r.pc = "setup_insert"
    /\ IF NoAccounts
       THEN /\ row' = [row EXCEPT ![r.id] =
                         [status |-> "enabled", role |-> "owner", ver |-> 0,
                          hash |-> Hash(r.pw, 0, FALSE)]]
            /\ firsts' = firsts + 1
            /\ Step(h, [pc |-> "setup_session", id |-> r.id])
       ELSE Step(h, Idle) /\ UNCHANGED <<row, firsts>>
    /\ UNCHANGED <<sess, throttle, edits>>

\* The session is that of the account as inserted: handleSetup does not read
\* the account again.
SetupSession(h) ==
    LET r == req[h] IN
    /\ r.pc = "setup_session"
    /\ \E t \in Tokens : Fresh(t) /\ sess' = Create(t, r.id, "owner", 0, row[r.id])
    /\ Step(h, Idle)
    /\ UNCHANGED <<row, throttle, firsts, edits>>

-----------------------------------------------------------------------------
(* Signing in.                                                             *)

\* throttle.allow, then AdminByName: a disabled or deleted account is absent.
HandleLogin(h) ==
    /\ req[h] = Idle
    /\ ~Locked
    /\ \E i \in Ids, p \in Guesses :
          Step(h, [pc |-> "verify", id |-> i, pw |-> p,
                   seen |-> IF Enabled(i) THEN row[i] ELSE Nobody])
    /\ UNCHANGED <<row, sess, throttle, firsts, edits>>

Verifies(seen, p) == seen # Nobody /\ seen.hash.pw = p

\* The session is in the table before the account is read again.
LoginVerify(h) ==
    LET r == req[h] IN
    /\ r.pc = "verify"
    /\ IF Verifies(r.seen, r.pw)
       THEN /\ \E t \in Tokens :
                 /\ Fresh(t)
                 /\ sess' = Create(t, r.id, r.seen.role, r.seen.ver, Nobody)
                 /\ Step(h, [pc |-> "recheck", id |-> r.id, pw |-> r.pw, tok |-> t,
                             seen |-> r.seen])
            /\ UNCHANGED throttle
       ELSE throttle' = Fail /\ Step(h, Idle) /\ UNCHANGED sess
    /\ UNCHANGED <<row, firsts, edits>>

\* Enabled, role and hash are still those the password was checked against.
StillEnabled(r) == Enabled(r.id)
StillSame(r) == /\ Enabled(r.id)
                /\ row[r.id].role = r.seen.role
                /\ row[r.id].hash = r.seen.hash

LoginRecheck(h) ==
    LET r == req[h] IN
    /\ r.pc = "recheck"
    /\ IF StillSame(r)
       THEN /\ throttle' = Succeed
            /\ Step(h, IF r.seen.hash.weak
                       THEN [pc |-> "rehash", id |-> r.id, pw |-> r.pw] ELSE Idle)
            /\ UNCHANGED sess
       ELSE /\ sess' = Drop(r.tok)
            /\ throttle' = Fail
            /\ Step(h, Idle)
    /\ UNCHANGED <<row, firsts, edits>>

\* setAdminPassword writes whatever hash it is given; every derivation has a
\* salt of its own.
Password(i, p) == Hash(p, row[i].hash.salt + 1, FALSE)

Rehash(h) ==
    LET r == req[h] IN
    /\ r.pc = "rehash"
    /\ row' = IF Enabled(r.id)
              THEN [row EXCEPT ![r.id].hash = Password(r.id, r.pw)] ELSE row
    /\ Step(h, Idle)
    /\ UNCHANGED <<sess, throttle, firsts, edits>>

-----------------------------------------------------------------------------
(* Account management by an owner.                                         *)

\* A request whose last step revokes the sessions of account i.
Dropping(i) == [pc |-> "drop", id |-> i]

Ops == {"create", "role", "enable", "disable", "delete", "reset", "revoke"}

\* The middlewares and the reads before the transaction; `revoke` has none.
HandleManage(h) ==
    /\ req[h] = Idle
    /\ edits < MaxEdits
    /\ edits' = edits + 1
    /\ \E t \in Tokens, i \in Ids, o \in Ops, p \in Passwords, role \in Roles :
          /\ MayManage(t)
          /\ o \in {"delete", "reset", "revoke"} => Present(i)
          /\ Step(h, IF o = "revoke" THEN Dropping(i)
                      ELSE [pc |-> "manage", op |-> o, id |-> i, who |-> sess[t].id,
                            pw |-> IF o \in {"create", "reset"} THEN p ELSE NoPassword,
                            role |-> IF o \in {"create", "role"} THEN role ELSE "viewer"])
    /\ UNCHANGED <<row, sess, throttle, firsts>>

\* resolveAccountOwnerOn inside the transaction.
ActorOwner(r) == Owner(r.who)

\* The condition of the UPDATE statements: the last enabled owner keeps it.
NeverLastOwner(i) == FALSE
LastOwner(i) == Owners = {i}

CreateAdmin(r) ==
    IF row[r.id] # Nobody THEN row    \* ErrAccountExists, tombstones included
    ELSE [row EXCEPT ![r.id] = [status |-> "enabled", role |-> r.role, ver |-> 0,
                                hash |-> Hash(r.pw, 0, FALSE)]]

SetAdminRole(r) ==
    IF ~Present(r.id) \/ (LastOwner(r.id) /\ r.role # "owner") THEN row
    ELSE [row EXCEPT ![r.id].role = r.role]

SetAdminEnabled(r, to) ==
    IF ~Present(r.id) \/ (LastOwner(r.id) /\ to = "disabled") THEN row
    ELSE [row EXCEPT ![r.id].status = to]

\* The row stays as a tombstone and the verifier goes.
DeleteAdmin(r) ==
    IF ~Present(r.id) \/ LastOwner(r.id) THEN row
    ELSE [row EXCEPT ![r.id] = Deleted]

ResetAdminPassword(r) ==
    IF ~Present(r.id) THEN row
    ELSE [row EXCEPT ![r.id].hash = Password(r.id, r.pw), ![r.id].ver = @ + 1]

Effect(r) ==
    CASE r.op = "create"  -> CreateAdmin(r)
      [] r.op = "role"    -> SetAdminRole(r)
      [] r.op = "enable"  -> SetAdminEnabled(r, "enabled")
      [] r.op = "disable" -> SetAdminEnabled(r, "disabled")
      [] r.op = "delete"  -> DeleteAdmin(r)
      [] r.op = "reset"   -> ResetAdminPassword(r)

\* A change that is already in place succeeds without an effect.
Refused(r) == CASE r.op = "create" -> row[r.id] # Nobody
                [] r.op = "role"   -> ~Present(r.id) \/ (LastOwner(r.id) /\ r.role # "owner")
                [] r.op \in {"disable", "delete"} -> ~Present(r.id) \/ LastOwner(r.id)
                [] OTHER -> ~Present(r.id)

\* Creating and enabling invalidate no session; everything else goes on to drop.
Revokes(r) == r.op \notin {"create", "enable"}

Manage(h) ==
    LET r == req[h] IN
    /\ r.pc = "manage"
    /\ \/ /\ ~Enabled(r.who)                \* ErrAccountActorInactive
          /\ sess' = DropAdmin(r.who)
          /\ Step(h, Idle) /\ UNCHANGED row
       \/ /\ Enabled(r.who) /\ (~ActorOwner(r) \/ Refused(r))
          /\ Step(h, Idle) /\ UNCHANGED <<row, sess>>
       \/ /\ ActorOwner(r) /\ ~Refused(r)
          /\ row' = Effect(r)
          /\ Step(h, IF Revokes(r) THEN Dropping(r.id) ELSE Idle)
          /\ UNCHANGED sess
    /\ UNCHANGED <<throttle, firsts, edits>>

\* sessions.dropAdmin of the target, the last step of every mutation.
DropSessions(h) ==
    LET r == req[h] IN
    /\ r.pc = "drop"
    /\ sess' = DropAdmin(r.id)
    /\ Step(h, Idle)
    /\ UNCHANGED <<row, throttle, firsts, edits>>

-----------------------------------------------------------------------------
(* The signed-in operator's own password.                                  *)

\* allowCredentialAttempt, then AdminByName of the session's account.
HandleCredential(h) ==
    /\ req[h] = Idle
    /\ \E t \in Tokens, o \in {"change", "reauth"}, p \in Guesses, q \in Passwords :
          /\ Live(t)
          /\ LET i == sess[t].id IN
             IF Enabled(i)
             THEN /\ o = "change" => edits < MaxEdits
                  /\ edits' = IF o = "change" THEN edits + 1 ELSE edits
                  /\ Step(h, [pc |-> o, id |-> i, tok |-> t, pw |-> p, seen |-> row[i],
                              new |-> IF o = "change" THEN q ELSE NoPassword])
                  /\ UNCHANGED sess
             ELSE sess' = DropAdmin(i) /\ UNCHANGED <<req, edits>>
    /\ UNCHANGED <<row, throttle, firsts>>

\* A wrong password counts against the session (an attempt it is refused for
\* is no step here); a right one does nothing once the session has left the
\* table: the handler then answers "session expired".
CredentialVerify(h) ==
    LET r == req[h]  ok == Verifies(r.seen, r.pw) IN
    /\ r.pc \in {"change", "reauth"}
    /\ sess' = IF ok /\ Live(r.tok) /\ r.pc = "reauth"
               THEN [sess EXCEPT ![r.tok].recent = TRUE] ELSE sess
    /\ Step(h, IF ok /\ Live(r.tok) /\ r.pc = "change"
               THEN [pc |-> "change_commit", id |-> r.id, new |-> r.new] ELSE Idle)
    /\ UNCHANGED <<row, throttle, firsts, edits>>

SetAdminPassword(h) ==
    LET r == req[h] IN
    /\ r.pc = "change_commit"
    /\ IF Enabled(r.id)
       THEN /\ row' = [row EXCEPT ![r.id].hash = Password(r.id, r.new),
                                  ![r.id].ver = @ + 1]
            /\ Step(h, Dropping(r.id))
            /\ UNCHANGED sess
       ELSE sess' = DropAdmin(r.id) /\ Step(h, Idle) /\ UNCHANGED row
    /\ UNCHANGED <<throttle, firsts, edits>>

-----------------------------------------------------------------------------
(* Sessions that end, and requests that stop.                              *)

\* logout, a revocation of one session by its operator or an owner, expiry.
Ended(t) == /\ Live(t)
            /\ sess' = Drop(t)
            /\ UNCHANGED <<row, throttle, req, firsts, edits>>

\* handleAccount finds its account disabled or deleted.
CurrentAccount(t) == /\ Live(t) /\ ~Enabled(sess[t].id)
                     /\ sess' = DropAdmin(sess[t].id)
                     /\ UNCHANGED <<row, throttle, req, firsts, edits>>

\* Five minutes after the password the step-up is over.
CredentialLapses(t) ==
    /\ Live(t) /\ sess[t].recent
    /\ sess' = [sess EXCEPT ![t].recent = FALSE]
    /\ UNCHANGED <<row, throttle, req, firsts, edits>>

\* A cancelled context, a full hashing queue or a store error before the
\* commit.  A sign-in that cannot read the account again drops its session.
GiveUp(h) ==
    LET r == req[h] IN
    /\ r.pc \notin {"idle", "drop"}
    /\ sess' = IF r.pc = "recheck" THEN Drop(r.tok) ELSE sess
    /\ Step(h, Idle)
    /\ UNCHANGED <<row, throttle, firsts, edits>>

-----------------------------------------------------------------------------
Account(role, p) == [status |-> "enabled", role |-> role, ver |-> 0, hash |-> Hash(p, 0, TRUE)]

\* A new installation, or one an older release enrolled: its owner and perhaps
\* a second account, with hashes of the older cost.
Init == /\ row \in {[i \in Ids |-> Nobody]} \cup
                   UNION {{[i \in Ids |-> IF i = o THEN Account("owner", p) ELSE other] :
                             other \in {Nobody, Account("owner", p), Account("viewer", p)}} :
                          o \in Ids, p \in Passwords}
        /\ sess = [t \in Tokens |-> NoSession]
        /\ throttle = Succeed
        /\ req = [h \in Reqs |-> Idle]
        /\ firsts = IF Owners = {} THEN 0 ELSE 1
        /\ edits = 0

Next == \/ ThrottleLapses
        \/ \E h \in Reqs : HandleSetup(h)
        \/ \E h \in Reqs : CreateFirstAdmin(h)
        \/ \E h \in Reqs : SetupSession(h)
        \/ \E h \in Reqs : HandleLogin(h)
        \/ \E h \in Reqs : LoginVerify(h)
        \/ \E h \in Reqs : LoginRecheck(h)
        \/ \E h \in Reqs : Rehash(h)
        \/ \E h \in Reqs : HandleManage(h)
        \/ \E h \in Reqs : Manage(h)
        \/ \E h \in Reqs : DropSessions(h)
        \/ \E h \in Reqs : HandleCredential(h)
        \/ \E h \in Reqs : CredentialVerify(h)
        \/ \E h \in Reqs : SetAdminPassword(h)
        \/ \E t \in Tokens : Ended(t)
        \/ \E t \in Tokens : CurrentAccount(t)
        \/ \E t \in Tokens : CredentialLapses(t)
        \/ \E h \in Reqs : GiveUp(h)

Spec == Init /\ [][Next]_vars

-----------------------------------------------------------------------------
(* Once there has been an account there is an enabled owner, although two  *)
(* owners may demote, disable or delete each other at the same time, and   *)
(* only one account was ever created without an authenticated actor:       *)
(* deleting accounts does not open first-run setup again.                  *)
OwnerRemains == /\ firsts <= 1
                /\ firsts = 1 => Owners # {}

\* The account is still what the session says of it.
Agrees(t) == LET s == sess[t] IN
    Enabled(s.id) /\ row[s.id].role = s.role /\ row[s.id].ver = s.ver

\* A request in progress is about to end the session: the one that changed the
\* account, or the sign-in that has yet to compare the account again.
Doomed(t) == \/ \E h \in Reqs : req[h].pc = "drop" /\ req[h].id = sess[t].id
             \/ \E h \in Reqs : req[h].pc = "recheck" /\ req[h].tok = t

\* A session of first-run setup, and nothing but an enabling has happened to
\* its account since it was made.  When it agreed with the account then, it
\* agrees now: this is more than Agrees only when the account had changed, and
\* the sessions it had were revoked, between CreateFirstAdmin and SetupSession.
Overtaken(t) ==
    LET now == row[sess[t].id]  was == sess[t].born IN
    \/ now = Deleted /\ was = Deleted
    \/ /\ {now.status, was.status} \subseteq {"enabled", "disabled"}
       /\ now.status = "disabled" => was.status = "disabled"
       /\ now.role = was.role /\ now.ver = was.ver

(* A session whose account is disabled, deleted, demoted or has another    *)
(* password is about to be revoked: by the request that changed the        *)
(* account, or by the sign-in that made the session and has yet to compare *)
(* the account again.  The one exception is a session handleSetup makes    *)
(* for an account that has changed since it inserted it: it does not read  *)
(* the account again as handleLogin does, and the session lives until the  *)
(* next change of the account, which revokes it like any other.            *)
NoStaleSession ==
    \A t \in Tokens : Live(t) => Agrees(t) \/ Doomed(t) \/ Overtaken(t)
=============================================================================
