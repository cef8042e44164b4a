--------------------------- MODULE AccountsProofs ---------------------------
(***************************************************************************)
(* OwnerRemains and NoStaleSession of Accounts for any accounts, tokens    *)
(* and requests.                                                           *)
(*                                                                         *)
(* The invariant says which rows there can be (RowInv), that every request *)
(* and session names an account (ReqInv, SessInv), and that first-run      *)
(* setup stays open exactly while the table is empty (FirstInv): so an     *)
(* authenticated actor is proof that an owner exists.  For NoStaleSession  *)
(* it is joined by what a set-up or a sign-in in progress knows of the row *)
(* it wrote or read (SeenInv) and of the session it made (TokInv).         *)
(***************************************************************************)
EXTENDS Accounts, TLAPS

\* A row that is neither missing nor a tombstone has the columns a step changes.
RowInv ==
    /\ row = [i \in Ids |-> row[i]]
    /\ \A i \in Ids :
          \/ row[i] = Nobody
          \/ row[i] = Deleted
          \/ /\ row[i].status \in {"enabled", "disabled"}
             /\ {"status", "role", "hash", "ver"} \subseteq DOMAIN row[i]

Named(r) ==
    /\ r.pc \in {"setup_insert", "setup_session", "verify", "recheck", "rehash", "manage",
                 "change", "change_commit"} => r.id \in Ids
    /\ r.pc = "manage" => r.who \in Ids /\ r.op \in Ops \ {"revoke"}

ReqInv ==
    /\ req = [h \in Reqs |-> req[h]]
    /\ \A h \in Reqs : Named(req[h])

SessCols == {"live", "id", "role", "ver", "born"}

SessInv ==
    /\ sess = [t \in Tokens |-> sess[t]]
    /\ \A t \in Tokens : Live(t) => sess[t].id \in Ids /\ SessCols \subseteq DOMAIN sess[t]

FirstInv ==
    \/ firsts = 0 /\ NoAccounts
    \/ firsts = 1 /\ \E o \in Ids : Owner(o)

IndInv == RowInv /\ ReqInv /\ SessInv /\ FirstInv

-----------------------------------------------------------------------------
\* One row changes: an owner remains unless the change takes the role, or the
\* account, from the only one (the guard of every UPDATE in store/admin.go).
LEMMA OneRowChanges ==
    ASSUME NEW i \in Ids,
           \E o \in Ids : Owner(o),
           \A j \in Ids : j # i => row'[j] = row[j],
           Owner(i)' \/ ~LastOwner(i)
    PROVE  \E o \in Ids : Owner(o)'
<1>1. CASE Owner(i)'
  BY <1>1
<1>2. CASE ~LastOwner(i)
  <2>1. PICK o \in Ids : Owner(o) /\ o # i
    BY <1>2 DEF LastOwner, Owners
  <2>2. row'[o] = row[o]
    BY <2>1
  <2>3. Owner(o)'
    BY <2>1, <2>2 DEF Owner, Enabled
  <2> QED  BY <2>3
<1> QED  BY <1>1, <1>2

\* A step that leaves the rows and the history alone keeps RowInv and FirstInv.
LEMMA SameRows ==
    ASSUME RowInv, FirstInv, UNCHANGED <<row, firsts>>
    PROVE  RowInv' /\ FirstInv'
BY DEF RowInv, FirstInv, NoAccounts, Owner, Enabled

\* A request goes on to a record that names an account.
LEMMA StepNames ==
    ASSUME ReqInv, NEW h \in Reqs, NEW r, Step(h, r), Named(r)
    PROVE  ReqInv'
<1>1. req' = [k \in Reqs |-> IF k = h THEN r ELSE req[k]]
  BY DEF ReqInv, Step
<1>2. ASSUME NEW k \in Reqs PROVE Named(req'[k])
  BY <1>1, <1>2 DEF ReqInv
<1>3. req' = [k \in Reqs |-> req'[k]]
  BY <1>1
<1> QED  BY <1>2, <1>3 DEF ReqInv, Named

LEMMA IdleNamed == Named(Idle)
BY DEF Named, Idle

LEMMA DroppingNamed == \A i : Named(Dropping(i))
BY DEF Named, Dropping

\* Sessions that end, or of which only the step-up changes.
LEMMA SessionsEnd ==
    ASSUME SessInv, sess' = [t \in Tokens |-> sess'[t]],
           \A t \in Tokens : Live(t)' => /\ Live(t)
                                         /\ sess'[t].id = sess[t].id
                                         /\ DOMAIN sess'[t] = DOMAIN sess[t]
    PROVE  SessInv'
BY DEF SessInv, SessCols, Live

LEMMA DropEnds ==
    ASSUME SessInv, NEW t, sess' = Drop(t)
    PROVE  SessInv'
BY DEF SessInv, SessCols, Live, Drop, NoSession

LEMMA DropAdminEnds ==
    ASSUME SessInv, NEW i, sess' = DropAdmin(i)
    PROVE  SessInv'
BY DEF SessInv, SessCols, Live, DropAdmin, NoSession

LEMMA CreateNames ==
    ASSUME SessInv, NEW t \in Tokens, NEW i \in Ids, NEW role, NEW ver, NEW born,
           sess' = Create(t, i, role, ver, born)
    PROVE  SessInv'
BY DEF SessInv, SessCols, Live, Create

LEMMA SameSessions ==
    ASSUME SessInv, UNCHANGED sess
    PROVE  SessInv'
BY DEF SessInv, SessCols, Live

-----------------------------------------------------------------------------
\* The row of i is replaced by x, a row of an account.
LEMMA RowReplaced ==
    ASSUME RowInv, NEW i \in Ids, NEW x,
           \/ x = Deleted
           \/ /\ x.status \in {"enabled", "disabled"}
              /\ {"status", "role", "hash", "ver"} \subseteq DOMAIN x,
           row' = [row EXCEPT ![i] = x]
    PROVE  /\ RowInv'
           /\ row'[i] = x
           /\ \A j \in Ids : j # i => row'[j] = row[j]
<1>1. row' = [j \in Ids |-> IF j = i THEN x ELSE row[j]]
  BY DEF RowInv
<1>2. row'[i] = x /\ \A j \in Ids : j # i => row'[j] = row[j]
  BY <1>1
<1>3. row' = [j \in Ids |-> row'[j]]
  BY <1>1
<1>4. ASSUME NEW j \in Ids
      PROVE  \/ row'[j] = Nobody
             \/ row'[j] = Deleted
             \/ /\ row'[j].status \in {"enabled", "disabled"}
                /\ {"status", "role", "hash", "ver"} \subseteq DOMAIN row'[j]
  <2>1. CASE j = i
    BY <2>1, <1>2
  <2>2. CASE j # i
    BY <2>2, <1>2 DEF RowInv
  <2> QED  BY <2>1, <2>2
<1> QED  BY <1>2, <1>3, <1>4 DEF RowInv

\* An UPDATE of a hash and its version is one replacement of the row.
LEMMA TwoColumns ==
    ASSUME NEW S, NEW f, f = [j \in S |-> f[j]], NEW k \in S, NEW w
    PROVE  [f EXCEPT ![k].hash = w, ![k].ver = @ + 1]
             = [f EXCEPT ![k] = [[f[k] EXCEPT !.hash = w] EXCEPT !.ver = @ + 1]]
<1> DEFINE y == [f[k] EXCEPT !.hash = w]
           g == [f EXCEPT ![k] = y]
<1>1. g = [j \in S |-> IF j = k THEN y ELSE f[j]]
  OBVIOUS
<1>2. g[k] = y /\ DOMAIN g = S /\ \A j \in S : j # k => g[j] = f[j]
  <2> HIDE DEF g, y
  <2> QED  BY <1>1
<1>3. [g EXCEPT ![k] = [g[k] EXCEPT !.ver = @ + 1]]
        = [j \in S |-> IF j = k THEN [y EXCEPT !.ver = @ + 1] ELSE f[j]]
  <2> HIDE DEF g, y
  <2> QED  BY <1>2
<1>4. [f EXCEPT ![k] = [y EXCEPT !.ver = @ + 1]]
        = [j \in S |-> IF j = k THEN [y EXCEPT !.ver = @ + 1] ELSE f[j]]
  <2> HIDE DEF y
  <2> QED  OBVIOUS
<1>5. [f EXCEPT ![k].hash = w, ![k].ver = @ + 1]
        = [g EXCEPT ![k] = [g[k] EXCEPT !.ver = @ + 1]]
  OBVIOUS
<1> HIDE DEF g, y
<1>6. [f EXCEPT ![k].hash = w, ![k].ver = @ + 1] = [f EXCEPT ![k] = [y EXCEPT !.ver = @ + 1]]
  BY <1>3, <1>4, <1>5
<1> QED  BY <1>6 DEF y

\* The row of a present account, with another hash and version: it keeps its
\* status and role (setAdminPassword, ResetAdminPassword).
LEMMA PasswordWritten ==
    ASSUME RowInv, FirstInv, NEW i \in Ids, Present(i), NEW x,
           UNCHANGED firsts,
           row' = [row EXCEPT ![i] = x],
           x.status = row[i].status, x.role = row[i].role,
           {"status", "role", "hash", "ver"} \subseteq DOMAIN x
    PROVE  RowInv' /\ FirstInv'
<1>1. row[i].status \in {"enabled", "disabled"}
  BY DEF Present
<1>2. /\ RowInv'
      /\ row'[i] = x
      /\ \A j \in Ids : j # i => row'[j] = row[j]
  BY <1>1, RowReplaced
<1>3. \A j \in Ids : Owner(j) => Owner(j)'
  BY <1>2 DEF Owner, Enabled
<1>4. ~NoAccounts
  BY <1>1 DEF NoAccounts
<1>5. firsts = 1 /\ \E o \in Ids : Owner(o)
  BY <1>4 DEF FirstInv
<1> QED  BY <1>2, <1>3, <1>5 DEF FirstInv

\* A present account is given another row by an authenticated owner.
LEMMA RowManaged ==
    ASSUME RowInv, FirstInv, NEW i \in Ids, NEW who \in Ids, Owner(who), NEW x,
           UNCHANGED firsts,
           row' = [row EXCEPT ![i] = x],
           \/ x = Deleted
           \/ /\ x.status \in {"enabled", "disabled"}
              /\ {"status", "role", "hash", "ver"} \subseteq DOMAIN x,
           (x.status = "enabled" /\ x.role = "owner") \/ ~LastOwner(i)
    PROVE  RowInv' /\ FirstInv'
<1>1. /\ RowInv'
      /\ row'[i] = x
      /\ \A j \in Ids : j # i => row'[j] = row[j]
  BY RowReplaced
<1>2. \E o \in Ids : Owner(o)
  OBVIOUS
<1>3. firsts = 1
  BY DEF FirstInv, NoAccounts, Owner, Enabled
<1>4. Owner(i)' \/ ~LastOwner(i)
  BY <1>1 DEF Owner, Enabled
<1>5. \E o \in Ids : Owner(o)'
  BY <1>1, <1>2, <1>4, OneRowChanges
<1> QED  BY <1>1, <1>3, <1>5 DEF FirstInv

\* The step-up of a live session begins or lapses.
LEMMA RecentChanges ==
    ASSUME SessInv, NEW t, Live(t), NEW b, sess' = [sess EXCEPT ![t].recent = b]
    PROVE  SessInv'
<1>1. sess' = [u \in Tokens |-> IF u = t THEN [sess[t] EXCEPT !.recent = b] ELSE sess[u]]
  BY DEF SessInv
<1>2. ASSUME NEW u \in Tokens, Live(u)'
      PROVE  Live(u) /\ sess'[u].id = sess[u].id /\ DOMAIN sess'[u] = DOMAIN sess[u]
  <2>1. CASE u = t
    BY <1>1, <2>1 DEF SessInv, SessCols, Live
  <2>2. CASE u # t
    BY <1>1, <1>2, <2>2 DEF Live
  <2> QED  BY <2>1, <2>2
<1>3. sess' = [u \in Tokens |-> sess'[u]]
  BY <1>1
<1> QED  BY <1>2, <1>3, SessionsEnd

-----------------------------------------------------------------------------
LEMMA InitInv == Init => IndInv
<1> SUFFICES ASSUME Init PROVE IndInv
  OBVIOUS
<1>1. ReqInv
  BY IdleNamed DEF Init, ReqInv
<1>2. SessInv
  BY DEF Init, SessInv, Live, NoSession
<1>3. CASE row = [i \in Ids |-> Nobody]
  <2>1. RowInv
    BY <1>3 DEF RowInv
  <2>2. NoAccounts
    BY <1>3 DEF NoAccounts, Nobody
  <2>3. Owners = {}
    BY <1>3 DEF Owners, Owner, Enabled, Nobody
  <2> QED  BY <1>1, <1>2, <2>1, <2>2, <2>3 DEF Init, IndInv, FirstInv
<1>4. CASE \E o \in Ids, p \in Passwords :
              \E other \in {Nobody, Account("owner", p), Account("viewer", p)} :
                 row = [i \in Ids |-> IF i = o THEN Account("owner", p) ELSE other]
  <2>1. PICK o \in Ids, p \in Passwords :
           \E other \in {Nobody, Account("owner", p), Account("viewer", p)} :
              row = [i \in Ids |-> IF i = o THEN Account("owner", p) ELSE other]
    BY <1>4
  <2>2. PICK other \in {Nobody, Account("owner", p), Account("viewer", p)} :
           row = [i \in Ids |-> IF i = o THEN Account("owner", p) ELSE other]
    BY <2>1
  <2>3. RowInv
    <3>1. \A i \in Ids : row[i] \in {Nobody, Account("owner", p), Account("viewer", p)}
      BY <2>2
    <3>2. \A role : /\ Account(role, p).status = "enabled"
                    /\ {"status", "role", "hash", "ver"} \subseteq DOMAIN Account(role, p)
      BY DEF Account
    <3>3. row = [i \in Ids |-> row[i]]
      BY <2>2
    <3> QED  BY <3>1, <3>2, <3>3 DEF RowInv
  <2>4. Owner(o)
    BY <2>2 DEF Owner, Enabled, Account
  <2>5. firsts = 1
    BY <2>4 DEF Init, Owners
  <2> QED  BY <1>1, <1>2, <2>3, <2>4, <2>5 DEF IndInv, FirstInv
<1> QED  BY <1>3, <1>4 DEF Init

-----------------------------------------------------------------------------
(* The steps that write a row.                                             *)

LEMMA StepCreateFirstAdmin ==
    ASSUME IndInv, NEW h \in Reqs, CreateFirstAdmin(h) PROVE IndInv'
<1> DEFINE r == req[h]
<1>1. r.pc = "setup_insert" /\ r.id \in Ids
  BY DEF CreateFirstAdmin, IndInv, ReqInv, Named
<1>2. SessInv'
  BY SameSessions DEF IndInv, CreateFirstAdmin
<1>3. CASE NoAccounts
  <2> DEFINE x == [status |-> "enabled", role |-> "owner", ver |-> 0, hash |-> Hash(r.pw, 0, FALSE)]
             n == [pc |-> "setup_session", id |-> r.id]
  <2>1. row' = [row EXCEPT ![r.id] = x] /\ firsts' = firsts + 1 /\ Step(h, n)
    BY <1>3 DEF CreateFirstAdmin
  <2>2. Named(n)
    BY <1>1 DEF Named
  <2>3. ReqInv'
    <3> HIDE DEF n
    <3> QED  BY <2>1, <2>2, StepNames DEF IndInv
  <2>4. /\ x.status = "enabled" /\ x.role = "owner"
        /\ {"status", "role", "hash", "ver"} \subseteq DOMAIN x
    OBVIOUS
  <2>5. RowInv' /\ row'[r.id] = x
    <3> HIDE DEF x, r
    <3> QED  BY <1>1, <2>1, <2>4, RowReplaced DEF IndInv
  <2>6. \E o \in Ids : Owner(o)'
    <3>1. PICK o \in Ids : o = r.id
      BY <1>1
    <3>2. Owner(o)'
      BY <2>4, <2>5, <3>1 DEF Owner, Enabled
    <3> QED  BY <3>2
  <2>7. firsts = 0
    BY <1>3 DEF IndInv, FirstInv, NoAccounts, Owner, Enabled
  <2>8. FirstInv'
    BY <2>1, <2>6, <2>7 DEF FirstInv
  <2> QED  BY <1>2, <2>3, <2>5, <2>8 DEF IndInv
<1>4. CASE ~NoAccounts
  <2>1. Step(h, Idle) /\ UNCHANGED <<row, firsts>>
    BY <1>4 DEF CreateFirstAdmin
  <2> QED  BY <1>2, <2>1, SameRows, StepNames, IdleNamed DEF IndInv
<1> QED  BY <1>3, <1>4

LEMMA StepRehash ==
    ASSUME IndInv, NEW h \in Reqs, Rehash(h) PROVE IndInv'
<1> DEFINE r == req[h]
<1>1. r.id \in Ids
  BY DEF Rehash, IndInv, ReqInv, Named
<1>2. SessInv' /\ ReqInv'
  BY SameSessions, StepNames, IdleNamed DEF IndInv, Rehash
<1>3. CASE Enabled(r.id)
  <2> DEFINE x == [row[r.id] EXCEPT !.hash = Password(r.id, r.pw)]
  <2>1. row' = [row EXCEPT ![r.id] = x] /\ UNCHANGED firsts
    BY <1>3 DEF Rehash
  <2>2. {"status", "role", "hash", "ver"} \subseteq DOMAIN row[r.id]
    BY <1>1, <1>3 DEF IndInv, RowInv, Enabled, Nobody, Deleted
  <2>3. /\ x.status = row[r.id].status /\ x.role = row[r.id].role
        /\ {"status", "role", "hash", "ver"} \subseteq DOMAIN x
    BY <2>2
  <2>4. Present(r.id)
    BY <1>3 DEF Present, Enabled
  <2>5. RowInv' /\ FirstInv'
    <3> HIDE DEF x, r
    <3> QED  BY <1>1, <2>1, <2>3, <2>4, PasswordWritten DEF IndInv
  <2> QED  BY <1>2, <2>5 DEF IndInv
<1>4. CASE ~Enabled(r.id)
  BY <1>2, <1>4, SameRows DEF IndInv, Rehash
<1> QED  BY <1>3, <1>4

LEMMA StepSetAdminPassword ==
    ASSUME IndInv, NEW h \in Reqs, SetAdminPassword(h) PROVE IndInv'
<1> DEFINE r == req[h]
<1>1. r.id \in Ids
  BY DEF SetAdminPassword, IndInv, ReqInv, Named
<1>2. CASE Enabled(r.id)
  <2> DEFINE y == [row[r.id] EXCEPT !.hash = Password(r.id, r.new)]
             x == [y EXCEPT !.ver = @ + 1]
  <2>1. UNCHANGED <<firsts, sess>> /\ Step(h, Dropping(r.id))
    BY <1>2 DEF SetAdminPassword
  <2>2. row' = [row EXCEPT ![r.id].hash = Password(r.id, r.new), ![r.id].ver = @ + 1]
    BY <1>2 DEF SetAdminPassword
  <2>3. row = [j \in Ids |-> row[j]]
    BY DEF IndInv, RowInv
  <2>4. row' = [row EXCEPT ![r.id] = x]
    BY <1>1, <2>2, <2>3, TwoColumns
  <2>5. {"status", "role", "hash", "ver"} \subseteq DOMAIN row[r.id]
    BY <1>1, <1>2 DEF IndInv, RowInv, Enabled, Nobody, Deleted
  <2>6. /\ x.status = row[r.id].status /\ x.role = row[r.id].role
        /\ {"status", "role", "hash", "ver"} \subseteq DOMAIN x
    BY <2>5
  <2>7. Present(r.id)
    BY <1>2 DEF Present, Enabled
  <2>8. RowInv' /\ FirstInv'
    <3> HIDE DEF x, r
    <3> QED  BY <1>1, <2>1, <2>4, <2>6, <2>7, PasswordWritten DEF IndInv
  <2>9. SessInv' /\ ReqInv'
    BY <2>1, SameSessions, StepNames, DroppingNamed DEF IndInv
  <2> QED  BY <2>8, <2>9 DEF IndInv
<1>3. CASE ~Enabled(r.id)
  <2>1. sess' = DropAdmin(r.id) /\ Step(h, Idle) /\ UNCHANGED <<row, firsts>>
    BY <1>3 DEF SetAdminPassword
  <2> QED  BY <2>1, SameRows, StepNames, IdleNamed, DropAdminEnds DEF IndInv
<1> QED  BY <1>2, <1>3

\* An owner's request writes one row and leaves an owner behind.
LEMMA EffectInv ==
    ASSUME RowInv, FirstInv, UNCHANGED firsts, NEW r,
           r.id \in Ids, r.who \in Ids, r.op \in Ops \ {"revoke"},
           ActorOwner(r), ~Refused(r), row' = Effect(r)
    PROVE  RowInv' /\ FirstInv'
<1> DEFINE i == r.id
           Cols == {"status", "role", "hash", "ver"}
<1>1. i \in Ids /\ r.who \in Ids /\ Owner(r.who)
  BY DEF ActorOwner
<1>2. row = [j \in Ids |-> row[j]]
  BY DEF RowInv
<1>3. Present(i) => Cols \subseteq DOMAIN row[i]
  BY <1>1 DEF RowInv, Present, Nobody, Deleted
<1>4. CASE r.op = "create"
  <2> DEFINE x == [status |-> "enabled", role |-> r.role, ver |-> 0, hash |-> Hash(r.pw, 0, FALSE)]
  <2>1. row[i] = Nobody
    BY <1>4 DEF Refused
  <2>2. row' = [row EXCEPT ![i] = x]
    BY <1>4, <2>1 DEF Effect, CreateAdmin
  <2>3. x.status = "enabled" /\ Cols \subseteq DOMAIN x
    OBVIOUS
  <2>4. ~LastOwner(i)
    <3>1. ~Owner(i)
      BY <2>1 DEF Owner, Enabled, Nobody
    <3> QED  BY <3>1 DEF LastOwner, Owners
  <2> HIDE DEF x, i
  <2> QED  BY <1>1, <2>2, <2>3, <2>4, RowManaged
<1>5. CASE r.op = "role"
  <2> DEFINE x == [row[i] EXCEPT !.role = r.role]
  <2>1. Present(i) /\ (LastOwner(i) => r.role = "owner")
    BY <1>5 DEF Refused
  <2>2. row' = [row EXCEPT ![i] = x]
    BY <1>5, <2>1 DEF Effect, SetAdminRole
  <2>3. /\ x.status = row[i].status /\ x.role = r.role /\ Cols \subseteq DOMAIN x
        /\ x.status \in {"enabled", "disabled"}
    BY <1>3, <2>1 DEF Present
  <2>4. LastOwner(i) => x.status = "enabled" /\ x.role = "owner"
    BY <2>1, <2>3, <1>1 DEF LastOwner, Owners, Owner, Enabled
  <2> HIDE DEF x, i
  <2> QED  BY <1>1, <2>2, <2>3, <2>4, RowManaged
<1>6. CASE r.op = "enable"
  <2> DEFINE x == [row[i] EXCEPT !.status = "enabled"]
  <2>1. Present(i)
    BY <1>6 DEF Refused
  <2>2. row' = [row EXCEPT ![i] = x]
    BY <1>6, <2>1 DEF Effect, SetAdminEnabled
  <2>3. x.status = "enabled" /\ x.role = row[i].role /\ Cols \subseteq DOMAIN x
    BY <1>3, <2>1
  <2>4. LastOwner(i) => x.status = "enabled" /\ x.role = "owner"
    BY <2>3, <1>1 DEF LastOwner, Owners, Owner, Enabled
  <2> HIDE DEF x, i
  <2> QED  BY <1>1, <2>2, <2>3, <2>4, RowManaged
<1>7. CASE r.op = "disable"
  <2> DEFINE x == [row[i] EXCEPT !.status = "disabled"]
  <2>1. Present(i) /\ ~LastOwner(i)
    BY <1>7 DEF Refused
  <2>2. row' = [row EXCEPT ![i] = x]
    BY <1>7, <2>1 DEF Effect, SetAdminEnabled
  <2>3. x.status = "disabled" /\ Cols \subseteq DOMAIN x
    BY <1>3, <2>1
  <2> HIDE DEF x, i
  <2> QED  BY <1>1, <2>1, <2>2, <2>3, RowManaged
<1>8. CASE r.op = "delete"
  <2>1. ~LastOwner(i) /\ row' = [row EXCEPT ![i] = Deleted]
    BY <1>8 DEF Refused, Effect, DeleteAdmin
  <2> HIDE DEF i
  <2> QED  BY <1>1, <2>1, RowManaged
<1>9. CASE r.op = "reset"
  <2> DEFINE y == [row[i] EXCEPT !.hash = Password(i, r.pw)]
             x == [y EXCEPT !.ver = @ + 1]
  <2>1. Present(i)
    BY <1>9 DEF Refused
  <2>2. row' = [row EXCEPT ![i].hash = Password(i, r.pw), ![i].ver = @ + 1]
    BY <1>9, <2>1 DEF Effect, ResetAdminPassword
  <2>3. row' = [row EXCEPT ![i] = x]
    BY <1>1, <1>2, <2>2, TwoColumns
  <2>4. x.status = row[i].status /\ x.role = row[i].role /\ Cols \subseteq DOMAIN x
    BY <1>3, <2>1
  <2> HIDE DEF x, i
  <2> QED  BY <1>1, <2>1, <2>3, <2>4, PasswordWritten
<1> QED  BY <1>4, <1>5, <1>6, <1>7, <1>8, <1>9 DEF Ops

LEMMA StepManage ==
    ASSUME IndInv, NEW h \in Reqs, Manage(h) PROVE IndInv'
<1> DEFINE r == req[h]
<1>1. r.id \in Ids /\ r.who \in Ids /\ r.op \in Ops \ {"revoke"}
  BY DEF Manage, IndInv, ReqInv, Named
<1>2. CASE sess' = DropAdmin(r.who) /\ Step(h, Idle) /\ UNCHANGED row
  BY <1>2, SameRows, StepNames, IdleNamed, DropAdminEnds DEF IndInv, Manage
<1>3. CASE Step(h, Idle) /\ UNCHANGED <<row, sess>>
  BY <1>3, SameRows, StepNames, IdleNamed, SameSessions DEF IndInv, Manage
<1>4. CASE /\ ActorOwner(r) /\ ~Refused(r) /\ row' = Effect(r)
           /\ Step(h, IF Revokes(r) THEN Dropping(r.id) ELSE Idle)
           /\ UNCHANGED sess
  <2>1. UNCHANGED firsts
    BY DEF Manage
  <2>2. RowInv' /\ FirstInv'
    <3> HIDE DEF r
    <3> QED  BY <1>1, <1>4, <2>1, EffectInv DEF IndInv
  <2>3. Named(IF Revokes(r) THEN Dropping(r.id) ELSE Idle)
    BY IdleNamed, DroppingNamed
  <2>4. ReqInv' /\ SessInv'
    BY <1>4, <2>3, StepNames, SameSessions DEF IndInv
  <2> QED  BY <2>2, <2>4 DEF IndInv
<1> QED  BY <1>2, <1>3, <1>4 DEF Manage

-----------------------------------------------------------------------------
(* The other steps leave the rows alone.                                   *)

LEMMA StepSetup ==
    ASSUME IndInv, NEW h \in Reqs, HandleSetup(h) \/ SetupSession(h) PROVE IndInv'
<1>1. RowInv' /\ FirstInv'
  BY SameRows DEF IndInv, HandleSetup, SetupSession
<1>2. CASE HandleSetup(h)
  <2>1. PICK i \in Ids, p \in Passwords : Step(h, [pc |-> "setup_insert", id |-> i, pw |-> p])
    BY <1>2 DEF HandleSetup
  <2>2. Named([pc |-> "setup_insert", id |-> i, pw |-> p])
    BY DEF Named
  <2>3. ReqInv'
    BY <2>1, <2>2, StepNames DEF IndInv
  <2> QED  BY <1>1, <1>2, <2>3, SameSessions DEF IndInv, HandleSetup
<1>3. CASE SetupSession(h)
  <2>1. req[h].id \in Ids
    BY <1>3 DEF SetupSession, IndInv, ReqInv, Named
  <2>2. PICK t \in Tokens : sess' = Create(t, req[h].id, "owner", 0, row[req[h].id])
    BY <1>3 DEF SetupSession
  <2>3. SessInv'
    BY <2>1, <2>2, CreateNames DEF IndInv
  <2> QED  BY <1>1, <1>3, <2>3, StepNames, IdleNamed DEF IndInv, SetupSession
<1> QED  BY <1>2, <1>3

LEMMA StepHandleLogin ==
    ASSUME IndInv, NEW h \in Reqs, HandleLogin(h) PROVE IndInv'
<1> DEFINE n(i, p) == [pc |-> "verify", id |-> i, pw |-> p,
                       seen |-> IF Enabled(i) THEN row[i] ELSE Nobody]
<1>1. PICK i \in Ids, p \in Guesses : Step(h, n(i, p))
  BY DEF HandleLogin
<1>2. Named(n(i, p))
  BY DEF Named
<1>3. ReqInv'
  <2> HIDE DEF n
  <2> QED  BY <1>1, <1>2, StepNames DEF IndInv
<1> QED  BY <1>3, SameRows, SameSessions DEF IndInv, HandleLogin

LEMMA StepLoginVerify ==
    ASSUME IndInv, NEW h \in Reqs, LoginVerify(h) PROVE IndInv'
<1> DEFINE r == req[h]
           n(t) == [pc |-> "recheck", id |-> r.id, pw |-> r.pw, tok |-> t, seen |-> r.seen]
<1>1. RowInv' /\ FirstInv'
  BY SameRows DEF IndInv, LoginVerify
<1>2. r.id \in Ids
  BY DEF LoginVerify, IndInv, ReqInv, Named
<1>3. CASE Verifies(r.seen, r.pw)
  <2>1. PICK t \in Tokens : /\ sess' = Create(t, r.id, r.seen.role, r.seen.ver, Nobody)
                            /\ Step(h, n(t))
    BY <1>3 DEF LoginVerify
  <2>2. Named(n(t))
    BY <1>2 DEF Named
  <2>3. ReqInv'
    <3> HIDE DEF n
    <3> QED  BY <2>1, <2>2, StepNames DEF IndInv
  <2>4. SessInv'
    BY <1>2, <2>1, CreateNames DEF IndInv
  <2> QED  BY <1>1, <2>3, <2>4 DEF IndInv
<1>4. CASE ~Verifies(r.seen, r.pw)
  BY <1>1, <1>4, StepNames, IdleNamed, SameSessions DEF IndInv, LoginVerify
<1> QED  BY <1>3, <1>4

LEMMA StepLoginRecheck ==
    ASSUME IndInv, NEW h \in Reqs, LoginRecheck(h) PROVE IndInv'
<1> DEFINE r == req[h]
           n == [pc |-> "rehash", id |-> r.id, pw |-> r.pw]
<1>1. RowInv' /\ FirstInv'
  BY SameRows DEF IndInv, LoginRecheck
<1>2. r.id \in Ids
  BY DEF LoginRecheck, IndInv, ReqInv, Named
<1>3. Named(n)
  BY <1>2 DEF Named
<1>4. UNCHANGED sess \/ sess' = Drop(r.tok)
  BY DEF LoginRecheck
<1>5. Step(h, n) \/ Step(h, Idle)
  BY DEF LoginRecheck
<1>6. ReqInv'
  <2> HIDE DEF n
  <2> QED  BY <1>3, <1>5, StepNames, IdleNamed DEF IndInv
<1> QED  BY <1>1, <1>4, <1>6, SameSessions, DropEnds DEF IndInv

LEMMA StepHandleManage ==
    ASSUME IndInv, NEW h \in Reqs, HandleManage(h) PROVE IndInv'
<1> DEFINE n(t, i, o, p, role) ==
             [pc |-> "manage", op |-> o, id |-> i, who |-> sess[t].id,
              pw |-> IF o \in {"create", "reset"} THEN p ELSE NoPassword,
              role |-> IF o \in {"create", "role"} THEN role ELSE "viewer"]
<1>1. PICK t \in Tokens, i \in Ids, o \in Ops, p \in Passwords, role \in Roles :
         /\ MayManage(t)
         /\ Step(h, IF o = "revoke" THEN Dropping(i) ELSE n(t, i, o, p, role))
  BY DEF HandleManage
<1>2. sess[t].id \in Ids
  BY <1>1 DEF MayManage, IndInv, SessInv
<1>3. o # "revoke" => Named(n(t, i, o, p, role))
  BY <1>2 DEF Named
<1>4. ReqInv'
  <2> HIDE DEF n
  <2>1. Named(IF o = "revoke" THEN Dropping(i) ELSE n(t, i, o, p, role))
    BY <1>3, DroppingNamed
  <2> QED  BY <1>1, <2>1, StepNames DEF IndInv
<1> QED  BY <1>4, SameRows, SameSessions DEF IndInv, HandleManage

LEMMA StepHandleCredential ==
    ASSUME IndInv, NEW h \in Reqs, HandleCredential(h) PROVE IndInv'
<1> DEFINE n(t, o, p, q) ==
             [pc |-> o, id |-> sess[t].id, tok |-> t, pw |-> p, seen |-> row[sess[t].id],
              new |-> IF o = "change" THEN q ELSE NoPassword]
<1>1. RowInv' /\ FirstInv'
  BY SameRows DEF IndInv, HandleCredential
<1>2. PICK t \in Tokens, o \in {"change", "reauth"}, p \in Guesses, q \in Passwords :
         /\ Live(t)
         /\ \/ Step(h, n(t, o, p, q)) /\ UNCHANGED sess
            \/ sess' = DropAdmin(sess[t].id) /\ UNCHANGED req
  BY DEF HandleCredential
<1>3. Named(n(t, o, p, q))
  BY <1>2 DEF Named, IndInv, SessInv
<1>4. CASE Step(h, n(t, o, p, q)) /\ UNCHANGED sess
  <2> HIDE DEF n
  <2> QED  BY <1>1, <1>3, <1>4, StepNames, SameSessions DEF IndInv
<1>5. CASE sess' = DropAdmin(sess[t].id) /\ UNCHANGED req
  BY <1>1, <1>5, DropAdminEnds DEF IndInv, ReqInv, Named
<1> QED  BY <1>2, <1>4, <1>5

LEMMA StepCredentialVerify ==
    ASSUME IndInv, NEW h \in Reqs, CredentialVerify(h) PROVE IndInv'
<1> DEFINE r == req[h]
           n == [pc |-> "change_commit", id |-> r.id, new |-> r.new]
<1>1. RowInv' /\ FirstInv'
  BY SameRows DEF IndInv, CredentialVerify
<1>2. Step(h, Idle) \/ (r.pc = "change" /\ Step(h, n))
  BY DEF CredentialVerify
<1>3. r.pc = "change" => Named(n)
  BY DEF IndInv, ReqInv, Named
<1>4. ReqInv'
  <2> HIDE DEF n
  <2> QED  BY <1>2, <1>3, StepNames, IdleNamed DEF IndInv
<1>5. UNCHANGED sess \/ (Live(r.tok) /\ sess' = [sess EXCEPT ![r.tok].recent = TRUE])
  BY DEF CredentialVerify
<1>6. SessInv'
  BY <1>5, SameSessions, RecentChanges DEF IndInv
<1> QED  BY <1>1, <1>4, <1>6 DEF IndInv

LEMMA StepStops ==
    ASSUME IndInv, NEW h \in Reqs, DropSessions(h) \/ GiveUp(h) PROVE IndInv'
<1>1. RowInv' /\ FirstInv'
  BY SameRows DEF IndInv, DropSessions, GiveUp
<1>2. ReqInv'
  BY StepNames, IdleNamed DEF IndInv, DropSessions, GiveUp
<1>3. \/ UNCHANGED sess
      \/ sess' = Drop(req[h].tok)
      \/ sess' = DropAdmin(req[h].id)
  BY DEF DropSessions, GiveUp
<1>4. SessInv'
  BY <1>3, SameSessions, DropEnds, DropAdminEnds DEF IndInv
<1> QED  BY <1>1, <1>2, <1>4 DEF IndInv

LEMMA StepSessions ==
    ASSUME IndInv, NEW t \in Tokens, Ended(t) \/ CurrentAccount(t) \/ CredentialLapses(t)
    PROVE  IndInv'
<1>1. RowInv' /\ FirstInv' /\ UNCHANGED req
  BY SameRows DEF IndInv, Ended, CurrentAccount, CredentialLapses
<1>2. ReqInv'
  BY <1>1 DEF IndInv, ReqInv, Named
<1>3. SessInv'
  BY DropEnds, DropAdminEnds, RecentChanges
     DEF IndInv, Ended, CurrentAccount, CredentialLapses
<1> QED  BY <1>1, <1>2, <1>3 DEF IndInv

LEMMA IndInvStep == IndInv /\ [Next]_vars => IndInv'
<1> SUFFICES ASSUME IndInv, [Next]_vars PROVE IndInv'
  OBVIOUS
<1>1. CASE UNCHANGED <<row, sess, req, firsts>>
  <2>1. ReqInv'
    BY <1>1 DEF IndInv, ReqInv, Named
  <2> QED  BY <1>1, <2>1, SameRows, SameSessions DEF IndInv
<1>2. CASE UNCHANGED vars
  BY <1>1, <1>2 DEF vars
<1>3. CASE Next
  BY <1>1, <1>3, StepCreateFirstAdmin, StepRehash, StepSetAdminPassword, StepManage,
     StepSetup, StepHandleLogin, StepLoginVerify, StepLoginRecheck, StepHandleManage,
     StepHandleCredential, StepCredentialVerify, StepStops, StepSessions
     DEF Next, ThrottleLapses
<1> QED  BY <1>2, <1>3

\* Every reachable state of the accounts satisfies the inductive invariant.
LEMMA IndInvAlways == Spec => []IndInv
BY InitInv, IndInvStep, PTL DEF Spec

(* Owners may demote, disable and delete each other in any interleaving of *)
(* their requests (store/admin.go, api/accounts.go): an enabled owner      *)
(* remains, and first-run setup creates at most one account.               *)
THEOREM AccountsOwnerRemains == Spec => []OwnerRemains
<1>1. IndInv => OwnerRemains
  <2> SUFFICES ASSUME IndInv PROVE OwnerRemains
    OBVIOUS
  <2>1. firsts = 0 \/ firsts = 1
    BY DEF IndInv, FirstInv
  <2>2. firsts = 1 => Owners # {}
    BY DEF IndInv, FirstInv, Owners
  <2> QED  BY <2>1, <2>2 DEF OwnerRemains
<1> QED  BY <1>1, IndInvAlways, PTL

-----------------------------------------------------------------------------
(* NoStaleSession.  A sign-in compares the hash of the account with the    *)
(* one its password was checked against, and what has to be the same is    *)
(* the version of the account: every derivation has a salt of its own, so  *)
(* that one hash belongs to one version (Later).                           *)

SaltInv == \A i \in Ids : Present(i) => row[i].hash.salt \in Nat

\* The row of i as `seen` was read is the present one or an older one.
Later(i, seen) ==
    \/ row[i] = Deleted
    \/ /\ Present(i)
       /\ seen.hash.salt \in Nat
       /\ seen.hash.salt <= row[i].hash.salt
       /\ seen.hash.salt = row[i].hash.salt => seen.ver = row[i].ver

\* What a request knows of the account it goes on with: set-up has inserted it,
\* a sign-in has read it.
SeenInv ==
    \A h \in Reqs :
        /\ req[h].pc = "setup_session" => row[req[h].id].status # "none"
        /\ req[h].pc \in {"verify", "recheck"} /\ req[h].seen # Nobody
              => Later(req[h].id, req[h].seen)
        /\ req[h].pc = "recheck" => req[h].seen # Nobody

\* The session a sign-in has made is its own as long as it lives.
TokInv ==
    \A h \in Reqs : req[h].pc = "recheck" =>
        /\ req[h].tok \in Tokens /\ "tok" \in DOMAIN req[h]
        /\ Live(req[h].tok) => /\ sess[req[h].tok].id = req[h].id
                               /\ sess[req[h].tok].role = req[h].seen.role
                               /\ sess[req[h].tok].ver = req[h].seen.ver

StaleInv == SaltInv /\ SeenInv /\ TokInv /\ NoStaleSession

\* What a step must keep, or make a request end the session.
Stands(t) == Agrees(t) \/ Overtaken(t)

-----------------------------------------------------------------------------
\* What a step may do to the row of an account: nothing, delete it, or write it
\* with a later salt or with the same one and the same version.
Grows(i) == \/ row'[i] = row[i]
            \/ row'[i] = Deleted
            \/ ~Present(i) /\ row[i] # Deleted /\ row'[i].hash.salt \in Nat
            \/ /\ Present(i) /\ Present(i)'
               /\ row'[i].hash.salt \in Nat
               /\ \/ row'[i].hash.salt > row[i].hash.salt
                  \/ row'[i].hash.salt = row[i].hash.salt /\ row'[i].ver = row[i].ver

LEMMA OneRowGrows ==
    ASSUME RowInv, NEW i \in Ids, NEW x, row' = [row EXCEPT ![i] = x], Grows(i)
    PROVE  \A j \in Ids : Grows(j)
BY DEF RowInv, Grows

\* The column role or status of a row is written.
LEMMA ColumnGrows ==
    ASSUME SaltInv, RowInv, NEW i \in Ids, Present(i), NEW x, row' = [row EXCEPT ![i] = x],
           x.status \in {"enabled", "disabled"}, x.hash = row[i].hash, x.ver = row[i].ver
    PROVE  \A j \in Ids : Grows(j)
<1>1. row'[i] = x
  BY DEF RowInv
<1>2. Present(i)'
  BY <1>1 DEF Present
<1>3. row[i].hash.salt \in Nat
  BY DEF SaltInv
<1>4. Grows(i)
  BY <1>1, <1>2, <1>3 DEF Grows
<1> QED  BY <1>4, OneRowGrows

\* A password is written: the salt is a new one.
LEMMA PasswordGrows ==
    ASSUME SaltInv, RowInv, NEW i \in Ids, Present(i), NEW x, row' = [row EXCEPT ![i] = x],
           NEW p, x.status = row[i].status, x.hash = Password(i, p)
    PROVE  \A j \in Ids : Grows(j)
<1>1. row'[i] = x
  BY DEF RowInv
<1>2. Present(i)'
  BY <1>1 DEF Present
<1>3. row[i].hash.salt \in Nat
  BY DEF SaltInv
<1>4. x.hash.salt = row[i].hash.salt + 1
  BY DEF Password, Hash
<1>5. Grows(i)
  BY <1>1, <1>2, <1>3, <1>4 DEF Grows
<1> QED  BY <1>5, OneRowGrows

LEMMA NewRowGrows ==
    ASSUME RowInv, NEW i \in Ids, row[i].status = "none", NEW x, row' = [row EXCEPT ![i] = x],
           x.hash.salt = 0
    PROVE  \A j \in Ids : Grows(j)
<1>1. row'[i] = x
  BY DEF RowInv
<1>2. ~Present(i) /\ row[i] # Deleted
  BY DEF Present, Deleted
<1>3. Grows(i)
  BY <1>1, <1>2 DEF Grows
<1> QED  BY <1>3, OneRowGrows

LEMMA EffectGrows ==
    ASSUME RowInv, SaltInv, NEW r, r.id \in Ids, r.op \in Ops \ {"revoke"},
           ~Refused(r), row' = Effect(r)
    PROVE  \A j \in Ids : Grows(j)
<1> DEFINE i == r.id
           Cols == {"status", "role", "hash", "ver"}
<1>1. i \in Ids /\ row = [j \in Ids |-> row[j]]
  BY DEF RowInv
<1>2. Present(i) => Cols \subseteq DOMAIN row[i]
  BY <1>1 DEF RowInv, Present, Nobody, Deleted
<1>3. CASE r.op = "create"
  <2> DEFINE x == [status |-> "enabled", role |-> r.role, ver |-> 0, hash |-> Hash(r.pw, 0, FALSE)]
  <2>1. row[i] = Nobody
    BY <1>3 DEF Refused
  <2>2. row' = [row EXCEPT ![i] = x]
    BY <1>3, <2>1 DEF Effect, CreateAdmin
  <2>3. x.hash.salt = 0 /\ row[i].status = "none"
    BY <2>1 DEF Hash, Nobody
  <2> HIDE DEF x, i
  <2> QED  BY <1>1, <2>2, <2>3, NewRowGrows
<1>4. CASE r.op = "role"
  <2> DEFINE x == [row[i] EXCEPT !.role = r.role]
  <2>1. Present(i) /\ ~(LastOwner(i) /\ r.role # "owner")
    BY <1>4 DEF Refused
  <2>2. row' = [row EXCEPT ![i] = x]
    BY <1>4, <2>1 DEF Effect, SetAdminRole
  <2>3. x.status \in {"enabled", "disabled"} /\ x.hash = row[i].hash /\ x.ver = row[i].ver
    BY <1>2, <2>1 DEF Present
  <2> HIDE DEF x, i
  <2> QED  BY <1>1, <2>1, <2>2, <2>3, ColumnGrows
<1>5. CASE r.op \in {"enable", "disable"}
  <2> DEFINE to == IF r.op = "enable" THEN "enabled" ELSE "disabled"
             x == [row[i] EXCEPT !.status = to]
  <2>1. Present(i) /\ (r.op = "disable" => ~LastOwner(i))
    BY <1>5 DEF Refused
  <2>2. row' = [row EXCEPT ![i] = x]
    BY <1>5, <2>1 DEF Effect, SetAdminEnabled
  <2>3. x.status \in {"enabled", "disabled"} /\ x.hash = row[i].hash /\ x.ver = row[i].ver
    BY <1>2, <2>1
  <2> HIDE DEF x, i
  <2> QED  BY <1>1, <2>1, <2>2, <2>3, ColumnGrows
<1>6. CASE r.op = "delete"
  <2>1. row' = [row EXCEPT ![i] = Deleted]
    BY <1>6 DEF Refused, Effect, DeleteAdmin
  <2>2. row'[i] = Deleted
    BY <1>1, <2>1
  <2>3. Grows(i)
    BY <2>2 DEF Grows
  <2> HIDE DEF i
  <2> QED  BY <1>1, <2>1, <2>3, OneRowGrows
<1>7. CASE r.op = "reset"
  <2> DEFINE y == [row[i] EXCEPT !.hash = Password(i, r.pw)]
             x == [y EXCEPT !.ver = @ + 1]
  <2>1. Present(i)
    BY <1>7 DEF Refused
  <2>2. row' = [row EXCEPT ![i].hash = Password(i, r.pw), ![i].ver = @ + 1]
    BY <1>7, <2>1 DEF Effect, ResetAdminPassword
  <2>3. row' = [row EXCEPT ![i] = x]
    BY <1>1, <2>2, TwoColumns
  <2>4. x.status = row[i].status /\ x.hash = Password(i, r.pw)
    BY <1>2, <2>1
  <2> HIDE DEF x, i
  <2> QED  BY <1>1, <2>1, <2>3, <2>4, PasswordGrows
<1> QED  BY <1>3, <1>4, <1>5, <1>6, <1>7 DEF Ops

\* No step takes a row back to an earlier hash.
LEMMA RowsGrow ==
    ASSUME IndInv, SaltInv, Next
    PROVE  \A j \in Ids : Grows(j)
<1>1. CASE UNCHANGED row
  BY <1>1 DEF Grows
<1>2. ASSUME NEW h \in Reqs, CreateFirstAdmin(h) PROVE \A j \in Ids : Grows(j)
  <2> DEFINE r == req[h]
             x == [status |-> "enabled", role |-> "owner", ver |-> 0, hash |-> Hash(r.pw, 0, FALSE)]
  <2>1. CASE NoAccounts
    <3>1. r.id \in Ids
      BY <1>2 DEF CreateFirstAdmin, IndInv, ReqInv, Named
    <3>2. row' = [row EXCEPT ![r.id] = x]
      BY <1>2, <2>1 DEF CreateFirstAdmin
    <3>3. x.hash.salt = 0 /\ row[r.id].status = "none"
      BY <2>1, <3>1 DEF Hash, NoAccounts
    <3> HIDE DEF x, r
    <3> QED  BY <3>1, <3>2, <3>3, NewRowGrows DEF IndInv
  <2>2. CASE ~NoAccounts
    BY <1>1, <1>2, <2>2 DEF CreateFirstAdmin
  <2> QED  BY <2>1, <2>2
<1>3. ASSUME NEW h \in Reqs, Rehash(h) PROVE \A j \in Ids : Grows(j)
  <2> DEFINE r == req[h]
             x == [row[r.id] EXCEPT !.hash = Password(r.id, r.pw)]
  <2>1. CASE Enabled(r.id)
    <3>1. r.id \in Ids /\ Present(r.id)
      BY <1>3, <2>1 DEF Rehash, IndInv, ReqInv, Named, Present, Enabled
    <3>2. row' = [row EXCEPT ![r.id] = x]
      BY <1>3, <2>1 DEF Rehash
    <3>3. {"status", "role", "hash", "ver"} \subseteq DOMAIN row[r.id]
      BY <3>1 DEF IndInv, RowInv, Present, Nobody, Deleted
    <3>4. x.status = row[r.id].status /\ x.hash = Password(r.id, r.pw)
      BY <3>3
    <3> HIDE DEF x, r
    <3> QED  BY <3>1, <3>2, <3>4, PasswordGrows DEF IndInv
  <2>2. CASE ~Enabled(r.id)
    BY <1>1, <1>3, <2>2 DEF Rehash
  <2> QED  BY <2>1, <2>2
<1>4. ASSUME NEW h \in Reqs, SetAdminPassword(h) PROVE \A j \in Ids : Grows(j)
  <2> DEFINE r == req[h]
             y == [row[r.id] EXCEPT !.hash = Password(r.id, r.new)]
             x == [y EXCEPT !.ver = @ + 1]
  <2>1. CASE Enabled(r.id)
    <3>1. r.id \in Ids /\ Present(r.id)
      BY <1>4, <2>1 DEF SetAdminPassword, IndInv, ReqInv, Named, Present, Enabled
    <3>2. row' = [row EXCEPT ![r.id].hash = Password(r.id, r.new), ![r.id].ver = @ + 1]
      BY <1>4, <2>1 DEF SetAdminPassword
    <3>0. row = [j \in Ids |-> row[j]]
      BY DEF IndInv, RowInv
    <3>3. row' = [row EXCEPT ![r.id] = x]
      BY <3>0, <3>1, <3>2, TwoColumns
    <3>4. {"status", "role", "hash", "ver"} \subseteq DOMAIN row[r.id]
      BY <3>1 DEF IndInv, RowInv, Present, Nobody, Deleted
    <3>5. x.status = row[r.id].status /\ x.hash = Password(r.id, r.new)
      BY <3>4
    <3> HIDE DEF x, r
    <3> QED  BY <3>1, <3>3, <3>5, PasswordGrows DEF IndInv
  <2>2. CASE ~Enabled(r.id)
    BY <1>1, <1>4, <2>2 DEF SetAdminPassword
  <2> QED  BY <2>1, <2>2
<1>5. ASSUME NEW h \in Reqs, Manage(h) PROVE \A j \in Ids : Grows(j)
  <2> DEFINE r == req[h]
  <2>1. r.id \in Ids /\ r.op \in Ops \ {"revoke"}
    BY <1>5 DEF Manage, IndInv, ReqInv, Named
  <2>2. CASE ~Refused(r) /\ row' = Effect(r)
    <3> HIDE DEF r
    <3> QED  BY <2>1, <2>2, EffectGrows DEF IndInv
  <2> QED  BY <1>1, <1>5, <2>2 DEF Manage
<1> QED
  BY <1>1, <1>2, <1>3, <1>4, <1>5
     DEF Next, ThrottleLapses, HandleSetup, SetupSession, HandleLogin, LoginVerify,
         LoginRecheck, HandleManage, DropSessions, HandleCredential, CredentialVerify,
         Ended, CurrentAccount, CredentialLapses, GiveUp

LEMMA SaltStep ==
    ASSUME SaltInv, \A j \in Ids : Grows(j)
    PROVE  SaltInv'
BY DEF SaltInv, Grows, Present, Deleted

LEMMA LaterStep ==
    ASSUME SaltInv, \A j \in Ids : Grows(j), NEW i \in Ids, NEW seen, Later(i, seen)
    PROVE  Later(i, seen)'
<1>1. Grows(i)
  OBVIOUS
<1>2. CASE row[i] = Deleted
  BY <1>1, <1>2 DEF Grows, Later, Present, Deleted
<1>3. CASE row[i] # Deleted
  <2>1. Present(i) /\ row[i].hash.salt \in Nat
    BY <1>3 DEF Later, SaltInv
  <2>2. CASE row'[i] = row[i] \/ row'[i] = Deleted
    BY <2>1, <2>2 DEF Later, Present
  <2>3. CASE Present(i)' /\ row'[i].hash.salt \in Nat /\ row'[i].hash.salt > row[i].hash.salt
    BY <1>3, <2>1, <2>3 DEF Later
  <2>4. CASE /\ Present(i)' /\ row'[i].hash.salt = row[i].hash.salt /\ row'[i].ver = row[i].ver
    BY <1>3, <2>1, <2>4 DEF Later
  <2> QED  BY <1>1, <2>1, <2>2, <2>3, <2>4 DEF Grows
<1> QED  BY <1>2, <1>3

-----------------------------------------------------------------------------
\* A session that lives after a step is the one it was before.
Keeps(t) == Live(t)' => /\ Live(t)
                        /\ sess'[t].id = sess[t].id
                        /\ sess'[t].role = sess[t].role
                        /\ sess'[t].ver = sess[t].ver
                        /\ sess'[t].born = sess[t].born

LEMMA SameKeeps ==
    ASSUME UNCHANGED sess PROVE \A t \in Tokens : Keeps(t)
BY DEF Keeps, Live

LEMMA DropKeeps ==
    ASSUME SessInv, NEW u, sess' = Drop(u) PROVE \A t \in Tokens : Keeps(t)
BY DEF SessInv, Keeps, Live, Drop, NoSession

\* dropAdmin leaves no session of the account.
LEMMA DropAdminKeeps ==
    ASSUME SessInv, NEW i, sess' = DropAdmin(i)
    PROVE  \A t \in Tokens : Keeps(t) /\ (Live(t)' => sess[t].id # i)
BY DEF SessInv, Keeps, Live, DropAdmin, NoSession

LEMMA RecentKeeps ==
    ASSUME SessInv, NEW u, Live(u), NEW b, sess' = [sess EXCEPT ![u].recent = b]
    PROVE  \A t \in Tokens : Keeps(t)
<1> SUFFICES ASSUME NEW t \in Tokens, Live(t)' PROVE Keeps(t)
  BY DEF Keeps
<1>1. sess' = [v \in Tokens |-> IF v = u THEN [sess[u] EXCEPT !.recent = b] ELSE sess[v]]
  BY DEF SessInv
<1>2. CASE t = u
  <2>1. sess'[t] = [sess[t] EXCEPT !.recent = b]
    BY <1>1, <1>2
  <2>2. SessCols \subseteq DOMAIN sess[t]
    BY <1>2 DEF SessInv
  <2> QED  BY <1>2, <2>1, <2>2 DEF Keeps, Live, SessCols
<1>3. CASE t # u
  BY <1>1, <1>3 DEF Keeps, Live
<1> QED  BY <1>2, <1>3

\* A new session is that of a token nobody holds.
LEMMA CreateKeeps ==
    ASSUME SessInv, NEW u \in Tokens, NEW i, NEW role, NEW ver, NEW born,
           sess' = Create(u, i, role, ver, born)
    PROVE  /\ \A t \in Tokens : t # u => Keeps(t)
           /\ sess'[u].id = i /\ sess'[u].role = role /\ sess'[u].ver = ver
           /\ sess'[u].born = born
<1> DEFINE x == [live |-> TRUE, id |-> i, role |-> role, ver |-> ver, born |-> born, recent |-> TRUE]
<1>1. sess' = [v \in Tokens |-> IF v = u THEN x ELSE sess[v]]
  BY DEF SessInv, Create
<1>2. sess'[u] = x /\ \A t \in Tokens : t # u => sess'[t] = sess[t]
  <2> HIDE DEF x
  <2> QED  BY <1>1
<1> QED  BY <1>2 DEF Keeps, Live

SeenOK(r) == /\ r.pc = "setup_session" => row[r.id].status # "none"
             /\ r.pc \in {"verify", "recheck"} /\ r.seen # Nobody => Later(r.id, r.seen)
             /\ r.pc = "recheck" => r.seen # Nobody

TokOK(r) == r.pc = "recheck" => /\ r.tok \in Tokens /\ "tok" \in DOMAIN r
                                /\ Live(r.tok) => /\ sess[r.tok].id = r.id
                                                  /\ sess[r.tok].role = r.seen.role
                                                  /\ sess[r.tok].ver = r.seen.ver

Elsewhere(r) == r.pc \notin {"setup_session", "verify", "recheck"}

LEMMA ElsewhereOK ==
    ASSUME NEW r, Elsewhere(r) PROVE SeenOK(r)' /\ TokOK(r)'
BY DEF Elsewhere, SeenOK, TokOK

\* The request h goes on to the record n.
LEMMA RequestStep ==
    ASSUME IndInv, StaleInv, \A j \in Ids : Grows(j), NEW h \in Reqs, NEW n, Step(h, n),
           SeenOK(n)', TokOK(n)',
           \A k \in Reqs, t \in Tokens :
              k # h /\ req[k].pc = "recheck" /\ req[k].tok = t => Keeps(t)
    PROVE  SaltInv' /\ SeenInv' /\ TokInv'
<1>1. req' = [k \in Reqs |-> IF k = h THEN n ELSE req[k]]
  BY DEF IndInv, ReqInv, Step
<1>2. req'[h] = n /\ \A k \in Reqs : k # h => req'[k] = req[k]
  BY <1>1
<1>3. SaltInv'
  BY SaltStep DEF StaleInv
<1>4. SeenInv'
  <2> SUFFICES ASSUME NEW k \in Reqs PROVE SeenOK(req[k])'
    BY DEF SeenInv, SeenOK
  <2>1. CASE k = h
    BY <1>2, <2>1 DEF SeenOK, Later, Present
  <2>2. CASE k # h
    <3>1. PICK i, x : i = req[k].id /\ x = req[k].seen
      OBVIOUS
    <3>2. req[k].pc \in {"verify", "recheck"} => i \in Ids
      BY <3>1 DEF IndInv, ReqInv, Named
    <3>3. req[k].pc \in {"verify", "recheck"} /\ x # Nobody => Later(i, x)'
      BY <3>1, <3>2, LaterStep DEF StaleInv, SeenInv
    <3>4. req[k].pc = "recheck" => x # Nobody
      BY <3>1 DEF StaleInv, SeenInv
    <3>5. req[k].pc = "setup_session" => row'[i].status # "none"
      <4>1. req[k].pc = "setup_session" => i \in Ids /\ row[i].status # "none"
        BY <3>1 DEF IndInv, ReqInv, Named, StaleInv, SeenInv
      <4> QED  BY <4>1 DEF IndInv, RowInv, Grows, Present, Nobody, Deleted
    <3> QED  BY <1>2, <2>2, <3>1, <3>3, <3>4, <3>5 DEF SeenOK, Later, Present
  <2> QED  BY <2>1, <2>2
<1>5. TokInv'
  <2> SUFFICES ASSUME NEW k \in Reqs PROVE TokOK(req[k])'
    BY DEF TokInv, TokOK
  <2>1. CASE k = h
    BY <1>2, <2>1 DEF TokOK, Live
  <2>2. CASE k # h
    BY <1>2, <2>2 DEF TokOK, Live, Keeps, StaleInv, TokInv
  <2> QED  BY <2>1, <2>2
<1> QED  BY <1>3, <1>4, <1>5

\* A session that was there before h went on to n, and that the step of h was
\* not to end: the account has not changed for it, or n will end it.
LEMMA SessionStep ==
    ASSUME IndInv, NoStaleSession, NEW h \in Reqs, NEW n, Step(h, n), NEW t \in Tokens,
           Live(t)', Keeps(t),
           req[h].pc = "drop" => req[h].id # sess[t].id,
           req[h].pc = "recheck" => req[h].tok # t \/ Stands(t),
           \/ row'[sess[t].id] = row[sess[t].id]
           \/ Stands(t) => Stands(t)'
           \/ n.pc = "drop" /\ n.id = sess[t].id
    PROVE  Stands(t)' \/ Doomed(t)'
<1>1. req' = [k \in Reqs |-> IF k = h THEN n ELSE req[k]]
  BY DEF IndInv, ReqInv, Step
<1>2. req'[h] = n /\ \A k \in Reqs : k # h => req'[k] = req[k]
  BY <1>1
<1>3. /\ Live(t) /\ sess'[t].id = sess[t].id /\ sess'[t].role = sess[t].role
      /\ sess'[t].ver = sess[t].ver /\ sess'[t].born = sess[t].born
  BY DEF Keeps
<1>4. Stands(t) \/ Doomed(t)
  BY <1>3 DEF NoStaleSession, Stands
<1>5. CASE Stands(t)
  <2>1. CASE n.pc = "drop" /\ n.id = sess[t].id
    BY <1>2, <1>3, <2>1 DEF Doomed
  <2>2. CASE row'[sess[t].id] = row[sess[t].id]
    BY <1>3, <1>5, <2>2 DEF Stands, Agrees, Overtaken, Enabled
  <2> QED  BY <1>5, <2>1, <2>2
<1>6. CASE Doomed(t) /\ ~Stands(t)
  <2>1. CASE \E k \in Reqs : req[k].pc = "drop" /\ req[k].id = sess[t].id
    BY <1>2, <1>3, <2>1 DEF Doomed
  <2>2. CASE \E k \in Reqs : req[k].pc = "recheck" /\ req[k].tok = t
    BY <1>2, <1>6, <2>2 DEF Doomed
  <2> QED  BY <1>6, <2>1, <2>2 DEF Doomed
<1> QED  BY <1>4, <1>5, <1>6

\* The steps of a request that makes no session.
LEMMA PlainStep ==
    ASSUME IndInv, StaleInv, \A j \in Ids : Grows(j), NEW h \in Reqs, NEW n, Step(h, n),
           SeenOK(n)', TokOK(n)', \A t \in Tokens : Keeps(t),
           \A t \in Tokens : Live(t)' =>
              /\ req[h].pc = "drop" => req[h].id # sess[t].id
              /\ req[h].pc = "recheck" => req[h].tok # t \/ Stands(t)
              /\ \/ row'[sess[t].id] = row[sess[t].id]
                 \/ Stands(t) => Stands(t)'
                 \/ n.pc = "drop" /\ n.id = sess[t].id
    PROVE  StaleInv'
<1>1. SaltInv' /\ SeenInv' /\ TokInv'
  BY RequestStep
<1>2. ASSUME NEW t \in Tokens, Live(t)'
      PROVE  Stands(t)' \/ Doomed(t)'
  BY <1>2, SessionStep DEF StaleInv
<1>3. NoStaleSession'
  BY <1>2 DEF NoStaleSession, Stands, Agrees, Overtaken, Doomed, Live, Enabled
<1> QED  BY <1>1, <1>3 DEF StaleInv

\* Steps that change no row and end no request that was to end a session.
LEMMA QuietStep ==
    ASSUME IndInv, StaleInv, UNCHANGED row, NEW h \in Reqs, NEW n, Step(h, n),
           SeenOK(n)', TokOK(n)', \A t \in Tokens : Keeps(t),
           req[h].pc \notin {"drop", "recheck"}
    PROVE  StaleInv'
<1>1. \A j \in Ids : Grows(j)
  BY DEF Grows
<1> QED  BY <1>1, PlainStep

LEMMA IdleElsewhere == Elsewhere(Idle) /\ \A i : Elsewhere(Dropping(i))
BY DEF Elsewhere, Idle, Dropping

LEMMA StaleSetup ==
    ASSUME IndInv, StaleInv, NEW h \in Reqs, HandleSetup(h)
    PROVE  StaleInv'
<1> DEFINE n(i, p) == [pc |-> "setup_insert", id |-> i, pw |-> p]
<1>1. PICK i \in Ids, p \in Passwords : Step(h, n(i, p))
  BY DEF HandleSetup
<1>2. Elsewhere(n(i, p))
  BY DEF Elsewhere
<1>3. UNCHANGED row /\ req[h].pc \notin {"drop", "recheck"} /\ \A t \in Tokens : Keeps(t)
  BY SameKeeps DEF HandleSetup, Idle
<1> HIDE DEF n
<1> QED  BY <1>1, <1>2, <1>3, ElsewhereOK, QuietStep

LEMMA StaleLogin ==
    ASSUME IndInv, StaleInv, NEW h \in Reqs, HandleLogin(h)
    PROVE  StaleInv'
<1> DEFINE n(i, p, s) == [pc |-> "verify", id |-> i, pw |-> p, seen |-> s]
<1>1. PICK i \in Ids, p \in Guesses : Step(h, n(i, p, IF Enabled(i) THEN row[i] ELSE Nobody))
  BY DEF HandleLogin
<1>2. PICK s : s = IF Enabled(i) THEN row[i] ELSE Nobody
  OBVIOUS
<1>3. UNCHANGED row /\ req[h].pc \notin {"drop", "recheck"} /\ \A t \in Tokens : Keeps(t)
  BY SameKeeps DEF HandleLogin, Idle
<1>4. s # Nobody => Later(i, s)'
  BY <1>2, <1>3 DEF StaleInv, SaltInv, Later, Enabled, Present
<1>5. SeenOK(n(i, p, s))' /\ TokOK(n(i, p, s))'
  BY <1>4 DEF SeenOK, TokOK
<1>6. Step(h, n(i, p, s))
  BY <1>1, <1>2
<1> HIDE DEF n
<1> QED  BY <1>3, <1>5, <1>6, QuietStep

LEMMA StaleHandleManage ==
    ASSUME IndInv, StaleInv, NEW h \in Reqs, HandleManage(h)
    PROVE  StaleInv'
<1> DEFINE n(t, i, o, p, role) ==
             [pc |-> "manage", op |-> o, id |-> i, who |-> sess[t].id,
              pw |-> IF o \in {"create", "reset"} THEN p ELSE NoPassword,
              role |-> IF o \in {"create", "role"} THEN role ELSE "viewer"]
<1>1. PICK t \in Tokens, i \in Ids, o \in Ops, p \in Passwords, role \in Roles :
         Step(h, IF o = "revoke" THEN Dropping(i) ELSE n(t, i, o, p, role))
  BY DEF HandleManage
<1>2. PICK m : m = IF o = "revoke" THEN Dropping(i) ELSE n(t, i, o, p, role)
  OBVIOUS
<1>3. Elsewhere(m)
  BY <1>2, IdleElsewhere DEF Elsewhere
<1>4. UNCHANGED row /\ req[h].pc \notin {"drop", "recheck"} /\ \A u \in Tokens : Keeps(u)
  BY SameKeeps DEF HandleManage, Idle
<1>5. Step(h, m)
  BY <1>1, <1>2
<1> HIDE DEF n
<1> QED  BY <1>3, <1>4, <1>5, ElsewhereOK, QuietStep

LEMMA StaleCredentialVerify ==
    ASSUME IndInv, StaleInv, NEW h \in Reqs, CredentialVerify(h)
    PROVE  StaleInv'
<1> DEFINE r == req[h]
           n == [pc |-> "change_commit", id |-> r.id, new |-> r.new]
<1>1. PICK m : Elsewhere(m) /\ Step(h, m)
  <2>1. Elsewhere(n)
    BY DEF Elsewhere
  <2>2. Step(h, n) \/ Step(h, Idle)
    BY DEF CredentialVerify
  <2> HIDE DEF n
  <2> QED  BY <2>1, <2>2, IdleElsewhere
<1>2. UNCHANGED sess \/ (Live(r.tok) /\ sess' = [sess EXCEPT ![r.tok].recent = TRUE])
  BY DEF CredentialVerify
<1>3. \A t \in Tokens : Keeps(t)
  BY <1>2, SameKeeps, RecentKeeps DEF IndInv
<1>4. UNCHANGED row /\ req[h].pc \notin {"drop", "recheck"}
  BY DEF CredentialVerify
<1> QED  BY <1>1, <1>3, <1>4, ElsewhereOK, QuietStep

\* The session of first-run setup remembers the account as it is: it agrees with
\* it, or it has been overtaken.
LEMMA StaleSetupSession ==
    ASSUME IndInv, StaleInv, NEW h \in Reqs, SetupSession(h)
    PROVE  StaleInv'
<1>1. PICK u \in Tokens : Fresh(u) /\ sess' = Create(u, req[h].id, "owner", 0, row[req[h].id])
  BY DEF SetupSession
<1>2. /\ \A t \in Tokens : t # u => Keeps(t)
      /\ sess'[u].id = req[h].id /\ sess'[u].born = row[req[h].id]
  <2>1. PICK i : i = req[h].id
    OBVIOUS
  <2> QED  BY <1>1, <2>1, CreateKeeps DEF IndInv
<1>3. Step(h, Idle) /\ UNCHANGED row /\ req[h].pc = "setup_session"
  BY DEF SetupSession
<1>4. \A j \in Ids : Grows(j)
  BY <1>3 DEF Grows
<1>5. \A k \in Reqs : req[k].pc = "recheck" => req[k].tok # u
  BY <1>1 DEF Fresh, StaleInv, TokInv
<1>6. SaltInv' /\ SeenInv' /\ TokInv'
  BY <1>2, <1>3, <1>4, <1>5, IdleElsewhere, ElsewhereOK, RequestStep
<1>7. ASSUME NEW t \in Tokens, Live(t)'
      PROVE  Stands(t)' \/ Doomed(t)'
  <2>1. CASE t = u
    <3>1. PICK i : i = req[h].id
      OBVIOUS
    <3>2. i \in Ids
      BY <1>3, <3>1 DEF IndInv, ReqInv, Named
    <3>3. row'[sess'[u].id] = row[i] /\ sess'[u].born = row[i]
      BY <1>2, <1>3, <3>1
    <3>4. row[i] = Nobody \/ row[i] = Deleted \/ row[i].status \in {"enabled", "disabled"}
      BY <3>2 DEF IndInv, RowInv
    <3>5. row[i] # Nobody
      BY <3>1, <1>3, <3>2 DEF StaleInv, SeenInv, Nobody
    <3> QED  BY <2>1, <3>3, <3>4, <3>5 DEF Stands, Overtaken
  <2>2. CASE t # u
    BY <1>2, <1>3, <1>7, <2>2, SessionStep DEF StaleInv
  <2> QED  BY <2>1, <2>2
<1>8. NoStaleSession'
  BY <1>7 DEF NoStaleSession, Stands, Agrees, Overtaken, Doomed, Live, Enabled
<1> QED  BY <1>6, <1>8 DEF StaleInv

\* A sign-in puts its session in the table and is then the one to compare.
LEMMA StaleLoginVerify ==
    ASSUME IndInv, StaleInv, NEW h \in Reqs, LoginVerify(h)
    PROVE  StaleInv'
<1>0. PICK r : r = req[h]
  OBVIOUS
<1>1. UNCHANGED row /\ r.pc = "verify"
  BY <1>0 DEF LoginVerify
<1>2. \A j \in Ids : Grows(j)
  BY <1>1 DEF Grows
<1>3. CASE Verifies(r.seen, r.pw)
  <2> DEFINE n(t) == [pc |-> "recheck", id |-> r.id, pw |-> r.pw, tok |-> t, seen |-> r.seen]
  <2>1. PICK u \in Tokens : /\ Fresh(u)
                            /\ sess' = Create(u, r.id, r.seen.role, r.seen.ver, Nobody)
                            /\ Step(h, n(u))
    BY <1>0, <1>3 DEF LoginVerify
  <2>2. /\ \A t \in Tokens : t # u => Keeps(t)
        /\ sess'[u].id = r.id /\ sess'[u].role = r.seen.role /\ sess'[u].ver = r.seen.ver
    <3>1. PICK i, a, b : i = r.id /\ a = r.seen.role /\ b = r.seen.ver
      OBVIOUS
    <3>2. sess' = Create(u, i, a, b, Nobody)
      BY <2>1, <3>1
    <3>3. SessInv
      BY DEF IndInv
    <3>4. /\ \A t \in Tokens : t # u => Keeps(t)
          /\ sess'[u].id = i /\ sess'[u].role = a /\ sess'[u].ver = b
      <4> HIDE DEF n
      <4> QED  BY <3>2, <3>3, CreateKeeps, Zenon
    <3> QED  BY <3>1, <3>4
  <2>3. Later(r.id, r.seen) /\ r.seen # Nobody
    BY <1>0, <1>1, <1>3 DEF StaleInv, SeenInv, Verifies
  <2>4. SeenOK(n(u))'
    BY <1>1, <2>3 DEF SeenOK, Later, Present
  <2>5. TokOK(n(u))'
    BY <2>2 DEF TokOK
  <2>6. \A k \in Reqs : req[k].pc = "recheck" => req[k].tok # u
    BY <2>1 DEF Fresh, StaleInv, TokInv
  <2>7. req'[h].pc = "recheck" /\ req'[h].tok = u
    BY <2>1 DEF Step, IndInv, ReqInv
  <2> HIDE DEF n
  <2>8. SaltInv' /\ SeenInv' /\ TokInv'
    BY <1>2, <2>1, <2>2, <2>4, <2>5, <2>6, RequestStep
  <2>9. ASSUME NEW t \in Tokens, Live(t)'
        PROVE  Stands(t)' \/ Doomed(t)'
    <3>1. CASE t = u
      BY <2>7, <3>1 DEF Doomed
    <3>2. CASE t # u
      BY <1>0, <1>1, <2>1, <2>2, <2>9, <3>2, SessionStep DEF StaleInv
    <3> QED  BY <3>1, <3>2
  <2>10. NoStaleSession'
    BY <2>9 DEF NoStaleSession, Stands, Agrees, Overtaken, Doomed, Live, Enabled
  <2> QED  BY <2>8, <2>10 DEF StaleInv
<1>4. CASE ~Verifies(r.seen, r.pw)
  <2>1. Step(h, Idle) /\ UNCHANGED sess
    BY <1>0, <1>4 DEF LoginVerify
  <2> QED
    BY <1>0, <1>1, <2>1, SameKeeps, IdleElsewhere, ElsewhereOK, QuietStep
<1> QED  BY <1>3, <1>4

\* The same hash is the same version: the session that stays agrees.
LEMMA StaleLoginRecheck ==
    ASSUME IndInv, StaleInv, NEW h \in Reqs, LoginRecheck(h)
    PROVE  StaleInv'
<1>0. PICK r : r = req[h]
  OBVIOUS
<1>1. UNCHANGED row /\ r.pc = "recheck" /\ r.tok \in Tokens
  BY <1>0 DEF LoginRecheck, StaleInv, TokInv
<1>2. \A j \in Ids : Grows(j)
  BY <1>1 DEF Grows
<1>3. CASE StillSame(r)
  <2> DEFINE n == [pc |-> "rehash", id |-> r.id, pw |-> r.pw]
  <2>1. Later(r.id, r.seen)
    BY <1>0, <1>1 DEF StaleInv, SeenInv
  <2>2. row[r.id].ver = r.seen.ver
    BY <1>3, <2>1 DEF Later, StillSame, Enabled, Deleted
  <2>3. Live(r.tok) => Stands(r.tok)
    BY <1>0, <1>1, <1>3, <2>2 DEF StaleInv, TokInv, Stands, Agrees, StillSame, Enabled
  <2>4. PICK m : Elsewhere(m) /\ Step(h, m)
    <3>1. Elsewhere(n)
      BY DEF Elsewhere
    <3>2. Step(h, n) \/ Step(h, Idle)
      BY <1>0, <1>3 DEF LoginRecheck
    <3> HIDE DEF n
    <3> QED  BY <3>1, <3>2, IdleElsewhere
  <2>5. \A t \in Tokens : Keeps(t) /\ (Live(t)' => Live(t))
    BY <1>0, <1>3, SameKeeps DEF LoginRecheck, Live
  <2> QED  BY <1>0, <1>1, <1>2, <2>3, <2>4, <2>5, ElsewhereOK, PlainStep
<1>4. CASE ~StillSame(r)
  <2>1. sess' = Drop(r.tok) /\ Step(h, Idle)
    BY <1>0, <1>4 DEF LoginRecheck
  <2>2. \A t \in Tokens : Keeps(t) /\ (Live(t)' => r.tok # t)
    BY <2>1, <1>1, DropKeeps DEF IndInv, SessInv, Drop, Live, NoSession
  <2> QED  BY <1>0, <1>1, <1>2, <2>1, <2>2, IdleElsewhere, ElsewhereOK, PlainStep
<1> QED  BY <1>3, <1>4

LEMMA StaleStops ==
    ASSUME IndInv, StaleInv, NEW h \in Reqs, DropSessions(h) \/ GiveUp(h)
    PROVE  StaleInv'
<1>0. PICK r : r = req[h]
  OBVIOUS
<1>1. UNCHANGED row /\ Step(h, Idle)
  BY DEF DropSessions, GiveUp
<1>2. \A j \in Ids : Grows(j)
  BY <1>1 DEF Grows
<1>3. CASE DropSessions(h)
  <2>1. sess' = DropAdmin(r.id) /\ r.pc = "drop"
    BY <1>0, <1>3 DEF DropSessions
  <2>2. \A t \in Tokens : Keeps(t) /\ (Live(t)' => sess[t].id # r.id)
    BY <2>1, DropAdminKeeps DEF IndInv
  <2> QED  BY <1>0, <1>1, <1>2, <2>1, <2>2, IdleElsewhere, ElsewhereOK, PlainStep
<1>4. CASE GiveUp(h) /\ r.pc = "recheck"
  <2>1. sess' = Drop(r.tok) /\ r.tok \in Tokens
    BY <1>0, <1>4 DEF GiveUp, StaleInv, TokInv
  <2>2. \A t \in Tokens : Keeps(t) /\ (Live(t)' => r.tok # t)
    BY <2>1, DropKeeps DEF IndInv, SessInv, Drop, Live, NoSession
  <2> QED  BY <1>0, <1>1, <1>2, <1>4, <2>2, IdleElsewhere, ElsewhereOK, PlainStep
<1>5. CASE GiveUp(h) /\ r.pc # "recheck"
  <2>1. UNCHANGED sess /\ r.pc # "drop"
    BY <1>0, <1>5 DEF GiveUp
  <2> QED  BY <1>0, <1>1, <1>5, <2>1, SameKeeps, IdleElsewhere, ElsewhereOK, QuietStep
<1> QED  BY <1>3, <1>4, <1>5

\* Steps of no request.
LEMMA StaleNoRequest ==
    ASSUME IndInv, StaleInv, UNCHANGED <<row, req>>, \A t \in Tokens : Keeps(t)
    PROVE  StaleInv'
<1>1. SaltInv' /\ SeenInv'
  BY DEF StaleInv, SaltInv, SeenInv, Later, Present
<1>2. TokInv'
  BY DEF StaleInv, TokInv, Keeps, Live
<1>3. NoStaleSession'
  BY DEF StaleInv, NoStaleSession, Agrees, Doomed, Overtaken, Keeps, Live, Enabled
<1> QED  BY <1>1, <1>2, <1>3 DEF StaleInv

LEMMA StaleSessions ==
    ASSUME IndInv, StaleInv, NEW t \in Tokens, Ended(t) \/ CurrentAccount(t) \/ CredentialLapses(t)
    PROVE  StaleInv'
<1>1. UNCHANGED <<row, req>>
  BY DEF Ended, CurrentAccount, CredentialLapses
<1>2. PICK i : i = sess[t].id
  OBVIOUS
<1>3. \A u \in Tokens : Keeps(u)
  BY <1>2, DropKeeps, DropAdminKeeps, RecentKeeps
     DEF IndInv, Ended, CurrentAccount, CredentialLapses
<1> QED  BY <1>1, <1>3, StaleNoRequest

LEMMA StaleHandleCredential ==
    ASSUME IndInv, StaleInv, NEW h \in Reqs, HandleCredential(h)
    PROVE  StaleInv'
<1> DEFINE n(t, o, p, q) ==
             [pc |-> o, id |-> sess[t].id, tok |-> t, pw |-> p, seen |-> row[sess[t].id],
              new |-> IF o = "change" THEN q ELSE NoPassword]
<1>1. PICK t \in Tokens, o \in {"change", "reauth"}, p \in Guesses, q \in Passwords :
         \/ Step(h, n(t, o, p, q)) /\ UNCHANGED sess
         \/ sess' = DropAdmin(sess[t].id) /\ UNCHANGED req
  BY DEF HandleCredential
<1>2. UNCHANGED row /\ req[h].pc \notin {"drop", "recheck"}
  BY DEF HandleCredential, Idle
<1>3. PICK i, m : i = sess[t].id /\ m = n(t, o, p, q)
  OBVIOUS
<1>4. CASE Step(h, m) /\ UNCHANGED sess
  <2>1. Elsewhere(m)
    BY <1>3 DEF Elsewhere
  <2> HIDE DEF n
  <2> QED  BY <1>2, <1>4, <2>1, SameKeeps, ElsewhereOK, QuietStep
<1>5. CASE sess' = DropAdmin(i) /\ UNCHANGED req
  <2>1. \A u \in Tokens : Keeps(u)
    BY <1>5, DropAdminKeeps DEF IndInv
  <2> QED  BY <1>2, <1>5, <2>1, StaleNoRequest
<1> HIDE DEF n
<1> QED  BY <1>1, <1>3, <1>4, <1>5

-----------------------------------------------------------------------------
(* The steps that write a row.                                             *)

\* One row is written.  Its sessions agreed with no row that could be, agree
\* with the new one, or are the ones the request goes on to revoke.
LEMMA StaleOneRow ==
    ASSUME IndInv, StaleInv, \A j \in Ids : Grows(j), NEW h \in Reqs, NEW n, Step(h, n),
           SeenOK(n)', TokOK(n)', req[h].pc \notin {"drop", "recheck"}, UNCHANGED sess,
           NEW i \in Ids, NEW x, row' = [row EXCEPT ![i] = x],
           \/ n = Dropping(i)
           \/ row[i].status = "none"
           \/ Present(i) /\ x.status = "enabled" /\ x.role = row[i].role /\ x.ver = row[i].ver
    PROVE  StaleInv'
<1>1. row'[i] = x /\ \A j \in Ids : j # i => row'[j] = row[j]
  BY DEF IndInv, RowInv
<1>2. ASSUME NEW t \in Tokens, Live(t)'
      PROVE  \/ row'[sess[t].id] = row[sess[t].id]
             \/ Stands(t) => Stands(t)'
             \/ n.pc = "drop" /\ n.id = sess[t].id
  <2>1. sess[t].id \in Ids
    BY <1>2 DEF Live, IndInv, SessInv
  <2>2. CASE sess[t].id = i
    BY <1>1, <2>2 DEF Stands, Agrees, Overtaken, Enabled, Present, Dropping, Deleted
  <2>3. CASE sess[t].id # i
    BY <1>1, <2>1, <2>3
  <2> QED  BY <2>2, <2>3
<1> QED  BY <1>2, SameKeeps, PlainStep

LEMMA StaleFirstAdmin ==
    ASSUME IndInv, StaleInv, \A j \in Ids : Grows(j), NEW h \in Reqs, CreateFirstAdmin(h)
    PROVE  StaleInv'
<1>0. PICK r : r = req[h]
  OBVIOUS
<1>1. r.pc = "setup_insert" /\ r.id \in Ids /\ UNCHANGED sess
  BY <1>0 DEF CreateFirstAdmin, IndInv, ReqInv, Named
<1>2. CASE NoAccounts
  <2> DEFINE n == [pc |-> "setup_session", id |-> r.id]
             x == [status |-> "enabled", role |-> "owner", ver |-> 0, hash |-> Hash(r.pw, 0, FALSE)]
  <2>1. Step(h, n) /\ row' = [row EXCEPT ![r.id] = x]
    BY <1>0, <1>2 DEF CreateFirstAdmin
  <2>2. row[r.id].status = "none"
    BY <1>1, <1>2 DEF NoAccounts
  <2>3. row'[r.id] = x
    BY <1>1, <2>1 DEF IndInv, RowInv
  <2>4. SeenOK(n)' /\ TokOK(n)'
    BY <2>3 DEF SeenOK, TokOK
  <2> HIDE DEF n, x
  <2> QED  BY <1>0, <1>1, <2>1, <2>2, <2>4, StaleOneRow
<1>3. CASE ~NoAccounts
  <2>1. Step(h, Idle) /\ UNCHANGED row
    BY <1>0, <1>3 DEF CreateFirstAdmin
  <2> QED  BY <1>0, <1>1, <2>1, SameKeeps, IdleElsewhere, ElsewhereOK, QuietStep
<1> QED  BY <1>2, <1>3

\* A hash of the current cost is written over one of the older cost.
LEMMA StaleRehash ==
    ASSUME IndInv, StaleInv, \A j \in Ids : Grows(j), NEW h \in Reqs, Rehash(h)
    PROVE  StaleInv'
<1>0. PICK r : r = req[h]
  OBVIOUS
<1>1. r.pc = "rehash" /\ r.id \in Ids /\ Step(h, Idle) /\ UNCHANGED sess
  BY <1>0 DEF Rehash, IndInv, ReqInv, Named
<1>2. CASE Enabled(r.id)
  <2> DEFINE x == [row[r.id] EXCEPT !.hash = Password(r.id, r.pw)]
  <2>1. row' = [row EXCEPT ![r.id] = x]
    BY <1>0, <1>2 DEF Rehash
  <2>2. {"status", "role", "hash", "ver"} \subseteq DOMAIN row[r.id]
    BY <1>1, <1>2 DEF IndInv, RowInv, Enabled, Nobody, Deleted
  <2>3. x.status = "enabled" /\ x.role = row[r.id].role /\ x.ver = row[r.id].ver
    BY <1>2, <2>2 DEF Enabled
  <2>4. Present(r.id)
    BY <1>2 DEF Enabled, Present
  <2> HIDE DEF x
  <2> QED  BY <1>0, <1>1, <2>1, <2>3, <2>4, IdleElsewhere, ElsewhereOK, StaleOneRow
<1>3. CASE ~Enabled(r.id)
  <2>1. UNCHANGED row
    BY <1>0, <1>3 DEF Rehash
  <2> QED  BY <1>0, <1>1, <2>1, SameKeeps, IdleElsewhere, ElsewhereOK, QuietStep
<1> QED  BY <1>2, <1>3

LEMMA StaleSetPassword ==
    ASSUME IndInv, StaleInv, \A j \in Ids : Grows(j), NEW h \in Reqs, SetAdminPassword(h)
    PROVE  StaleInv'
<1>0. PICK r : r = req[h]
  OBVIOUS
<1>1. r.pc = "change_commit" /\ r.id \in Ids
  BY <1>0 DEF SetAdminPassword, IndInv, ReqInv, Named
<1>2. CASE Enabled(r.id)
  <2> DEFINE y == [row[r.id] EXCEPT !.hash = Password(r.id, r.new)]
             x == [y EXCEPT !.ver = @ + 1]
  <2>1. row' = [row EXCEPT ![r.id].hash = Password(r.id, r.new), ![r.id].ver = @ + 1]
    BY <1>0, <1>2 DEF SetAdminPassword
  <2>2. row = [j \in Ids |-> row[j]]
    BY DEF IndInv, RowInv
  <2>3. row' = [row EXCEPT ![r.id] = x]
    BY <1>1, <2>1, <2>2, TwoColumns
  <2>4. Step(h, Dropping(r.id)) /\ UNCHANGED sess
    BY <1>0, <1>2 DEF SetAdminPassword
  <2> HIDE DEF x, y
  <2> QED  BY <1>0, <1>1, <2>3, <2>4, IdleElsewhere, ElsewhereOK, StaleOneRow
<1>3. CASE ~Enabled(r.id)
  <2>1. sess' = DropAdmin(r.id) /\ Step(h, Idle) /\ UNCHANGED row
    BY <1>0, <1>3 DEF SetAdminPassword
  <2>2. \A t \in Tokens : Keeps(t)
    BY <2>1, DropAdminKeeps DEF IndInv
  <2> QED  BY <1>0, <1>1, <2>1, <2>2, IdleElsewhere, ElsewhereOK, QuietStep
<1> QED  BY <1>2, <1>3

LEMMA StaleManage ==
    ASSUME IndInv, StaleInv, \A j \in Ids : Grows(j), NEW h \in Reqs, Manage(h)
    PROVE  StaleInv'
<1>0. PICK r : r = req[h]
  OBVIOUS
<1>1. r.pc = "manage" /\ r.id \in Ids /\ r.op \in Ops \ {"revoke"}
  BY <1>0 DEF Manage, IndInv, ReqInv, Named
<1>2. CASE sess' = DropAdmin(r.who) /\ Step(h, Idle) /\ UNCHANGED row
  <2>1. \A t \in Tokens : Keeps(t)
    <3>1. PICK i : i = r.who
      OBVIOUS
    <3> QED  BY <1>2, <3>1, DropAdminKeeps DEF IndInv
  <2> QED  BY <1>0, <1>1, <1>2, <2>1, IdleElsewhere, ElsewhereOK, QuietStep
<1>3. CASE Step(h, Idle) /\ UNCHANGED <<row, sess>>
  BY <1>0, <1>1, <1>3, SameKeeps, IdleElsewhere, ElsewhereOK, QuietStep
<1>4. CASE /\ ~Refused(r) /\ row' = Effect(r)
           /\ Step(h, IF Revokes(r) THEN Dropping(r.id) ELSE Idle)
           /\ UNCHANGED sess
  <2>1. PICK x : row' = [row EXCEPT ![r.id] = x]
    BY <1>1, <1>4 DEF IndInv, RowInv, Effect, CreateAdmin, SetAdminRole, SetAdminEnabled, DeleteAdmin,
                ResetAdminPassword, Ops, Refused
  <2>2. CASE Revokes(r)
    <3>1. PICK i, n : i = r.id /\ n = Dropping(i)
      OBVIOUS
    <3>2. Step(h, n) /\ UNCHANGED sess
      BY <1>4, <2>2, <3>1
    <3>3. Elsewhere(n) /\ req[h].pc \notin {"drop", "recheck"} /\ i \in Ids
      BY <1>0, <1>1, <3>1, IdleElsewhere
    <3> QED  BY <2>1, <3>1, <3>2, <3>3, ElsewhereOK, StaleOneRow
  <2>3. CASE r.op = "create"
    <3>1. Step(h, Idle) /\ row[r.id].status = "none"
      BY <1>4, <2>3 DEF Revokes, Refused, Nobody
    <3> QED  BY <1>0, <1>1, <1>4, <2>1, <3>1, IdleElsewhere, ElsewhereOK, StaleOneRow
  <2>4. CASE r.op = "enable"
    <3> DEFINE y == [row[r.id] EXCEPT !.status = "enabled"]
    <3>1. Step(h, Idle) /\ Present(r.id)
      BY <1>4, <2>4 DEF Revokes, Refused
    <3>2. row' = [row EXCEPT ![r.id] = y]
      BY <1>4, <2>4, <3>1 DEF Effect, SetAdminEnabled
    <3>3. {"status", "role", "hash", "ver"} \subseteq DOMAIN row[r.id]
      BY <1>1, <3>1 DEF IndInv, RowInv, Present, Nobody, Deleted
    <3>4. y.status = "enabled" /\ y.role = row[r.id].role /\ y.ver = row[r.id].ver
      BY <3>3
    <3> HIDE DEF y
    <3> QED  BY <1>0, <1>1, <1>4, <3>1, <3>2, <3>4, IdleElsewhere, ElsewhereOK, StaleOneRow
  <2> QED  BY <2>2, <2>3, <2>4 DEF Revokes
<1> QED  BY <1>0, <1>2, <1>3, <1>4 DEF Manage

LEMMA StaleInit == Init => StaleInv
<1> SUFFICES ASSUME Init PROVE StaleInv
  OBVIOUS
<1>1. \A i \in Ids : row[i] = Nobody \/ \E role, p : row[i] = Account(role, p)
  BY DEF Init
<1>2. \A i \in Ids : Present(i) => \E role, p : row[i] = Account(role, p)
  BY <1>1 DEF Present, Nobody
<1>3. \A role, p : Account(role, p).hash.salt = 0
  BY DEF Account, Hash
<1>4. SaltInv
  BY <1>2, <1>3 DEF SaltInv
<1>5. \A h \in Reqs : req[h].pc = "idle"
  BY DEF Init, Idle
<1>6. \A t \in Tokens : ~Live(t)
  BY DEF Init, Live, NoSession
<1> QED  BY <1>4, <1>5, <1>6 DEF StaleInv, SeenInv, TokInv, NoStaleSession

LEMMA StaleStep ==
    ASSUME IndInv, StaleInv, [Next]_vars PROVE StaleInv'
<1>1. CASE UNCHANGED <<row, req, sess>>
  BY <1>1, SameKeeps, StaleNoRequest
<1>2. CASE UNCHANGED vars
  BY <1>1, <1>2 DEF vars
<1>3. CASE Next
  <2>1. \A j \in Ids : Grows(j)
    BY <1>3, RowsGrow DEF StaleInv
  <2> QED
    BY <1>1, <1>3, <2>1, StaleSetup, StaleFirstAdmin, StaleSetupSession, StaleLogin,
       StaleLoginVerify, StaleLoginRecheck, StaleRehash, StaleHandleManage, StaleManage,
       StaleStops, StaleHandleCredential, StaleCredentialVerify, StaleSetPassword, StaleSessions
       DEF Next, ThrottleLapses
<1> QED  BY <1>2, <1>3

(* Between the sign-ins, password changes, resets, demotions and           *)
(* revocations of any number of operators (api/auth.go, api/accounts.go),  *)
(* a session whose account has changed under it is one a request in        *)
(* progress is about to end.  The exception is that of NoStaleSession: a   *)
(* session of first-run setup whose account had changed before handleSetup *)
(* made it, until the account's next change.                               *)
THEOREM AccountsNoStaleSession == Spec => []NoStaleSession
<1>1. StaleInv /\ IndInv /\ [Next]_vars => StaleInv'
  BY StaleStep
<1>2. StaleInv => NoStaleSession
  BY DEF StaleInv
<1> QED  BY <1>1, <1>2, StaleInit, IndInvAlways, PTL DEF Spec

=============================================================================
