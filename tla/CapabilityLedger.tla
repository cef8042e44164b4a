-------------------------- MODULE CapabilityLedger --------------------------
(***************************************************************************)
(* The optional LLDP capability of one adopted router: the package, its    *)
(* service and its configuration file on the router, and the durable row   *)
(* (store: device_capability_installs) that lets the controller undo it.   *)
(*                                                                         *)
(* An operator's request is install, configure or remove; the site mutex   *)
(* and the device gate admit one at a time (DeviceGate, Admission), so     *)
(* there is one request in progress, `op`.  Every store statement and      *)
(* every SSH command of the handler is a step.  A command may be cut short *)
(* on the router, and the handler may stop after any step with the row as  *)
(* it is: a crash, or the request's deadline, after which the statement    *)
(* that would mark the row fails too.  The plan_ requests only read, and   *)
(* the request's plan hash is taken to match what the handler reads back.  *)
(*                                                                         *)
(* The operator uses the router too: he edits the LLDP file at any moment, *)
(* and runs the package manager between requests.  Ownership of a package  *)
(* is by name, so while there is a row he installs no package of the       *)
(* capability himself.                                                     *)
(***************************************************************************)
EXTENDS Naturals, FiniteSets

CONSTANTS Libs,        \* libraries the package feed may have lldpd require
          Tools,       \* other packages of the operator
          Requires,    \* Requires[t]: the libraries a tool requires
          Ports,       \* wired interfaces of the router
          OtherPorts,  \* interface names an operator writes and the controller never
          Rests,       \* contents of the file outside its interface list
          PackagePorts, PackageRest  \* the file the package ships

None == [none |-> TRUE]

ASSUME CapabilityAssumption ==
    /\ "lldpd" \notin Libs \cup Tools
    /\ Libs \cap Tools = {}
    /\ Ports \cap OtherPorts = {}
    /\ Requires \in [Tools -> SUBSET Libs]
    /\ PackagePorts \in (SUBSET OtherPorts) \ {{}}
    /\ PackageRest \in Rests

Packages == {"lldpd"} \cup Libs \cup Tools
Service  == {"enabled", "running"}
Files    == [rest : Rests, ports : SUBSET (Ports \cup OtherPorts)]
PackageFile == [rest |-> PackageRest, ports |-> PackagePorts]
States   == {"installing", "installed", "removing", "error"}

Rows == [state : States, installedAt : BOOLEAN, baseline : SUBSET Packages,
         added : SUBSET Packages, was : SUBSET Service,
         base : Files \cup {None}, applied : Files \cup {None}]

PCs == {"idle", "record_plan", "install", "install_failed", "read_back",
        "complete", "record_config", "configure", "verify", "restore",
        "clear", "remove", "readback_removal", "failed"}
Idle == [pc |-> "idle", own |-> {}, seen |-> None, ports |-> {}]

VARIABLES pkgs,   \* installed packages
          deps,   \* what the feed's lldpd requires now
          svc,    \* the lldpd service: enabled at boot, running now
          conf,   \* /etc/config/lldpd, None without the package
          ports,  \* wired members of br-lan
          row,    \* the durable record, None without one
          op,     \* the request in progress
          before, ours, user, userSvc   \* history: see Init

router  == <<pkgs, deps, svc, conf, ports>>
history == <<before, ours, user, userSvc>>
vars    == <<pkgs, deps, svc, conf, ports, row, op, before, ours, user, userSvc>>

-----------------------------------------------------------------------------
(* What the package manager answers (external, as the handler uses it).    *)

\* The packages `apk add lldpd` would install.
Missing == IF "lldpd" \in pkgs THEN {} ELSE ({"lldpd"} \cup deps) \ pkgs

\* Whether package q requires p.
Needs(q, p) == \/ q = "lldpd" /\ p \in deps
               \/ q \in Tools /\ p \in Requires[q]

\* The packages `apk del R` removes: those of R that nothing left requires, and
\* the libraries that came with lldpd and that nothing left requires.
Purge(R) ==
    LET kept == pkgs \ R
    IN  {p \in R : \A q \in kept : ~Needs(q, p)}
          \cup {p \in (kept \cap Libs) \ row.baseline :
                  "lldpd" \in R /\ \A q \in kept : ~Needs(q, p)}

-----------------------------------------------------------------------------
(* The checks of the handler.                                              *)

\* lldpInstallOwnedPackages: what the plan would make the controller's own, or
\* what it refuses.  A plan that would upgrade or replace a package is refused
\* too; a refused request changes nothing, so only the others are here.
Base == IF row = None THEN pkgs ELSE row.baseline
Known == IF row = None THEN {}
         ELSE row.added \cup ({"lldpd"} \ row.baseline)
UnknownAtRetry == row # None /\ (pkgs \ Base) \ Known # {}
Owned == (IF row = None THEN {}
          ELSE row.added \cup ({"lldpd"} \cap (pkgs \ Base)))
           \cup (Missing \ Base)
InstallAllowed == /\ ~UnknownAtRetry
                  /\ "lldpd" \in Base \cup Owned

\* lldpConfigRollbackNeeded: the file is the recorded one or the applied one.
Recognised(r, file) == file = r.base \/ (r.applied # None /\ file = r.applied)

\* rewriteLLDPInterfaces
Rewrite(file, ps) == [file EXCEPT !.ports = ps]

\* lldpRemovalPackages: what a removal would take away, for a record whose
\* installation never completed and for one whose did.
Claimed == row.added \cup (({"lldpd"} \cap pkgs) \ row.baseline)
UnknownAtRemoval == (pkgs \ row.baseline) \ Claimed
RemovalPackages == IF row.installedAt THEN row.added \cap pkgs ELSE Claimed \cap pkgs

\* validateLLDPRemovalPlan: the simulated removal names exactly these packages.
RemovesExactly(R) == Purge(R) = R

\* lldpRemovalPlan
RemovalAllowed ==
    /\ row.base # None => "lldpd" \in pkgs /\ Recognised(row, conf)
    /\ row.base # None => ports # {}
    /\ row.baseline \subseteq pkgs
    /\ ~row.installedAt => UnknownAtRemoval = {}
    /\ RemovalPackages # {} => RemovesExactly(RemovalPackages)

-----------------------------------------------------------------------------
(* The statements of the store; each names in its WHERE clause the states  *)
(* of the row it is for.                                                   *)

\* Mutant: a retry takes the baseline from the router again.
BeginRebaselines ==
    /\ row # None => row.state = "error" /\ ~row.installedAt
    /\ row' = [state |-> "installing", installedAt |-> FALSE, baseline |-> pkgs,
               added |-> {}, was |-> svc, base |-> None, applied |-> None]

\* A first record takes the baseline from the router, a retry keeps the one it
\* has.
BeginCapabilityInstall ==
    /\ row # None => row.state = "error" /\ ~row.installedAt
    /\ row' = IF row = None
              THEN [state |-> "installing", installedAt |-> FALSE, baseline |-> pkgs,
                    added |-> {}, was |-> svc, base |-> None, applied |-> None]
              ELSE [row EXCEPT !.state = "installing"]

UpdateCapabilityAddedPackages(added) ==
    /\ row.state \in {"installing", "error"}
    /\ row' = [row EXCEPT !.added = added]

CompleteCapabilityInstall ==
    /\ row.state = "installing"
    /\ row' = [row EXCEPT !.state = "installed", !.installedAt = TRUE]

UpdateCapabilityServices(base, applied) ==
    /\ row.state \in {"installed", "removing", "error"}
    /\ row' = [row EXCEPT !.base = base, !.applied = applied]

CompleteCapabilityConfiguration ==
    /\ row.state = "error"
    /\ row' = [row EXCEPT !.state = "installed"]

BeginCapabilityRemoval == row' = [row EXCEPT !.state = "removing"]

CompleteCapabilityRemoval == row.state = "removing" /\ row' = None

MarkCapabilityInstallError == row' = [row EXCEPT !.state = "error"]

-----------------------------------------------------------------------------
(* Install.                                                                *)

\* The checks on the plan, and the record.
BeginInstall ==
    /\ op.pc = "idle"
    /\ InstallAllowed
    /\ BeginCapabilityInstall
    /\ op' = [Idle EXCEPT !.pc = "record_plan", !.own = Owned]
    /\ before' = IF row = None THEN pkgs ELSE before
    /\ ours' = IF row = None THEN {} ELSE ours
    /\ UNCHANGED <<router, user, userSvc>>

\* The planned packages, before the router is touched.
RecordPlan ==
    /\ op.pc = "record_plan"
    /\ UpdateCapabilityAddedPackages(op.own)
    /\ op' = [op EXCEPT !.pc = "install"]
    /\ UNCHANGED <<router, history>>

\* What an installation that got as far as `got` leaves on the router; the
\* package's own script may have enabled and started the service.
Installed(got, s) ==
    /\ pkgs' = pkgs \cup got
    /\ svc' = s
    /\ conf' = IF "lldpd" \in got THEN PackageFile ELSE conf
    /\ user' = IF "lldpd" \in got THEN PackageFile ELSE user
    /\ ours' = ours \cup (got \ before)
    /\ UNCHANGED <<deps, ports, row, before, userSvc>>

InstallLLDP ==
    /\ op.pc = "install"
    /\ Installed(Missing, Service)
    /\ op' = [op EXCEPT !.pc = "read_back"]

\* Cut short on the router, or complete and its answer lost.  The package
\* manager installs what a package requires before the package.
InstallCut ==
    /\ op.pc = "install"
    /\ \E got \in SUBSET Missing, s \in SUBSET Service :
          /\ "lldpd" \in got => got = Missing
          /\ "lldpd" \notin pkgs \cup got => s = {}
          /\ Installed(got, svc \cup s)
    /\ op' = [op EXCEPT !.pc = "install_failed"]

\* recordLLDPAddedPackages, which may fail by itself; MarkError is next.
InstallFailed ==
    /\ op.pc = "install_failed"
    /\ UpdateCapabilityAddedPackages(op.own \cap pkgs) \/ UNCHANGED row
    /\ op' = [op EXCEPT !.pc = "failed"]
    /\ UNCHANGED <<router, history>>

ReadBack ==
    /\ op.pc = "read_back"
    /\ UpdateCapabilityAddedPackages(op.own \cap pkgs)
    /\ op' = [op EXCEPT !.pc = "complete"]
    /\ UNCHANGED <<router, history>>

\* Nothing the plan did not name, and the service enabled and running.
InstallVerified ==
    /\ (pkgs \ row.baseline) \ op.own = {}
    /\ "lldpd" \in pkgs
    /\ svc = Service

CompleteInstall ==
    /\ op.pc = "complete"
    /\ IF InstallVerified THEN CompleteCapabilityInstall ELSE MarkCapabilityInstallError
    /\ op' = Idle
    /\ UNCHANGED <<router, history>>

-----------------------------------------------------------------------------
(* Configure.                                                              *)

\* LLDPConfigPlanState and the drift check.
BeginConfigure ==
    /\ op.pc = "idle"
    /\ row # None /\ row.state \in {"installed", "error"}
    /\ conf # None /\ ports # {}
    /\ row.base # None => Recognised(row, conf)
    /\ op' = [Idle EXCEPT !.pc = "record_config", !.seen = conf, !.ports = ports]
    /\ UNCHANGED <<router, row, history>>

\* The rollback intent, before the file is written.
RecordConfig ==
    /\ op.pc = "record_config"
    /\ UpdateCapabilityServices(IF row.base = None THEN op.seen ELSE row.base,
                                Rewrite(op.seen, op.ports))
    /\ op' = [op EXCEPT !.pc = "configure"]
    /\ UNCHANGED <<router, history>>

\* Mutant: the command writes whatever the file holds now.
ConfigureUnchecked ==
    /\ op.pc = "configure"
    /\ conf' = row.applied
    /\ svc' = svc \cup {"running"}
    /\ op' = [op EXCEPT !.pc = "verify"]
    /\ UNCHANGED <<pkgs, deps, ports, row, history>>

\* The command compares the file with what was read before it writes.
ConfigureLLDP ==
    /\ op.pc = "configure" /\ conf = op.seen
    /\ conf' = row.applied
    /\ svc' = svc \cup {"running"}
    /\ op' = [op EXCEPT !.pc = "verify"]
    /\ UNCHANGED <<pkgs, deps, ports, row, history>>

\* Killed before the list was deleted, after it, or with the new list in place;
\* `uci export` shows changes that were staged and not committed.
ConfigureCut ==
    /\ op.pc = "configure" /\ conf = op.seen
    /\ \E ps \in {conf.ports, {}, op.ports} : conf' = Rewrite(conf, ps)
    /\ svc' \in {svc, svc \cup {"running"}}
    /\ op' = [op EXCEPT !.pc = "failed"]
    /\ UNCHANGED <<pkgs, deps, ports, row, history>>

\* Exit 23: the file changed since it was read.
ConfigureRefused ==
    /\ op.pc = "configure" /\ conf # op.seen
    /\ op' = [op EXCEPT !.pc = "failed"]
    /\ UNCHANGED <<router, row, history>>

\* The read-back; a row in error is one no longer.
CompleteConfigure ==
    /\ op.pc = "verify" /\ conf = row.applied
    /\ IF row.state = "error" THEN CompleteCapabilityConfiguration ELSE UNCHANGED row
    /\ op' = Idle
    /\ UNCHANGED <<router, history>>

\* The read-back differed, failed, or an interface was not active.
VerifyFailed ==
    /\ op.pc = "verify"
    /\ op' = [op EXCEPT !.pc = "failed"]
    /\ UNCHANGED <<router, row, history>>

-----------------------------------------------------------------------------
(* Remove.                                                                 *)

\* The plan, and the record from whatever state it is in.
BeginRemoval ==
    /\ op.pc = "idle"
    /\ row # None
    /\ RemovalAllowed
    /\ BeginCapabilityRemoval
    /\ op' = [Idle EXCEPT !.pc = IF row.base = None THEN "remove"
                                 ELSE IF conf = row.base THEN "clear" ELSE "restore",
                          !.own = RemovalPackages, !.seen = conf]
    /\ UNCHANGED <<router, history>>

RestoreLLDPConfig ==
    /\ op.pc = "restore" /\ conf = op.seen
    /\ conf' = row.base
    /\ svc' = svc \cup {"running"}
    /\ op' = [op EXCEPT !.pc = "clear"]
    /\ UNCHANGED <<pkgs, deps, ports, row, history>>

\* Exit 23, or the command failed before or after the import.
RestoreFailed ==
    /\ op.pc = "restore"
    /\ \/ conf' = conf
       \/ conf = op.seen /\ conf' = row.base
    /\ svc' \in {svc, svc \cup {"running"}}
    /\ op' = [op EXCEPT !.pc = "failed"]
    /\ UNCHANGED <<pkgs, deps, ports, row, history>>

\* The configuration is back: its rollback record is dropped.
ClearConfig ==
    /\ op.pc = "clear"
    /\ UpdateCapabilityServices(None, None)
    /\ op' = [op EXCEPT !.pc = "remove"]
    /\ UNCHANGED <<router, history>>

\* What a removal that took away `gone` leaves on the router.
Removed(gone, s) ==
    /\ pkgs' = pkgs \ gone
    /\ svc' = s
    /\ conf' = IF "lldpd" \in gone THEN None ELSE conf
    /\ user' = IF "lldpd" \in gone THEN None ELSE user
    /\ UNCHANGED <<deps, ports, row, before, ours, userSvc>>

\* RemoveLLDP: the recorded packages, or the recorded service state when there
\* is no package to remove.
RemoveLLDP ==
    /\ op.pc = "remove"
    /\ IF op.own # {}
       THEN Removed(Purge(op.own), IF "lldpd" \in Purge(op.own) THEN {} ELSE svc)
       ELSE Removed({}, IF "lldpd" \in pkgs THEN row.was ELSE svc)
    /\ op' = [op EXCEPT !.pc = "readback_removal"]

RemoveCut ==
    /\ op.pc = "remove"
    /\ \E gone \in SUBSET Purge(op.own), s \in {svc, svc \ {"enabled"}, {}, row.was} :
          /\ "lldpd" \notin pkgs \ gone => "enabled" \notin s
          /\ "lldpd" \notin gone => \A p \in gone : ~("lldpd" \in pkgs /\ Needs("lldpd", p))
          /\ Removed(gone, s)
    /\ op' = [op EXCEPT !.pc = "failed"]

\* verifyLLDPRemoval
RemovalVerified ==
    /\ row.baseline \subseteq pkgs
    /\ op.own \cap pkgs = {}
    /\ "lldpd" \in pkgs <=> "lldpd" \in row.baseline
    /\ svc = IF "lldpd" \in pkgs THEN row.was ELSE {}

\* The read-back, and the end of the record.
CompleteRemoval ==
    /\ op.pc = "readback_removal"
    /\ IF RemovalVerified
       THEN CompleteCapabilityRemoval /\ op' = Idle /\ before' = {} /\ ours' = ours \cap pkgs
       ELSE op' = [op EXCEPT !.pc = "failed"] /\ UNCHANGED <<row, before, ours>>
    /\ UNCHANGED <<router, user, userSvc>>

-----------------------------------------------------------------------------
(* Every request.                                                          *)

\* The error path of most steps.
MarkError ==
    /\ op.pc \in {"failed", "record_plan", "read_back", "complete", "readback_removal"}
    /\ MarkCapabilityInstallError
    /\ op' = Idle
    /\ UNCHANGED <<router, history>>

\* A crash, the deadline or an unavailable store: nothing more is written.
Abandon ==
    /\ op.pc # "idle"
    /\ op' = Idle
    /\ UNCHANGED <<router, row, history>>

-----------------------------------------------------------------------------
(* The operator on the router (external).                                  *)

EditFile ==
    /\ conf # None
    /\ \E rest \in Rests : conf' = [conf EXCEPT !.rest = rest] /\ user' = [user EXCEPT !.rest = rest]
    /\ UNCHANGED <<pkgs, deps, svc, ports, row, op, before, ours, userSvc>>

EditPorts ==
    /\ conf # None
    /\ \E ps \in (SUBSET OtherPorts) \ {{}} :
          conf' = Rewrite(conf, ps) /\ user' = Rewrite(user, ps)
    /\ UNCHANGED <<pkgs, deps, svc, ports, row, op, before, ours, userSvc>>

Rewire ==
    /\ ports' \in SUBSET Ports
    /\ UNCHANGED <<pkgs, deps, svc, conf, row, op, history>>

Publish ==
    /\ deps' \in SUBSET Libs
    /\ "lldpd" \in pkgs => deps' = deps
    /\ UNCHANGED <<pkgs, svc, conf, ports, row, op, history>>

\* With no record the operator installs anything; beside one, his own packages
\* and what was there before.
AddPackage ==
    /\ op.pc = "idle"
    /\ \E p \in Packages \ pkgs :
          /\ row # None => p \in Tools \cup before
          /\ LET got == {p} \cup (IF p = "lldpd" THEN deps
                                  ELSE IF p \in Tools THEN Requires[p] ELSE {})
                 s == IF p = "lldpd" THEN Service ELSE svc
             IN  /\ row # None => got \ pkgs \subseteq Tools \cup before
                 /\ pkgs' = pkgs \cup got
                 /\ svc' = s
                 /\ conf' = IF p = "lldpd" THEN PackageFile ELSE conf
                 /\ user' = IF p = "lldpd" THEN PackageFile ELSE user
                 /\ userSvc' = IF row = None THEN s ELSE userSvc
                 /\ ours' = IF row = None THEN ours \ got ELSE ours
    /\ UNCHANGED <<deps, ports, row, op, before>>

DropPackage ==
    /\ op.pc = "idle"
    /\ \E p \in pkgs :
          /\ \A q \in pkgs : ~Needs(q, p)
          /\ pkgs' = pkgs \ {p}
          /\ svc' = IF p = "lldpd" THEN {} ELSE svc
          /\ conf' = IF p = "lldpd" THEN None ELSE conf
          /\ user' = IF p = "lldpd" THEN None ELSE user
          /\ userSvc' = IF p = "lldpd" /\ row = None THEN {} ELSE userSvc
    /\ UNCHANGED <<deps, ports, row, op, before, ours>>

SetService ==
    /\ op.pc = "idle" /\ row = None /\ "lldpd" \in pkgs
    /\ svc' \in SUBSET Service
    /\ userSvc' = svc'
    /\ UNCHANGED <<pkgs, deps, conf, ports, row, op, before, ours, user>>

-----------------------------------------------------------------------------
\* history: before is what was installed when the record began, ours what the
\* controller has installed since and was not there before, user and userSvc the
\* file and the service as the operator, and nobody else, has left them.
Init ==
    /\ deps \in SUBSET Libs
    /\ pkgs \in {s \in SUBSET Packages : \A q \in s, p \in Packages : Needs(q, p) => p \in s}
    /\ svc \in {s \in SUBSET Service : "lldpd" \notin pkgs => s = {}}
    /\ conf = IF "lldpd" \in pkgs THEN PackageFile ELSE None
    /\ ports = Ports
    /\ row = None /\ op = Idle
    /\ before = {} /\ ours = {} /\ user = conf /\ userSvc = svc

Controller ==
    \/ BeginInstall \/ RecordPlan \/ InstallLLDP \/ InstallCut \/ InstallFailed
    \/ ReadBack \/ CompleteInstall
    \/ BeginConfigure \/ RecordConfig \/ ConfigureLLDP \/ ConfigureCut
    \/ ConfigureRefused \/ CompleteConfigure \/ VerifyFailed
    \/ BeginRemoval \/ RestoreLLDPConfig \/ RestoreFailed \/ ClearConfig
    \/ RemoveLLDP \/ RemoveCut \/ CompleteRemoval
    \/ MarkError \/ Abandon

Operator == \/ EditFile \/ EditPorts \/ Rewire \/ Publish
            \/ AddPackage \/ DropPackage \/ SetService

Next == Controller \/ Operator

Spec == Init /\ [][Next]_vars

-----------------------------------------------------------------------------
\* Types, and that a record has an applied file exactly when it has a baseline.
TypeOK ==
    /\ pkgs \subseteq Packages /\ deps \subseteq Libs
    /\ svc \subseteq Service /\ userSvc \subseteq Service
    /\ conf \in Files \cup {None} /\ user \in Files \cup {None}
    /\ conf = None <=> "lldpd" \notin pkgs
    /\ user = None <=> conf = None
    /\ ports \subseteq Ports
    /\ row \in Rows \cup {None}
    /\ row # None => (row.base = None <=> row.applied = None)
    /\ op \in [pc : PCs, own : SUBSET Packages, seen : Files \cup {None}, ports : SUBSET Ports]
    /\ op.pc # "idle" => row # None
    /\ before \subseteq Packages /\ ours \subseteq Packages

\* A router without a record is as the operator has it: no package the
\* controller installed, the file he wrote and the service as he left it, however
\* often an installation, a configuration or a removal was cut short and tried
\* again before the row was deleted.
NothingLeftBehind ==
    row = None =>
        /\ ours \cap pkgs = {}
        /\ conf = user
        /\ svc = userSvc

\* A request removes no package the controller did not install, whatever the
\* operator installed beside it and whatever the package manager would take
\* along (TestLLDPInterruptedInstallRemovalNeverClaimsUnrecordedPackages,
\* TestLLDPRemovalPlanCannotAutoPurgeUnrecordedPackages).
RemovesOnlyOurs == [][op.pc # "idle" => pkgs \ pkgs' \subseteq ours]_vars

\* The controller never loses an edit of the operator: outside the interface
\* list the file is his, and while the list is not his the record holds it.
EditsSurvive ==
    conf # None =>
        /\ conf.rest = user.rest
        /\ conf.ports # user.ports =>
              row # None /\ row.base # None /\ row.base.ports = user.ports
=============================================================================
