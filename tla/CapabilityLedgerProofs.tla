----------------------- MODULE CapabilityLedgerProofs -----------------------
(***************************************************************************)
(* CapabilityLedger for every router: any libraries, tools and ports.      *)
(* IndInv says what the record and the router have to do with each other   *)
(* while they disagree, which is most of the time.                         *)
(***************************************************************************)
EXTENDS CapabilityLedger, SiteModel, FiniteSetTheorems, WellFoundedInduction, TLAPS

\* The record describes the router as it was before it; a completed one names
\* everything the controller added, and no record names anything else.
RowInv ==
    /\ ours \cap (before \cup Tools) = {}
    /\ row # None =>
        /\ row.baseline = before
        /\ row.was = userSvc
        /\ "lldpd" \notin before => row.was = {}
        /\ row.added \cap (before \cup Tools) = {}
        /\ row.installedAt => ours \cap pkgs \subseteq row.added
        /\ pkgs \ before \subseteq ours \cup Tools

\* Without a record no package is the controller's, and the service is as the
\* operator left it.
NoRowInv ==
    row = None => /\ ours \cap pkgs = {}
                  /\ svc = userSvc /\ ("lldpd" \notin pkgs => svc = {})

\* The operator's list has none of the router's ports in it, and the applied file
\* is the recorded one with such ports for a list.
FileInv ==
    /\ EditsSurvive
    /\ conf # None => user.ports \subseteq OtherPorts /\ user.ports # {}
    /\ row # None /\ row.base # None =>
        /\ row.applied.rest = row.base.rest
        /\ row.applied.ports \subseteq Ports /\ row.applied.ports # {}

\* What a request in progress knows.
InstallInv ==
    op.pc \in {"record_plan", "install", "install_failed", "read_back", "complete"} =>
        /\ ~row.installedAt
        /\ op.own \cap (before \cup Tools) = {}
        /\ op.pc = "complete" => row.added = op.own \cap pkgs

Readable == \/ op.seen = row.base
            \/ /\ op.seen.rest = row.base.rest
               /\ op.seen.ports \subseteq Ports /\ op.seen.ports # {}

ConfigureInv ==
    /\ op.pc = "record_config" =>
         op.seen # None /\ op.ports # {} /\ (row.base # None => Readable)
    /\ op.pc = "configure" =>
         /\ op.seen # None /\ op.ports # {} /\ row.base # None /\ Readable
         /\ row.applied = Rewrite(op.seen, op.ports)

RemoveInv ==
    /\ op.pc \in {"restore", "clear", "remove", "readback_removal"} =>
         ours \cap pkgs \subseteq op.own /\ op.own \cap (before \cup Tools) = {}
    /\ op.pc = "restore" => row.base # None /\ op.seen = row.applied
    /\ op.pc = "clear" => conf # None /\ conf.ports = user.ports
    /\ op.pc \in {"remove", "readback_removal"} => row.base = None

OpInv == InstallInv /\ ConfigureInv /\ RemoveInv

IndInv == TypeOK /\ RowInv /\ NoRowInv /\ FileInv /\ OpInv

-----------------------------------------------------------------------------
\* The absent row and the absent file are neither a row nor a file.
LEMMA NoneApart == None \notin Rows /\ None \notin Files
  BY DEF None, Rows, Files

\* A first record is taken from the router before anything is done to it; a retry
\* keeps the one that was.
LEMMA BeginInstallKeeps ==
    ASSUME IndInv, BeginInstall
    PROVE  IndInv'
<1> USE CapabilityAssumption, NoneApart DEF IndInv, BeginInstall,
        BeginCapabilityInstall, InstallAllowed, UnknownAtRetry, Known, Base, Owned,
        Missing
<1>1. row' \in Rows /\ row' # None /\ (row'.base = None <=> row'.applied = None)
  <2>1. CASE row = None
    <3>1. row' = [state |-> "installing", installedAt |-> FALSE, baseline |-> pkgs,
                  added |-> {}, was |-> svc, base |-> None, applied |-> None]
      BY <2>1
    <3>2. pkgs \in SUBSET Packages /\ svc \in SUBSET Service
      BY DEF TypeOK
    <3> HIDE DEF IndInv, BeginInstall, BeginCapabilityInstall
    <3>3. row' \in Rows
      BY <3>1, <3>2 DEF Rows, States
    <3>4. row'.base = None /\ row'.applied = None
      BY <3>1
    <3> QED  BY <3>3, <3>4
  <2>2. CASE row # None
    <3>1. row' = [row EXCEPT !.state = "installing"]
      BY <2>2
    <3> QED  BY <2>2, <3>1 DEF TypeOK, Rows, States
  <2> QED  BY <2>1, <2>2
<1>2. TypeOK'
  <2>1. Owned \subseteq Packages
    BY DEF TypeOK, Packages, Rows
  <2>2. op' \in [pc : PCs, own : SUBSET Packages, seen : Files \cup {None}, ports : SUBSET Ports]
    BY <2>1 DEF TypeOK, PCs, Idle
  <2> QED  BY <1>1, <2>2 DEF TypeOK, router
<1>3. RowInv'
  BY <1>1 DEF router, RowInv, NoRowInv
<1>4. NoRowInv'
  BY <1>1 DEF NoRowInv
<1>5. FileInv'
  BY <1>1 DEF FileInv, EditsSurvive, router
<1>6. OpInv'
  BY <1>1 DEF TypeOK, RowInv, OpInv, InstallInv, ConfigureInv, RemoveInv
<1> QED  BY <1>2, <1>3, <1>4, <1>5, <1>6

\* The plan names nothing that was there before.
LEMMA RecordPlanKeeps ==
    ASSUME IndInv, RecordPlan
    PROVE  IndInv'
<1> USE CapabilityAssumption, NoneApart DEF IndInv, RecordPlan,
        UpdateCapabilityAddedPackages
<1>1. TypeOK'
  BY DEF TypeOK, Rows, PCs, router, history
<1>2. RowInv'
  BY DEF TypeOK, router, history, RowInv, OpInv, InstallInv
<1>3. NoRowInv'
  BY DEF TypeOK, NoRowInv, Rows
<1>4. FileInv'
  BY DEF TypeOK, FileInv, EditsSurvive, router, history, Rows
<1>5. OpInv'
  BY DEF OpInv, InstallInv, ConfigureInv, RemoveInv, history
<1> QED  BY <1>1, <1>2, <1>3, <1>4, <1>5

\* What is installed was not there before, or is the controller's own.
LEMMA InstallLLDPKeeps ==
    ASSUME IndInv, InstallLLDP
    PROVE  IndInv'
<1> USE CapabilityAssumption, NoneApart DEF IndInv, InstallLLDP, Installed, Missing,
        PackageFile
<1>1. TypeOK'
  BY DEF TypeOK, Files, PCs, Packages
<1>2. RowInv'
  BY DEF TypeOK, RowInv, OpInv, InstallInv
<1>3. NoRowInv'
  BY DEF TypeOK, NoRowInv
<1>4. FileInv'
  BY DEF FileInv, EditsSurvive
<1>5. OpInv'
  BY DEF OpInv, InstallInv, ConfigureInv, RemoveInv
<1> QED  BY <1>1, <1>2, <1>3, <1>4, <1>5

\* So is any part of it.
LEMMA InstallCutKeeps ==
    ASSUME IndInv, InstallCut
    PROVE  IndInv'
<1> USE CapabilityAssumption, NoneApart DEF IndInv, InstallCut, Installed, Missing,
        PackageFile
<1>1. TypeOK'
  BY DEF TypeOK, Files, PCs, Packages
<1>2. RowInv'
  BY DEF TypeOK, RowInv, OpInv, InstallInv
<1>3. NoRowInv'
  BY DEF TypeOK, NoRowInv
<1>4. FileInv'
  BY DEF FileInv, EditsSurvive
<1>5. OpInv'
  BY DEF OpInv, InstallInv, ConfigureInv, RemoveInv
<1> QED  BY <1>1, <1>2, <1>3, <1>4, <1>5

\* The record of a failed installation names the plan or what is left of it.
LEMMA InstallFailedKeeps ==
    ASSUME IndInv, InstallFailed
    PROVE  IndInv'
<1> USE CapabilityAssumption, NoneApart DEF IndInv, InstallFailed
<1>1. PICK added \in {row.added, op.own \cap pkgs} : row' = [row EXCEPT !.added = added]
  BY DEF TypeOK, Rows, UpdateCapabilityAddedPackages
<1>2. row \in Rows /\ row # None /\ added \in SUBSET Packages
  BY <1>1 DEF TypeOK, Rows
<1>3. row' \in Rows /\ row' # None
  <2> HIDE DEF IndInv, InstallFailed
  <2> QED  BY <1>1, <1>2 DEF Rows, States
<1>4. /\ row'.added = added
      /\ row'.baseline = row.baseline /\ row'.was = row.was
      /\ row'.base = row.base /\ row'.applied = row.applied
      /\ row'.installedAt = row.installedAt
  <2> HIDE DEF IndInv, InstallFailed
  <2> QED  BY <1>1, <1>2 DEF Rows
<1>5. added \cap (before \cup Tools) = {} /\ ~row.installedAt
  BY <1>2 DEF RowInv, OpInv, InstallInv
<1> HIDE DEF InstallFailed
<1>6. /\ op.pc = "install_failed" /\ op' = [op EXCEPT !.pc = "failed"]
      /\ UNCHANGED <<router, history>>
  BY DEF InstallFailed
<1>7. TypeOK'
  BY <1>2, <1>3, <1>4, <1>6 DEF TypeOK, PCs, router, history
<1>8. RowInv'
  BY <1>2, <1>4, <1>5, <1>6 DEF RowInv, router, history
<1>9. NoRowInv'
  BY <1>3 DEF NoRowInv
<1>10. FileInv'
  BY <1>2, <1>3, <1>4, <1>6 DEF FileInv, EditsSurvive, router, history
<1>11. OpInv'
  BY <1>6 DEF TypeOK, OpInv, InstallInv, ConfigureInv, RemoveInv
<1> QED  BY <1>7, <1>8, <1>9, <1>10, <1>11

\* The read-back leaves what was planned and is there.
LEMMA ReadBackKeeps ==
    ASSUME IndInv, ReadBack
    PROVE  IndInv'
<1> USE CapabilityAssumption, NoneApart DEF IndInv, ReadBack,
        UpdateCapabilityAddedPackages
<1>1. TypeOK'
  BY DEF TypeOK, Rows, PCs, router, history
<1>2. RowInv'
  BY DEF TypeOK, router, history, RowInv, OpInv, InstallInv
<1>3. NoRowInv'
  BY DEF TypeOK, NoRowInv, Rows
<1>4. FileInv'
  BY DEF TypeOK, FileInv, EditsSurvive, router, history, Rows
<1>5. OpInv'
  BY DEF OpInv, InstallInv, ConfigureInv, RemoveInv, router, history
<1> QED  BY <1>1, <1>2, <1>3, <1>4, <1>5

\* A completed record names all the controller added: this is what the check for
\* unexpected packages is for.
LEMMA CompleteInstallKeeps ==
    ASSUME IndInv, CompleteInstall
    PROVE  IndInv'
<1> USE CapabilityAssumption, NoneApart DEF IndInv, CompleteInstall,
        CompleteCapabilityInstall, MarkCapabilityInstallError, InstallVerified
<1>1. row' \in Rows /\ row' # None /\ (row'.base = None <=> row'.applied = None)
  <2>1. row \in Rows /\ (row.base = None <=> row.applied = None)
    BY DEF TypeOK
  <2>2. CASE InstallVerified
    <3>1. row' = [row EXCEPT !.state = "installed", !.installedAt = TRUE]
      BY <2>2
    <3> HIDE DEF IndInv, CompleteInstall, InstallVerified
    <3> QED  BY <2>1, <3>1 DEF Rows, States
  <2>3. CASE ~InstallVerified
    <3>1. row' = [row EXCEPT !.state = "error"]
      BY <2>3
    <3> QED  BY <2>1, <3>1 DEF TypeOK, Rows, States
  <2> QED  BY <2>2, <2>3
<1>2. TypeOK'
  BY <1>1 DEF TypeOK, PCs, Idle, router, history
<1>3. RowInv'
  <2>1. row \in Rows /\ row'.baseline = row.baseline /\ row'.was = row.was /\ row'.added = row.added
    BY DEF TypeOK, Rows
  <2>2. row'.installedAt => (pkgs \ before) \ op.own = {} \/ row.installedAt
    BY DEF TypeOK, Rows, RowInv
  <2>3. ours \cap (before \cup Tools) = {} /\ row.added = op.own \cap pkgs /\ ~row.installedAt
    BY DEF RowInv, OpInv, InstallInv
  <2> QED  BY <1>1, <2>1, <2>2, <2>3 DEF TypeOK, RowInv, router, history
<1>4. NoRowInv'
  BY <1>1 DEF NoRowInv
<1>5. FileInv'
  <2>1. row \in Rows /\ row'.base = row.base /\ row'.applied = row.applied
    BY DEF TypeOK, Rows
  <2> QED  BY <1>1, <2>1 DEF TypeOK, FileInv, EditsSurvive, router, history
<1>6. OpInv'
  BY <1>1 DEF OpInv, InstallInv, ConfigureInv, RemoveInv, Idle
<1> QED  BY <1>2, <1>3, <1>4, <1>5, <1>6

\* The file that is read is the operator's or one the controller applied.
LEMMA BeginConfigureKeeps ==
    ASSUME IndInv, BeginConfigure
    PROVE  IndInv'
<1> USE CapabilityAssumption, NoneApart DEF IndInv, BeginConfigure, Recognised
<1>1. TypeOK'
  BY DEF TypeOK, PCs, Idle, router, history
<1>2. RowInv'
  BY DEF RowInv, router, history
<1>3. NoRowInv'
  BY DEF NoRowInv
<1>4. FileInv'
  BY DEF FileInv, EditsSurvive, router, history
<1>5. OpInv'
  BY DEF FileInv, OpInv, InstallInv, ConfigureInv, Readable, RemoveInv
<1> QED  BY <1>1, <1>2, <1>3, <1>4, <1>5

\* The first configuration records the file it has read.
LEMMA RecordConfigKeeps ==
    ASSUME IndInv, RecordConfig
    PROVE  IndInv'
<1> USE CapabilityAssumption, NoneApart DEF IndInv, RecordConfig,
        UpdateCapabilityServices, Rewrite
<1>1. row' \in Rows /\ row' # None /\ (row'.base = None <=> row'.applied = None)
  <2>1. row \in Rows /\ op.seen \in Files /\ op.ports \subseteq Ports
    BY DEF TypeOK, OpInv, ConfigureInv
  <2>2. [op.seen EXCEPT !.ports = op.ports] \in Files
    BY <2>1 DEF Files
  <2>3. (IF row.base = None THEN op.seen ELSE row.base) \in Files
    BY <2>1 DEF Rows
  <2> QED  BY <2>1, <2>2, <2>3 DEF Rows
<1>2. TypeOK'
  BY <1>1 DEF TypeOK, PCs, router, history
<1>3. RowInv'
  BY <1>1 DEF TypeOK, RowInv, router, history
<1>4. NoRowInv'
  BY <1>1 DEF NoRowInv
<1>5. FileInv'
  BY <1>1 DEF TypeOK, Files, router, history, FileInv, EditsSurvive, OpInv,
     ConfigureInv, Readable
<1>6. OpInv'
  BY <1>1 DEF OpInv, InstallInv, ConfigureInv, Readable, RemoveInv
<1> QED  BY <1>2, <1>3, <1>4, <1>5, <1>6

\* The file is written over what was read, so the operator's list is the recorded
\* one.
LEMMA ConfigureLLDPKeeps ==
    ASSUME IndInv, ConfigureLLDP
    PROVE  IndInv'
<1> USE CapabilityAssumption, NoneApart DEF IndInv, ConfigureLLDP, Rewrite
<1>1. TypeOK'
  BY DEF TypeOK, Files, PCs, Service, history, OpInv, ConfigureInv
<1>2. RowInv'
  BY DEF RowInv, history
<1>3. NoRowInv'
  BY DEF TypeOK, NoRowInv
<1>4. FileInv'
  BY DEF TypeOK, history, FileInv, EditsSurvive, OpInv, ConfigureInv, Readable
<1>5. OpInv'
  BY DEF OpInv, InstallInv, ConfigureInv, RemoveInv
<1> QED  BY <1>1, <1>2, <1>3, <1>4, <1>5

\* A part of the command leaves a list that is not his, and the record of his.
LEMMA ConfigureCutKeeps ==
    ASSUME IndInv, ConfigureCut
    PROVE  IndInv'
<1> USE CapabilityAssumption, NoneApart DEF IndInv, ConfigureCut, Rewrite
<1>1. TypeOK'
  BY DEF TypeOK, Files, PCs, Service, history, OpInv, ConfigureInv
<1>2. RowInv'
  BY DEF RowInv, history
<1>3. NoRowInv'
  BY DEF TypeOK, NoRowInv
<1>4. FileInv'
  BY DEF TypeOK, history, FileInv, EditsSurvive, OpInv, ConfigureInv, Readable
<1>5. OpInv'
  BY DEF OpInv, InstallInv, ConfigureInv, RemoveInv
<1> QED  BY <1>1, <1>2, <1>3, <1>4, <1>5

\* A refused command leaves everything.
LEMMA ConfigureRefusedKeeps ==
    ASSUME IndInv, ConfigureRefused
    PROVE  IndInv'
<1> USE CapabilityAssumption, NoneApart DEF IndInv, ConfigureRefused
<1>1. TypeOK'
  BY DEF TypeOK, PCs, router, history
<1>2. RowInv'
  BY DEF RowInv, router, history
<1>3. NoRowInv'
  BY DEF NoRowInv, router, history
<1>4. FileInv'
  BY DEF FileInv, EditsSurvive, router, history
<1>5. OpInv'
  BY DEF OpInv, InstallInv, ConfigureInv, RemoveInv
<1> QED  BY <1>1, <1>2, <1>3, <1>4, <1>5

\* The row is no longer in error.
LEMMA CompleteConfigureKeeps ==
    ASSUME IndInv, CompleteConfigure
    PROVE  IndInv'
<1> USE CapabilityAssumption, NoneApart DEF IndInv, CompleteConfigure,
        CompleteCapabilityConfiguration
<1>1. TypeOK'
  BY DEF TypeOK, Rows, States, PCs, Idle, router, history
<1>2. RowInv'
  BY DEF TypeOK, RowInv, router, history, Rows
<1>3. NoRowInv'
  BY DEF TypeOK, NoRowInv, Rows, States
<1>4. FileInv'
  BY DEF TypeOK, FileInv, EditsSurvive, router, history, Rows, States
<1>5. OpInv'
  BY DEF OpInv, InstallInv, ConfigureInv, RemoveInv, Idle
<1> QED  BY <1>1, <1>2, <1>3, <1>4, <1>5

\* Nor does a failed read-back change anything.
LEMMA VerifyFailedKeeps ==
    ASSUME IndInv, VerifyFailed
    PROVE  IndInv'
<1> USE CapabilityAssumption, NoneApart DEF IndInv, VerifyFailed
<1>1. TypeOK'
  BY DEF TypeOK, PCs, router, history
<1>2. RowInv'
  BY DEF RowInv, router, history
<1>3. NoRowInv'
  BY DEF NoRowInv, router, history
<1>4. FileInv'
  BY DEF FileInv, EditsSurvive, router, history
<1>5. OpInv'
  BY DEF OpInv, InstallInv, ConfigureInv, RemoveInv
<1> QED  BY <1>1, <1>2, <1>3, <1>4, <1>5

\* What will be removed is all the controller added and nothing else.
LEMMA BeginRemovalKeeps ==
    ASSUME IndInv, BeginRemoval
    PROVE  IndInv'
<1> USE CapabilityAssumption, NoneApart DEF IndInv, BeginRemoval,
        BeginCapabilityRemoval, RemovalAllowed, RemovalPackages, Claimed,
        UnknownAtRemoval, Recognised
<1>1. row' \in Rows /\ row' # None /\ (row'.base = None <=> row'.applied = None)
  BY DEF TypeOK, Rows, States
<1>2. TypeOK'
  BY <1>1 DEF TypeOK, PCs, Idle, router, history
<1>3. RowInv'
  BY <1>1 DEF RowInv, router, history
<1>4. NoRowInv'
  BY <1>1 DEF NoRowInv
<1>5. FileInv'
  BY <1>1 DEF FileInv, EditsSurvive, router, history
<1>6. OpInv'
  BY <1>1 DEF router, history, RowInv, FileInv, EditsSurvive, OpInv, InstallInv,
     ConfigureInv, RemoveInv
<1> QED  BY <1>2, <1>3, <1>4, <1>5, <1>6

\* The file that is restored is the operator's: it differs from the applied one in
\* the list only.
LEMMA RestoreLLDPConfigKeeps ==
    ASSUME IndInv, RestoreLLDPConfig
    PROVE  IndInv'
<1> USE CapabilityAssumption, NoneApart DEF IndInv, RestoreLLDPConfig
<1>1. TypeOK'
  BY DEF TypeOK, Rows, PCs, Service, history, OpInv, RemoveInv
<1>2. RowInv'
  BY DEF RowInv, history
<1>3. NoRowInv'
  BY DEF TypeOK, NoRowInv
<1>4. FileInv'
  BY DEF TypeOK, history, FileInv, EditsSurvive, OpInv, RemoveInv
<1>5. OpInv'
  BY DEF TypeOK, history, FileInv, EditsSurvive, OpInv, InstallInv, ConfigureInv,
     RemoveInv
<1> QED  BY <1>1, <1>2, <1>3, <1>4, <1>5

\* So it is if the answer is lost.
LEMMA RestoreFailedKeeps ==
    ASSUME IndInv, RestoreFailed
    PROVE  IndInv'
<1> USE CapabilityAssumption, NoneApart DEF IndInv, RestoreFailed
<1>1. TypeOK'
  BY DEF TypeOK, Rows, PCs, Service, history, OpInv, RemoveInv
<1>2. RowInv'
  BY DEF RowInv, history
<1>3. NoRowInv'
  BY DEF TypeOK, NoRowInv
<1>4. FileInv'
  BY DEF TypeOK, history, FileInv, EditsSurvive, OpInv, RemoveInv
<1>5. OpInv'
  BY DEF OpInv, InstallInv, ConfigureInv, RemoveInv
<1> QED  BY <1>1, <1>2, <1>3, <1>4, <1>5

\* The record of the file goes when the file is the operator's again.
LEMMA ClearConfigKeeps ==
    ASSUME IndInv, ClearConfig
    PROVE  IndInv'
<1> USE CapabilityAssumption, NoneApart DEF IndInv, ClearConfig,
        UpdateCapabilityServices
<1>1. row' \in Rows /\ row' # None /\ (row'.base = None <=> row'.applied = None)
  <2>1. row \in Rows /\ row' = [row EXCEPT !.base = None, !.applied = None]
    BY DEF TypeOK
  <2> QED  BY <2>1 DEF Rows
<1>2. TypeOK'
  BY <1>1 DEF TypeOK, PCs, router, history
<1>3. RowInv'
  BY <1>1 DEF TypeOK, RowInv, router, history
<1>4. NoRowInv'
  BY <1>1 DEF NoRowInv
<1>5. FileInv'
  BY <1>1 DEF router, history, FileInv, EditsSurvive, OpInv, RemoveInv
<1>6. OpInv'
  BY <1>1 DEF OpInv, InstallInv, ConfigureInv, RemoveInv, router, history
<1> QED  BY <1>2, <1>3, <1>4, <1>5, <1>6

\* A removal takes the controller's packages, or sets the service back.
LEMMA RemoveLLDPKeeps ==
    ASSUME IndInv, RemoveLLDP
    PROVE  IndInv'
<1> USE CapabilityAssumption, NoneApart DEF IndInv, RemoveLLDP, Removed, Purge
<1>1. TypeOK'
  BY DEF TypeOK, Rows, PCs
<1>2. RowInv'
  BY DEF RowInv
<1>3. NoRowInv'
  BY DEF TypeOK, NoRowInv
<1>4. FileInv'
  BY DEF FileInv, EditsSurvive
<1>5. OpInv'
  BY DEF OpInv, InstallInv, ConfigureInv, RemoveInv
<1> QED  BY <1>1, <1>2, <1>3, <1>4, <1>5

\* Or a part of that.
LEMMA RemoveCutKeeps ==
    ASSUME IndInv, RemoveCut
    PROVE  IndInv'
<1> USE CapabilityAssumption, NoneApart DEF IndInv, RemoveCut, Removed, Purge
<1>1. TypeOK'
  BY DEF TypeOK, Rows, PCs
<1>2. RowInv'
  BY DEF RowInv
<1>3. NoRowInv'
  BY DEF TypeOK, NoRowInv
<1>4. FileInv'
  BY DEF FileInv, EditsSurvive
<1>5. OpInv'
  BY DEF OpInv, InstallInv, ConfigureInv, RemoveInv
<1> QED  BY <1>1, <1>2, <1>3, <1>4, <1>5

\* The record goes when the read-back found the router as it was.
LEMMA CompleteRemovalKeeps ==
    ASSUME IndInv, CompleteRemoval
    PROVE  IndInv'
<1> USE CapabilityAssumption, NoneApart DEF IndInv, CompleteRemoval,
        CompleteCapabilityRemoval, RemovalVerified
<1>1. TypeOK'
  BY DEF TypeOK, router, PCs, Idle
<1>2. RowInv'
  BY DEF RowInv, router
<1>3. NoRowInv'
  <2>1. CASE RemovalVerified
    <3>1. ours' \cap pkgs' = {}
      BY <2>1 DEF OpInv, RemoveInv, router
    <3>2. svc = userSvc /\ ("lldpd" \notin pkgs => svc = {})
      BY <2>1 DEF TypeOK, RowInv
    <3> QED  BY <3>1, <3>2 DEF NoRowInv, router
  <2>2. CASE ~RemovalVerified
    BY <2>2 DEF TypeOK, NoRowInv, router
  <2> QED  BY <2>1, <2>2
<1>4. FileInv'
  BY DEF router, FileInv, EditsSurvive, OpInv, RemoveInv
<1>5. OpInv'
  BY DEF TypeOK, OpInv, InstallInv, ConfigureInv, RemoveInv, Idle
<1> QED  BY <1>1, <1>2, <1>3, <1>4, <1>5

\* A row in error keeps its record.
LEMMA MarkErrorKeeps ==
    ASSUME IndInv, MarkError
    PROVE  IndInv'
<1> USE CapabilityAssumption, NoneApart DEF IndInv, MarkError,
        MarkCapabilityInstallError
<1>1. TypeOK'
  BY DEF TypeOK, Rows, States, PCs, Idle, router, history
<1>2. RowInv'
  BY DEF TypeOK, RowInv, router, history
<1>3. NoRowInv'
  BY DEF TypeOK, NoRowInv, Rows, States
<1>4. FileInv'
  BY DEF TypeOK, FileInv, EditsSurvive, router, history, Rows, States
<1>5. OpInv'
  BY DEF OpInv, InstallInv, ConfigureInv, RemoveInv, Idle
<1> QED  BY <1>1, <1>2, <1>3, <1>4, <1>5

\* An abandoned request leaves everything as it is.
LEMMA AbandonKeeps ==
    ASSUME IndInv, Abandon
    PROVE  IndInv'
<1> USE CapabilityAssumption, NoneApart DEF IndInv, Abandon
<1>1. TypeOK'
  BY DEF TypeOK, PCs, Idle, router, history
<1>2. RowInv'
  BY DEF RowInv, router, history
<1>3. NoRowInv'
  BY DEF NoRowInv, router, history
<1>4. FileInv'
  BY DEF FileInv, EditsSurvive, router, history
<1>5. OpInv'
  BY DEF OpInv, InstallInv, ConfigureInv, RemoveInv, Idle
<1> QED  BY <1>1, <1>2, <1>3, <1>4, <1>5

\* The operator edits the file outside its list.
LEMMA EditFileKeeps ==
    ASSUME IndInv, EditFile
    PROVE  IndInv'
<1> USE CapabilityAssumption, NoneApart DEF IndInv, EditFile
<1>1. TypeOK'
  BY DEF TypeOK, Files
<1>2. RowInv'
  BY DEF RowInv
<1>3. NoRowInv'
  BY DEF NoRowInv
<1>4. FileInv'
  BY DEF FileInv, EditsSurvive
<1>5. OpInv'
  BY DEF TypeOK, OpInv, InstallInv, ConfigureInv, Readable, RemoveInv, Files
<1> QED  BY <1>1, <1>2, <1>3, <1>4, <1>5

\* He edits the list.
LEMMA EditPortsKeeps ==
    ASSUME IndInv, EditPorts
    PROVE  IndInv'
<1> USE CapabilityAssumption, NoneApart DEF IndInv, EditPorts, Rewrite
<1>1. TypeOK'
  BY DEF TypeOK, Files
<1>2. RowInv'
  BY DEF RowInv
<1>3. NoRowInv'
  BY DEF NoRowInv
<1>4. FileInv'
  BY DEF FileInv, EditsSurvive
<1>5. OpInv'
  BY DEF TypeOK, OpInv, InstallInv, ConfigureInv, Readable, RemoveInv, Files
<1> QED  BY <1>1, <1>2, <1>3, <1>4, <1>5

\* He changes the bridge.
LEMMA RewireKeeps ==
    ASSUME IndInv, Rewire
    PROVE  IndInv'
<1> USE CapabilityAssumption, NoneApart DEF IndInv, Rewire
<1>1. TypeOK'
  BY DEF TypeOK, history
<1>2. RowInv'
  BY DEF RowInv, history
<1>3. NoRowInv'
  BY DEF NoRowInv, history
<1>4. FileInv'
  BY DEF FileInv, EditsSurvive, history
<1>5. OpInv'
  BY DEF OpInv, InstallInv, ConfigureInv, Readable, RemoveInv, history
<1> QED  BY <1>1, <1>2, <1>3, <1>4, <1>5

\* The feed changes.
LEMMA PublishKeeps ==
    ASSUME IndInv, Publish
    PROVE  IndInv'
<1> USE CapabilityAssumption, NoneApart DEF IndInv, Publish
<1>1. TypeOK'
  BY DEF TypeOK, history
<1>2. RowInv'
  BY DEF RowInv, history
<1>3. NoRowInv'
  BY DEF NoRowInv, history
<1>4. FileInv'
  BY DEF FileInv, EditsSurvive, history
<1>5. OpInv'
  BY DEF OpInv, InstallInv, ConfigureInv, Readable, RemoveInv, history
<1> QED  BY <1>1, <1>2, <1>3, <1>4, <1>5

\* He installs a package.
LEMMA AddPackageKeeps ==
    ASSUME IndInv, AddPackage
    PROVE  IndInv'
<1>1. PICK p \in Packages \ pkgs :
        LET got == {p} \cup (IF p = "lldpd" THEN deps
                             ELSE IF p \in Tools THEN Requires[p] ELSE {})
            s == IF p = "lldpd" THEN Service ELSE svc
        IN  /\ row # None => got \ pkgs \subseteq Tools \cup before
            /\ pkgs' = pkgs \cup got
            /\ svc' = s
            /\ conf' = IF p = "lldpd" THEN PackageFile ELSE conf
            /\ user' = IF p = "lldpd" THEN PackageFile ELSE user
            /\ userSvc' = IF row = None THEN s ELSE userSvc
            /\ ours' = IF row = None THEN ours \ got ELSE ours
  BY DEF AddPackage
<1>2. op.pc = "idle" /\ UNCHANGED <<deps, ports, row, op, before>>
  BY DEF AddPackage
<1> DEFINE got == {p} \cup (IF p = "lldpd" THEN deps
                            ELSE IF p \in Tools THEN Requires[p] ELSE {})
<1>3. /\ row # None => got \ pkgs \subseteq Tools \cup before
      /\ pkgs' = pkgs \cup got
      /\ ours' = IF row = None THEN ours \ got ELSE ours
  BY <1>1
<1>4. p \in got /\ got \subseteq Packages /\ ("lldpd" \in got <=> p = "lldpd")
  BY <1>1, CapabilityAssumption DEF IndInv, TypeOK, Packages
<1> HIDE DEF got
<1>5. TypeOK'
  <2>1. CASE p = "lldpd"
    <3>1. PackageFile \in Files
      BY CapabilityAssumption DEF PackageFile, Files
    <3>2. svc' \subseteq Service /\ userSvc' \subseteq Service
      BY <1>1, <2>1 DEF IndInv, TypeOK
    <3>3. conf' = PackageFile /\ user' = PackageFile
      BY <1>1, <2>1
    <3> QED  BY <1>2, <1>3, <1>4, <2>1, <3>1, <3>2, <3>3, NoneApart DEF IndInv, TypeOK
  <2>2. CASE p # "lldpd"
    BY <1>1, <1>2, <1>3, <1>4, <2>2 DEF IndInv, TypeOK
  <2> QED  BY <2>1, <2>2
<1>6. RowInv'
  BY <1>1, <1>2, <1>3 DEF IndInv, RowInv
<1>7. NoRowInv'
  <2>1. row = None => ours' \cap pkgs' = {}
    BY <1>3 DEF IndInv, NoRowInv
  <2> QED  BY <1>1, <1>2, <1>3, <1>4, <2>1 DEF IndInv, NoRowInv
<1>8. FileInv'
  BY <1>1, <1>2, CapabilityAssumption, NoneApart
     DEF IndInv, TypeOK, FileInv, EditsSurvive, PackageFile
<1>9. OpInv'
  BY <1>2 DEF OpInv, InstallInv, ConfigureInv, RemoveInv
<1> QED  BY <1>5, <1>6, <1>7, <1>8, <1>9 DEF IndInv

\* He removes one.
LEMMA DropPackageKeeps ==
    ASSUME IndInv, DropPackage
    PROVE  IndInv'
<1>1. PICK p \in pkgs :
        /\ pkgs' = pkgs \ {p}
        /\ svc' = IF p = "lldpd" THEN {} ELSE svc
        /\ conf' = IF p = "lldpd" THEN None ELSE conf
        /\ user' = IF p = "lldpd" THEN None ELSE user
        /\ userSvc' = IF p = "lldpd" /\ row = None THEN {} ELSE userSvc
  BY DEF DropPackage
<1>2. op.pc = "idle" /\ UNCHANGED <<deps, ports, row, op, before, ours>>
  BY DEF DropPackage
<1>3. TypeOK'
  <2>1. CASE p = "lldpd"
    BY <1>1, <1>2, <2>1 DEF IndInv, TypeOK
  <2>2. CASE p # "lldpd"
    BY <1>1, <1>2, <2>2 DEF IndInv, TypeOK
  <2> QED  BY <2>1, <2>2
<1>4. RowInv'
  <2>1. row # None /\ p = "lldpd" => userSvc' = userSvc
    BY <1>1
  <2> QED  BY <1>1, <1>2, <2>1 DEF IndInv, RowInv
<1>5. NoRowInv'
  <2>1. ours \cap pkgs' \subseteq ours \cap pkgs
    BY <1>1
  <2>2. CASE p = "lldpd"
    BY <1>1, <1>2, <2>1, <2>2 DEF IndInv, NoRowInv
  <2>3. CASE p # "lldpd"
    BY <1>1, <1>2, <2>1, <2>3 DEF IndInv, NoRowInv
  <2> QED  BY <2>2, <2>3
<1>6. FileInv'
  <2>1. conf' # None => conf' = conf /\ user' = user
    BY <1>1
  <2> QED  BY <1>2, <2>1 DEF IndInv, FileInv, EditsSurvive
<1>7. OpInv'
  BY <1>2 DEF OpInv, InstallInv, ConfigureInv, RemoveInv
<1> QED  BY <1>3, <1>4, <1>5, <1>6, <1>7 DEF IndInv

\* He starts or stops the service.
LEMMA SetServiceKeeps ==
    ASSUME IndInv, SetService
    PROVE  IndInv'
<1> USE CapabilityAssumption, NoneApart DEF IndInv, SetService
<1>1. TypeOK'
  BY DEF TypeOK
<1>2. RowInv'
  BY DEF RowInv
<1>3. NoRowInv'
  BY DEF NoRowInv
<1>4. FileInv'
  BY DEF FileInv, EditsSurvive
<1>5. OpInv'
  BY DEF OpInv, InstallInv, ConfigureInv, RemoveInv
<1> QED  BY <1>1, <1>2, <1>3, <1>4, <1>5

-----------------------------------------------------------------------------
\* Nothing has been recorded or installed in an initial state.
LEMMA InitIndInv == Init => IndInv
<1> SUFFICES ASSUME Init PROVE IndInv
  OBVIOUS
<1>1. TypeOK
  <2>1. PackageFile \in Files
    BY CapabilityAssumption DEF PackageFile, Files
  <2>2. op \in [pc : PCs, own : SUBSET Packages, seen : Files \cup {None}, ports : SUBSET Ports]
    BY DEF Init, Idle, PCs
  <2> QED  BY <2>1, <2>2, NoneApart DEF Init, TypeOK, Idle
<1>2. RowInv /\ NoRowInv
  BY DEF Init, RowInv, NoRowInv
<1>3. FileInv
  BY CapabilityAssumption, NoneApart DEF Init, FileInv, EditsSurvive, PackageFile
<1>4. OpInv
  BY DEF Init, Idle, OpInv, InstallInv, ConfigureInv, RemoveInv
<1> QED  BY <1>1, <1>2, <1>3, <1>4 DEF IndInv

\* No step of the controller or of the operator breaks it.
LEMMA StepIndInv == IndInv /\ [Next]_vars => IndInv'
<1> SUFFICES ASSUME IndInv, [Next]_vars PROVE IndInv'
  OBVIOUS
<1>1. CASE Controller
  BY <1>1, BeginInstallKeeps, RecordPlanKeeps, InstallLLDPKeeps, InstallCutKeeps,
     InstallFailedKeeps, ReadBackKeeps, CompleteInstallKeeps, BeginConfigureKeeps,
     RecordConfigKeeps, ConfigureLLDPKeeps, ConfigureCutKeeps, ConfigureRefusedKeeps,
     CompleteConfigureKeeps, VerifyFailedKeeps, BeginRemovalKeeps,
     RestoreLLDPConfigKeeps, RestoreFailedKeeps, ClearConfigKeeps, RemoveLLDPKeeps,
     RemoveCutKeeps, CompleteRemovalKeeps, MarkErrorKeeps, AbandonKeeps
     DEF Controller
<1>2. CASE Operator
  BY <1>2, EditFileKeeps, EditPortsKeeps, RewireKeeps, PublishKeeps, AddPackageKeeps,
     DropPackageKeeps, SetServiceKeeps
     DEF Operator
<1>3. CASE UNCHANGED vars
  <2>1. TypeOK'
    BY <1>3 DEF IndInv, TypeOK, vars
  <2>2. RowInv' /\ NoRowInv'
    BY <1>3 DEF IndInv, RowInv, NoRowInv, vars
  <2>3. FileInv'
    BY <1>3 DEF IndInv, FileInv, EditsSurvive, vars
  <2>4. OpInv'
    BY <1>3 DEF IndInv, OpInv, InstallInv, ConfigureInv, Readable, Rewrite, RemoveInv, vars
  <2> QED  BY <2>1, <2>2, <2>3, <2>4 DEF IndInv
<1> QED  BY <1>1, <1>2, <1>3 DEF Next

\* IndInv holds in every reachable state.
LEMMA IndInvAlways == Spec => []IndInv
  BY InitIndInv, StepIndInv, PTL DEF Spec

\* The record has an applied file exactly when it has a baseline, a request in
\* progress has a record, and every value keeps its type.
THEOREM CapabilityTypeCorrect == Spec => []TypeOK
<1>1. IndInv => TypeOK
  BY DEF IndInv
<1> QED  BY <1>1, IndInvAlways, PTL

\* When the row is deleted the router is as the operator has it: the controller's
\* packages are gone, the file is his and the service is as he left it.
THEOREM CapabilityLeavesNothing == Spec => []NothingLeftBehind
<1>1. IndInv => NothingLeftBehind
  <2> SUFFICES ASSUME IndInv, row = None
               PROVE  ours \cap pkgs = {} /\ conf = user /\ svc = userSvc
    BY DEF NothingLeftBehind
  <2>1. CASE conf = None
    BY <2>1 DEF IndInv, TypeOK, NoRowInv
  <2>2. CASE conf # None
    <3>1. conf \in Files /\ user \in Files /\ conf.rest = user.rest /\ conf.ports = user.ports
      BY <2>2 DEF IndInv, TypeOK, FileInv, EditsSurvive
    <3>2. conf = user
      BY <3>1 DEF Files
    <3> QED  BY <3>2 DEF IndInv, NoRowInv
  <2> QED  BY <2>1, <2>2
<1> QED  BY <1>1, IndInvAlways, PTL

\* ConfigureLLDP, RestoreLLDPConfig and the commands that were cut short lose no
\* edit of the operator.
THEOREM CapabilityKeepsEdits == Spec => []EditsSurvive
<1>1. IndInv => EditsSurvive
  BY DEF IndInv, FileInv
<1> QED  BY <1>1, IndInvAlways, PTL

\* RemoveLLDP takes no package the controller did not install.
THEOREM CapabilityRemovesOurs == Spec => RemovesOnlyOurs
<1> DEFINE OnlyOurs == op.pc # "idle" => pkgs \ pkgs' \subseteq ours
<1>1. ASSUME IndInv, [Next]_vars PROVE [OnlyOurs]_vars
  <2>1. CASE op.pc = "remove" /\ (RemoveLLDP \/ RemoveCut)
    <3>1. op.own \cap (before \cup Tools) = {} /\ row # None
      BY <1>1, <2>1 DEF IndInv, TypeOK, OpInv, RemoveInv
    <3>2. row.baseline = before /\ pkgs \ before \subseteq ours \cup Tools
      BY <1>1, <3>1 DEF IndInv, RowInv
    <3>3. Purge(op.own) \cap pkgs \subseteq ours
      BY <3>1, <3>2, CapabilityAssumption DEF Purge
    <3>4. pkgs \ pkgs' \subseteq Purge(op.own)
      BY <2>1 DEF RemoveLLDP, RemoveCut, Removed
    <3> QED  BY <3>3, <3>4
  <2>2. CASE ~(RemoveLLDP \/ RemoveCut)
    <3>1. op.pc # "idle" => pkgs \subseteq pkgs'
      BY <1>1, <2>2 DEF Next, Controller, Operator, vars, router, BeginInstall,
         RecordPlan, InstallLLDP, InstallCut, Installed, InstallFailed, ReadBack,
         CompleteInstall, BeginConfigure, RecordConfig, ConfigureLLDP, ConfigureCut,
         ConfigureRefused, CompleteConfigure, VerifyFailed, BeginRemoval,
         RestoreLLDPConfig, RestoreFailed, ClearConfig, CompleteRemoval, MarkError,
         Abandon, EditFile, EditPorts, Rewire, Publish, AddPackage, DropPackage,
         SetService
    <3> QED  BY <3>1
  <2> QED  BY <2>1, <2>2 DEF RemoveLLDP, RemoveCut
<1> QED  BY <1>1, IndInvAlways, PTL DEF Spec, RemovesOnlyOurs

-----------------------------------------------------------------------------
(***************************************************************************)
(* SiteModel for any networks, rules, sets, groups, clients, WLANs and     *)
(* devices, from an empty site. SiteInv adds the shape of the rows to      *)
(* SiteIsWhole. Edits are each checked against the whole site; the clean-  *)
(* ups that are not (an aged observation, a forgotten client, an un-       *)
(* adoption) leave the part of it a policy rests on.                       *)
(***************************************************************************)

\* A stored network, and what a rule of clients holds.
NetRows == [vlan : Nat, zone : Zones, on : BOOLEAN, dhcp : {"on", "off"}, cidr : SUBSET Addresses]
ClientRows == [blocked : BOOLEAN, fixed : Addresses \cup {Absent}, kept : BOOLEAN]
FirewallFields == {"kind", "src", "dst", "act", "macs", "set", "on"}

SiteShape ==
    /\ site = [net |-> site.net, zone |-> site.zone, sets |-> site.sets,
               rule |-> site.rule, client |-> site.client]
    /\ IsFiniteSet(Ids(site.net))
    /\ \A n \in Ids(site.net) : site.net[n] \in NetRows
    /\ Ids(site.rule) \subseteq 1..MaxId
    /\ \A p \in Ids(site.rule) :
          /\ {"kind", "on"} \subseteq DOMAIN site.rule[p]
          /\ site.rule[p].on \in BOOLEAN
          /\ site.rule[p].kind \in {"firewall", "forward", "route"}
          /\ site.rule[p].kind = "firewall" => DOMAIN site.rule[p] = FirewallFields
    /\ \A m \in Ids(site.client) : site.client[m] \in ClientRows

SiteInv == SiteShape /\ SiteIsWhole

LEMMA FormSaved ==
    ASSUME NEW form \in RuleForms, NEW on \in BOOLEAN, NEW r, r = Put(form, "on", on)
    PROVE  /\ {"kind", "on"} \subseteq DOMAIN r
           /\ r.on = on
           /\ r.kind \in {"firewall", "forward", "route"}
           /\ r.kind = "firewall" => DOMAIN r = FirewallFields
<1> USE SiteAssumption
<1>1. CASE form \in FirewallForms
  BY <1>1 DEF FirewallForms, Put, FirewallFields
<1>2. CASE form \in ForwardForms
  BY <1>2 DEF ForwardForms, Put, FirewallFields
<1>3. CASE form \in RouteForms
  BY <1>3 DEF RouteForms, Put, FirewallFields
<1> QED  BY <1>1, <1>2, <1>3

LEMMA PutFacts ==
    ASSUME NEW t, NEW i, NEW v
    PROVE  /\ Ids(Put(t, i, v)) = Ids(t) \cup {i}
           /\ Put(t, i, v)[i] = v
           /\ \A j \in Ids(t) \ {i} : Put(t, i, v)[j] = t[j]
BY DEF Put, Ids

LEMMA WithoutFacts ==
    ASSUME NEW t, NEW i
    PROVE  /\ Ids(Without(t, i)) = Ids(t) \ {i}
           /\ \A j \in Ids(t) \ {i} : Without(t, i)[j] = t[j]
           /\ \A j \in Ids(Without(t, i)) : j \in Ids(t) /\ j # i /\ Without(t, i)[j] = t[j]
BY DEF Without, Ids

LEMMA SiteEdited ==
    ASSUME NEW s, NEW v, NEW t,
           s = [net |-> s.net, zone |-> s.zone, sets |-> s.sets, rule |-> s.rule, client |-> s.client]
    PROVE  /\ t = [s EXCEPT !.net = v] =>
                /\ t.net = v /\ t.zone = s.zone /\ t.sets = s.sets /\ t.rule = s.rule /\ t.client = s.client
                /\ t = [net |-> t.net, zone |-> t.zone, sets |-> t.sets, rule |-> t.rule, client |-> t.client]
           /\ t = [s EXCEPT !.zone = v] =>
                /\ t.net = s.net /\ t.zone = v /\ t.sets = s.sets /\ t.rule = s.rule /\ t.client = s.client
                /\ t = [net |-> t.net, zone |-> t.zone, sets |-> t.sets, rule |-> t.rule, client |-> t.client]
           /\ t = [s EXCEPT !.sets = v] =>
                /\ t.net = s.net /\ t.zone = s.zone /\ t.sets = v /\ t.rule = s.rule /\ t.client = s.client
                /\ t = [net |-> t.net, zone |-> t.zone, sets |-> t.sets, rule |-> t.rule, client |-> t.client]
           /\ t = [s EXCEPT !.rule = v] =>
                /\ t.net = s.net /\ t.zone = s.zone /\ t.sets = s.sets /\ t.rule = v /\ t.client = s.client
                /\ t = [net |-> t.net, zone |-> t.zone, sets |-> t.sets, rule |-> t.rule, client |-> t.client]
           /\ t = [s EXCEPT !.client = v] =>
                /\ t.net = s.net /\ t.zone = s.zone /\ t.sets = s.sets /\ t.rule = s.rule /\ t.client = v
                /\ t = [net |-> t.net, zone |-> t.zone, sets |-> t.sets, rule |-> t.rule, client |-> t.client]
<1>1. t = [s EXCEPT !.net = v] =>
                /\ t.net = v /\ t.zone = s.zone /\ t.sets = s.sets /\ t.rule = s.rule /\ t.client = s.client
                /\ t = [net |-> t.net, zone |-> t.zone, sets |-> t.sets, rule |-> t.rule, client |-> t.client]
  OBVIOUS
<1>2. t = [s EXCEPT !.zone = v] =>
                /\ t.net = s.net /\ t.zone = v /\ t.sets = s.sets /\ t.rule = s.rule /\ t.client = s.client
                /\ t = [net |-> t.net, zone |-> t.zone, sets |-> t.sets, rule |-> t.rule, client |-> t.client]
  OBVIOUS
<1>3. t = [s EXCEPT !.sets = v] =>
                /\ t.net = s.net /\ t.zone = s.zone /\ t.sets = v /\ t.rule = s.rule /\ t.client = s.client
                /\ t = [net |-> t.net, zone |-> t.zone, sets |-> t.sets, rule |-> t.rule, client |-> t.client]
  OBVIOUS
<1>4. t = [s EXCEPT !.rule = v] =>
                /\ t.net = s.net /\ t.zone = s.zone /\ t.sets = s.sets /\ t.rule = v /\ t.client = s.client
                /\ t = [net |-> t.net, zone |-> t.zone, sets |-> t.sets, rule |-> t.rule, client |-> t.client]
  OBVIOUS
<1>5. t = [s EXCEPT !.client = v] =>
                /\ t.net = s.net /\ t.zone = s.zone /\ t.sets = s.sets /\ t.rule = s.rule /\ t.client = v
                /\ t = [net |-> t.net, zone |-> t.zone, sets |-> t.sets, rule |-> t.rule, client |-> t.client]
  OBVIOUS
<1> QED  BY <1>1, <1>2, <1>3, <1>4, <1>5

\* Zones and the networks that hold an address depend on these columns alone.
SameNets(s, t) ==
    /\ Ids(t.net) = Ids(s.net)
    /\ \A n \in Ids(s.net) : /\ t.net[n].on = s.net[n].on /\ t.net[n].vlan = s.net[n].vlan
                             /\ t.net[n].zone = s.net[n].zone /\ t.net[n].cidr = s.net[n].cidr

LEMMA NetsDecide ==
    ASSUME NEW s, NEW t, SameNets(s, t)
    PROVE  /\ Active(t) = Active(s)
           /\ \A a : Holding(t, a) = Holding(s, a)
           /\ ActiveZoneNames(t) = ActiveZoneNames(s)
           /\ ValidateZoneNames(s) => ValidateZoneNames(t)
           /\ t.zone = s.zone => (ValidateZonePolicies(s) => ValidateZonePolicies(t))
<1>1. Active(t) = Active(s)
  BY DEF SameNets, Active
<1>2. \A n \in Active(s) : n \in Ids(s.net)
  BY DEF Active
<1>3. \A a : Holding(t, a) = Holding(s, a)
  BY <1>1, <1>2 DEF SameNets, Holding
<1>4. Labels(t) = Labels(s)
  BY <1>1, <1>2 DEF SameNets, Labels
<1>5. ActiveZoneNames(t) = ActiveZoneNames(s)
  BY <1>4 DEF ActiveZoneNames
<1> QED  BY <1>1, <1>3, <1>4, <1>5 DEF ValidateZoneNames, ValidateZonePolicies

\* A policy is checked against the networks and the sets it names.
LEMMA RuleDecides ==
    ASSUME NEW s, NEW t, SameNets(s, t), NEW r, r.kind \in {"firewall", "forward", "route"},
           r.kind = "firewall" /\ r.set # 0 /\ r.set \in Ids(s.sets) => r.set \in Ids(t.sets),
           ValidateRule(s, r)
    PROVE  ValidateRule(t, r)
<1>1. Active(t) = Active(s) /\ (\A a : Holding(t, a) = Holding(s, a)) /\ ActiveZoneNames(t) = ActiveZoneNames(s)
  BY NetsDecide
<1>2. CASE r.kind = "firewall"
  BY <1>1, <1>2 DEF ValidateRule, ValidateFirewallRule
<1>3. CASE r.kind = "forward"
  <2>1. r.dst \in ActiveZoneNames(s) /\ \E n \in Holding(s, r.ip) : s.net[n].zone = r.dst
    BY <1>3 DEF ValidateRule, ValidatePortForward
  <2>2. \A n \in Holding(s, r.ip) : t.net[n].zone = s.net[n].zone
    BY DEF SameNets, Holding, Active
  <2> QED  BY <1>1, <1>3, <2>1, <2>2 DEF ValidateRule, ValidatePortForward
<1>4. CASE r.kind = "route"
  <2>1. (r.net # 0 => r.net \in Active(s) /\ r.gw \in s.net[r.net].cidr) /\ Holding(s, r.target) = {}
    BY <1>4 DEF ValidateRule, ValidateStaticRoute
  <2>2. \A n \in Active(s) : t.net[n].cidr = s.net[n].cidr
    BY DEF SameNets, Active
  <2> QED  BY <1>1, <1>4, <2>1, <2>2 DEF ValidateRule, ValidateStaticRoute
<1> QED  BY <1>2, <1>3, <1>4

\* One conjunct per policy and pair of policies, as the checks are cited below.
LEMMA PolicyParts ==
    ASSUME NEW s
    PROVE  ValidatePolicies(s) <=>
             /\ ValidatePolicySets(s)
             /\ \A p \in Ids(s.rule) : ValidateRule(s, s.rule[p])
             /\ \A p, q \in Ids(s.rule) : p # q => ValidatePair(s.rule[p], s.rule[q])
             /\ \A m \in Ids(s.client) : ValidateFixed(s, m)
             /\ \A p \in Ids(s.rule), m \in Ids(s.client) :
                   s.client[m].blocked /\ AcceptsForwarded(s.rule[p]) => ~Carries(s, s.rule[p], m)
BY DEF ValidatePolicies

\* The one network that holds a fixed address.
LEMMA OneHolds ==
    ASSUME NEW s, IsFiniteSet(Ids(s.net)), NEW a, Cardinality(Holding(s, a)) = 1
    PROVE  \E n \in Active(s) : Holding(s, a) = {n} /\ a \in s.net[n].cidr
<1>1. Holding(s, a) \subseteq Ids(s.net)
  BY DEF Holding, Active
<1>2. IsFiniteSet(Holding(s, a))
  BY <1>1, FS_Subset
<1>3. PICK n : Holding(s, a) = {n}
  BY <1>2, FS_Singleton
<1>4. n \in Active(s) /\ a \in s.net[n].cidr
  BY <1>3 DEF Holding
<1> QED  BY <1>3, <1>4

\* What a request without a DHCP object leaves in the row.
LEMMA DHCPKept ==
    ASSUME SiteShape, NEW i, NEW form \in NetForms, NEW k, k = KeepDHCP(i, form)
    PROVE  /\ k \in NetRows
           /\ k.on = form.on /\ k.vlan = form.vlan /\ k.zone = form.zone /\ k.cidr = form.cidr
           /\ k.dhcp = "off" => form.dhcp = "off" \/ (i \in Ids(site.net) /\ site.net[i].dhcp = "off")
<1>1. form \in [vlan : Nat, zone : Zones, on : BOOLEAN,
               dhcp : {"on", "off", "omitted"}, cidr : SUBSET Addresses]
  BY SiteAssumption
<1>2. CASE form.dhcp # "omitted"
  <2>1. k = form
    BY <1>2 DEF KeepDHCP
  <2> QED  BY <1>1, <1>2, <2>1 DEF NetRows
<1>3. CASE form.dhcp = "omitted"
  <2>1. PICK d \in {"on", "off"} :
           /\ k = [form EXCEPT !.dhcp = d]
           /\ d = "off" => i \in Ids(site.net) /\ site.net[i].dhcp = "off"
    <3>1. CASE i \in Ids(site.net)
      <4>1. site.net[i] \in NetRows
        BY <3>1 DEF SiteShape
      <4>2. site.net[i].dhcp \in {"on", "off"}
        BY <4>1 DEF NetRows
      <4> QED  BY <1>3, <3>1, <4>2 DEF KeepDHCP
    <3>2. CASE i \notin Ids(site.net)
      BY <1>3, <3>2 DEF KeepDHCP
    <3> QED  BY <3>1, <3>2
  <2>2. k = [vlan |-> form.vlan, zone |-> form.zone, on |-> form.on, dhcp |-> d, cidr |-> form.cidr]
    BY <1>1, <2>1
  <2> QED  BY <1>1, <2>1, <2>2 DEF NetRows
<1> QED  BY <1>2, <1>3

\* The checks of a save hold of the row as it is stored.
LEMMA NetworkSaved ==
    ASSUME SiteInv, NEW i, NEW form \in NetForms, SaveNetwork(i, form)
    PROVE  SiteShape' /\ PoliciesStay'
<1>1. PICK s : s = [site EXCEPT !.net = Put(site.net, i, form)]
  OBVIOUS
<1>2. PICK t : t = [site EXCEPT !.net = Put(site.net, i, KeepDHCP(i, form))]
  OBVIOUS
<1>3. PICK k : k = KeepDHCP(i, form)
  OBVIOUS
<1>4. EnsureNetworkChangeSafe(s) /\ site' = t
  BY <1>1, <1>2 DEF SaveNetwork, Policy
<1>5. SiteShape /\ PoliciesStay
  BY DEF SiteInv, SiteIsWhole
<1>6. /\ s.net = Put(site.net, i, form) /\ s.zone = site.zone /\ s.sets = site.sets
      /\ s.rule = site.rule /\ s.client = site.client
  BY <1>1, <1>5, SiteEdited DEF SiteShape
<1>7. /\ t.net = Put(site.net, i, k) /\ t.zone = site.zone /\ t.sets = site.sets
      /\ t.rule = site.rule /\ t.client = site.client
      /\ t = [net |-> t.net, zone |-> t.zone, sets |-> t.sets, rule |-> t.rule, client |-> t.client]
  BY <1>2, <1>3, <1>5, SiteEdited DEF SiteShape
<1>8. /\ Ids(s.net) = Ids(site.net) \cup {i} /\ s.net[i] = form
      /\ \A j \in Ids(site.net) \ {i} : s.net[j] = site.net[j]
      /\ Ids(t.net) = Ids(site.net) \cup {i} /\ t.net[i] = k
      /\ \A j \in Ids(site.net) \ {i} : t.net[j] = site.net[j]
  BY <1>6, <1>7, PutFacts
<1>9. /\ k \in NetRows
      /\ k.on = form.on /\ k.vlan = form.vlan /\ k.zone = form.zone /\ k.cidr = form.cidr
      /\ k.dhcp = "off" => form.dhcp = "off" \/ (i \in Ids(site.net) /\ site.net[i].dhcp = "off")
  BY <1>3, <1>5, DHCPKept
<1>10. SameNets(s, t)
  BY <1>8, <1>9 DEF SameNets
<1>11. IsFiniteSet(Ids(site.net)) /\ IsFiniteSet(Ids(s.net))
  <2>1. IsFiniteSet(Ids(site.net))
    BY <1>5 DEF SiteShape
  <2> QED  BY <1>8, <2>1, FS_AddElement
<1>12. SiteShape'
  <2>1. \A n \in Ids(t.net) : t.net[n] \in NetRows
    BY <1>5, <1>8, <1>9 DEF SiteShape
  <2>2. IsFiniteSet(Ids(t.net))
    BY <1>8, <1>11
  <2> QED  BY <1>4, <1>5, <1>7, <2>1, <2>2 DEF SiteShape
<1>13. ValidateZoneNames(t) /\ ValidateZonePolicies(t)
  BY <1>4, <1>6, <1>7, <1>10, NetsDecide DEF EnsureNetworkChangeSafe
<1>14. ValidatePolicies(t)
  <2>1. ValidatePolicies(s)
    BY <1>4 DEF EnsureNetworkChangeSafe
  <2>2. \A p \in Ids(t.rule) : ValidateRule(t, t.rule[p])
    <3>1. SUFFICES ASSUME NEW p \in Ids(t.rule)
                   PROVE  ValidateRule(t, t.rule[p])
      OBVIOUS
    <3>2. ValidateRule(s, t.rule[p])
      BY <1>6, <1>7, <2>1, PolicyParts
    <3>3. t.rule[p].kind \in {"firewall", "forward", "route"}
      BY <1>5, <1>7 DEF SiteShape
    <3> QED  BY <1>6, <1>7, <1>10, <3>2, <3>3, RuleDecides
  <2>3. \A m \in Ids(t.client) : ValidateFixed(t, m)
    <3>1. SUFFICES ASSUME NEW m \in Ids(t.client), t.client[m].fixed # Absent
                   PROVE  ValidateFixed(t, m)
      BY DEF ValidateFixed
    <3>2. PICK a : a = t.client[m].fixed
      OBVIOUS
    <3>3. ValidateFixed(s, m) /\ ValidateFixed(site, m) /\ s.client[m].fixed = a /\ site.client[m].fixed = a
      BY <1>5, <1>6, <1>7, <2>1, <3>2, PolicyParts DEF PoliciesStay
    <3>4. Cardinality(Holding(s, a)) = 1 /\ Cardinality(Holding(site, a)) = 1
      BY <3>1, <3>2, <3>3 DEF ValidateFixed
    <3>5. PICK n \in Active(s) : Holding(s, a) = {n} /\ a \in s.net[n].cidr
      BY <1>11, <3>4, OneHolds
    <3>6. PICK o \in Active(site) : Holding(site, a) = {o} /\ a \in site.net[o].cidr
      BY <1>11, <3>4, OneHolds
    <3>7. s.net[n].dhcp # "off" /\ site.net[o].dhcp # "off"
      BY <3>1, <3>2, <3>3, <3>5, <3>6 DEF ValidateFixed
    <3>8. o # i => o = n
      <4>1. o # i => o \in Active(s) /\ s.net[o] = site.net[o]
        BY <1>8 DEF Active
      <4>2. o # i => o \in Holding(s, a)
        BY <3>6, <4>1 DEF Holding
      <4> QED  BY <3>5, <4>2
    <3>9. t.net[n].dhcp # "off"
      <4>1. CASE n # i
        <5>1. n \in Ids(site.net) \ {i}
          BY <1>8, <4>1 DEF Active
        <5> QED  BY <1>8, <3>7, <5>1
      <4>2. CASE n = i
        BY <1>8, <1>9, <3>7, <3>8, <4>2
      <4> QED  BY <4>1, <4>2
    <3>10. Holding(t, a) = {n}
      BY <1>10, <3>5, NetsDecide
    <3>11. \A x \in Ids(t.client) \ {m} : t.client[x].fixed # a
      BY <1>6, <1>7, <3>1, <3>2, <3>3 DEF ValidateFixed
    <3> QED  BY <3>2, <3>4, <3>5, <3>9, <3>10, <3>11 DEF ValidateFixed
  <2>4. ValidatePolicySets(t)
    BY <1>6, <1>7, <2>1, PolicyParts DEF ValidatePolicySets
  <2>5. \A p, q \in Ids(t.rule) : p # q => ValidatePair(t.rule[p], t.rule[q])
    BY <1>6, <1>7, <2>1, PolicyParts
  <2>6. \A p \in Ids(t.rule), m \in Ids(t.client) :
           t.client[m].blocked /\ AcceptsForwarded(t.rule[p]) => ~Carries(t, t.rule[p], m)
    <3>1. SUFFICES ASSUME NEW p \in Ids(t.rule), NEW m \in Ids(t.client),
                          t.client[m].blocked, AcceptsForwarded(t.rule[p])
                   PROVE  ~Carries(t, t.rule[p], m)
      OBVIOUS
    <3>2. ~Carries(s, t.rule[p], m)
      BY <1>6, <1>7, <2>1, <3>1, PolicyParts
    <3> QED  BY <1>6, <1>7, <3>2 DEF Carries, SourceMACs
  <2> QED  BY <2>2, <2>3, <2>4, <2>5, <2>6, PolicyParts
<1> QED  BY <1>4, <1>12, <1>13, <1>14 DEF PoliciesStay

\* Fewer policies, sets no policy names, fewer clients, released or new ones:
\* what was valid stays valid.
LEMMA PoliciesRelax ==
    ASSUME NEW s, NEW t, t.net = s.net, ValidatePolicies(s),
           \A p \in Ids(t.rule) : p \in Ids(s.rule) /\ t.rule[p] = s.rule[p],
           \A p \in Ids(t.rule) : t.rule[p].kind \in {"firewall", "forward", "route"},
           \A i \in Ids(t.sets) : i \in Ids(s.sets) /\ t.sets[i] = s.sets[i],
           \A p \in Ids(t.rule) :
               t.rule[p].kind = "firewall" /\ t.rule[p].set \in Ids(s.sets) => t.rule[p].set \in Ids(t.sets),
           \A m \in Ids(t.client) :
               \/ m \in Ids(s.client) /\ t.client[m] = s.client[m]
               \/ ~t.client[m].blocked /\ t.client[m].fixed = Absent
    PROVE  ValidatePolicies(t)
<1>1. SameNets(s, t)
  BY DEF SameNets
<1>2. ValidatePolicySets(t)
  BY PolicyParts DEF ValidatePolicySets
<1>3. \A p \in Ids(t.rule) : ValidateRule(s, t.rule[p])
  BY PolicyParts
<1>4. \A p \in Ids(t.rule) : ValidateRule(t, t.rule[p])
  BY <1>1, <1>3, RuleDecides
<1>5. \A p, q \in Ids(t.rule) : p # q => ValidatePair(t.rule[p], t.rule[q])
  BY PolicyParts
<1>6. \A m \in Ids(t.client) : ValidateFixed(t, m)
  <2>1. SUFFICES ASSUME NEW m \in Ids(t.client), t.client[m].fixed # Absent
                 PROVE  ValidateFixed(t, m)
    BY DEF ValidateFixed
  <2>2. m \in Ids(s.client) /\ t.client[m] = s.client[m]
    BY <2>1
  <2>3. ValidateFixed(s, m)
    BY <2>2, PolicyParts
  <2>4. PICK a : a = t.client[m].fixed
    OBVIOUS
  <2>5. Holding(t, a) = Holding(s, a)
    BY <1>1, NetsDecide
  <2>6. \A o \in Ids(t.client) \ {m} : t.client[o].fixed # a
    <3>1. SUFFICES ASSUME NEW o \in Ids(t.client) \ {m}
                   PROVE  t.client[o].fixed # a
      OBVIOUS
    <3>2. CASE o \in Ids(s.client) /\ t.client[o] = s.client[o]
      BY <2>1, <2>2, <2>3, <2>4, <3>2 DEF ValidateFixed
    <3>3. CASE t.client[o].fixed = Absent
      BY <2>1, <2>4, <3>3
    <3> QED  BY <3>2, <3>3
  <2> QED  BY <2>1, <2>2, <2>3, <2>4, <2>5, <2>6 DEF ValidateFixed
<1>7. \A p \in Ids(t.rule), m \in Ids(t.client) :
         t.client[m].blocked /\ AcceptsForwarded(t.rule[p]) => ~Carries(t, t.rule[p], m)
  <2>1. SUFFICES ASSUME NEW p \in Ids(t.rule), NEW m \in Ids(t.client),
                        t.client[m].blocked, AcceptsForwarded(t.rule[p])
                 PROVE  ~Carries(t, t.rule[p], m)
    OBVIOUS
  <2>2. m \in Ids(s.client) /\ t.client[m] = s.client[m]
    BY <2>1
  <2>3. ~Carries(s, t.rule[p], m)
    BY <2>1, <2>2, PolicyParts
  <2>4. t.rule[p].kind = "firewall"
    BY <2>1 DEF AcceptsForwarded
  <2>5. t.rule[p].set # 0 => t.rule[p].set \in Ids(s.sets)
    BY <1>3, <2>4 DEF ValidateRule, ValidateFirewallRule
  <2>6. SourceMACs(t, t.rule[p]) = SourceMACs(s, t.rule[p])
    BY <2>4, <2>5 DEF SourceMACs
  <2> QED  BY <2>3, <2>6 DEF Carries
<1> QED  BY <1>2, <1>4, <1>5, <1>6, <1>7, PolicyParts

LEMMA NetworkDeleted ==
    ASSUME SiteInv, NEW i \in Ids(site.net), DeleteNetwork(i)
    PROVE  SiteShape' /\ PoliciesStay'
<1>1. PICK s : s = [site EXCEPT !.net = Without(site.net, i)]
  OBVIOUS
<1>2. EnsureNetworkChangeSafe(s) /\ site' = s
  BY <1>1 DEF DeleteNetwork, Policy
<1>3. SiteShape
  BY DEF SiteInv
<1>4. /\ s.net = Without(site.net, i) /\ s.rule = site.rule /\ s.client = site.client
      /\ s = [net |-> s.net, zone |-> s.zone, sets |-> s.sets, rule |-> s.rule, client |-> s.client]
  BY <1>1, <1>3, SiteEdited DEF SiteShape
<1>5. Ids(s.net) = Ids(site.net) \ {i} /\ \A j \in Ids(s.net) : s.net[j] = site.net[j]
  BY <1>4, WithoutFacts
<1>6. IsFiniteSet(Ids(s.net))
  <2>1. IsFiniteSet(Ids(site.net))
    BY <1>3 DEF SiteShape
  <2> QED  BY <1>5, <2>1, FS_Subset
<1>7. SiteShape'
  BY <1>2, <1>3, <1>4, <1>5, <1>6 DEF SiteShape
<1> QED  BY <1>2, <1>7 DEF EnsureNetworkChangeSafe, PoliciesStay

\* What the edits that leave the networks alone have in common.
LEMMA NetworksKept ==
    ASSUME SiteInv, NEW t, t.net = site.net, site' = t,
           t = [net |-> t.net, zone |-> t.zone, sets |-> t.sets, rule |-> t.rule, client |-> t.client]
    PROVE  /\ t.rule = site.rule /\ (\A m \in Ids(t.client) : t.client[m] \in ClientRows) => SiteShape'
           /\ t.zone = site.zone /\ ValidatePolicies(t) => PoliciesStay'
           /\ ValidateZonePolicies(t) /\ ValidatePolicies(t) => PoliciesStay'
<1>1. SiteShape /\ PoliciesStay
  BY DEF SiteInv, SiteIsWhole
<1>2. SameNets(site, t)
  BY DEF SameNets
<1>3. ValidateZoneNames(t) /\ (t.zone = site.zone => ValidateZonePolicies(t))
  BY <1>1, <1>2, NetsDecide DEF PoliciesStay
<1>4. t.rule = site.rule /\ (\A m \in Ids(t.client) : t.client[m] \in ClientRows) => SiteShape'
  BY <1>1 DEF SiteShape
<1> QED  BY <1>3, <1>4 DEF PoliciesStay

LEMMA ZonePolicyEdited ==
    ASSUME SiteInv, HandleSaveZonePolicy \/ HandleDeleteZonePolicy
    PROVE  SiteShape' /\ PoliciesStay'
<1>1. SiteShape /\ PoliciesStay
  BY DEF SiteInv, SiteIsWhole
<1>2. PICK v, t : /\ t = [site EXCEPT !.zone = v] /\ site' = t
                  /\ \/ ValidateZonePolicies(t)
                     \/ \E z : v = Without(site.zone, z)
  <2>1. CASE HandleSaveZonePolicy
    BY <2>1 DEF HandleSaveZonePolicy, SaveZonePolicy, Policy
  <2>2. CASE HandleDeleteZonePolicy
    BY <2>2 DEF HandleDeleteZonePolicy, DeleteZonePolicy, Policy
  <2> QED  BY <2>1, <2>2
<1>3. /\ t.net = site.net /\ t.zone = v /\ t.sets = site.sets /\ t.rule = site.rule /\ t.client = site.client
      /\ t = [net |-> t.net, zone |-> t.zone, sets |-> t.sets, rule |-> t.rule, client |-> t.client]
  BY <1>1, <1>2, SiteEdited DEF SiteShape
<1>4. ValidateZonePolicies(t)
  <2>1. CASE \E z : v = Without(site.zone, z)
    <3>1. \A z \in Ids(v) : z \in Ids(site.zone) /\ v[z] = site.zone[z]
      BY <2>1, WithoutFacts
    <3>2. ActiveZoneNames(t) = ActiveZoneNames(site)
      BY <1>3, NetsDecide DEF SameNets
    <3>3. ValidateZonePolicies(site)
      BY <1>1 DEF PoliciesStay
    <3> QED  BY <1>3, <3>1, <3>2, <3>3 DEF ValidateZonePolicies
  <2> QED  BY <1>2, <2>1
<1>5. ValidatePolicies(t)
  BY <1>1, <1>3, PoliciesRelax DEF PoliciesStay, SiteShape
<1>6. \A m \in Ids(t.client) : t.client[m] \in ClientRows
  BY <1>1, <1>3 DEF SiteShape
<1> QED  BY <1>2, <1>3, <1>4, <1>5, <1>6, NetworksKept

LEMMA PolicySetEdited ==
    ASSUME SiteInv, HandleSavePolicySet \/ HandleDeletePolicySet
    PROVE  SiteShape' /\ PoliciesStay'
<1>1. SiteShape /\ PoliciesStay
  BY DEF SiteInv, SiteIsWhole
<1>2. PICK v, t : /\ t = [site EXCEPT !.sets = v] /\ site' = t
                  /\ \/ ValidatePolicies(t)
                     \/ \E i : /\ v = Without(site.sets, i)
                               /\ \A p \in Ids(site.rule) :
                                     site.rule[p].kind = "firewall" => site.rule[p].set # i
  <2>1. CASE HandleSavePolicySet
    BY <2>1 DEF HandleSavePolicySet, SavePolicySet, Policy
  <2>2. CASE HandleDeletePolicySet
    BY <2>2 DEF HandleDeletePolicySet, DeletePolicySet, Policy
  <2> QED  BY <2>1, <2>2
<1>3. /\ t.net = site.net /\ t.zone = site.zone /\ t.sets = v /\ t.rule = site.rule /\ t.client = site.client
      /\ t = [net |-> t.net, zone |-> t.zone, sets |-> t.sets, rule |-> t.rule, client |-> t.client]
  BY <1>1, <1>2, SiteEdited DEF SiteShape
<1>4. ValidatePolicies(t)
  <2>1. CASE \E i : /\ v = Without(site.sets, i)
                    /\ \A p \in Ids(site.rule) :
                          site.rule[p].kind = "firewall" => site.rule[p].set # i
    <3>1. PICK i : /\ v = Without(site.sets, i)
                   /\ \A p \in Ids(site.rule) :
                         site.rule[p].kind = "firewall" => site.rule[p].set # i
      BY <2>1
    <3>2. Ids(v) = Ids(site.sets) \ {i} /\ \A j \in Ids(v) : v[j] = site.sets[j]
      BY <3>1, WithoutFacts
    <3>3. \A p \in Ids(t.rule) : t.rule[p].kind \in {"firewall", "forward", "route"}
      BY <1>1, <1>3 DEF SiteShape
    <3> QED  BY <1>1, <1>3, <3>1, <3>2, <3>3, PoliciesRelax DEF PoliciesStay
  <2> QED  BY <1>2, <2>1
<1>5. \A m \in Ids(t.client) : t.client[m] \in ClientRows
  BY <1>1, <1>3 DEF SiteShape
<1> QED  BY <1>2, <1>3, <1>4, <1>5, NetworksKept

LEMMA PolicyEdited ==
    ASSUME SiteInv, HandleSavePolicy \/ HandleDeletePolicy
    PROVE  SiteShape' /\ PoliciesStay'
<1>1. SiteShape /\ PoliciesStay
  BY DEF SiteInv, SiteIsWhole
<1>2. CASE HandleSavePolicy
  <2>1. PICK p \in Slots(site.rule), form \in RuleForms, on \in BOOLEAN : SavePolicy(p, Put(form, "on", on))
    BY <1>2 DEF HandleSavePolicy
  <2>2. PICK r, t : r = Put(form, "on", on) /\ t = [site EXCEPT !.rule = Put(site.rule, p, r)]
    OBVIOUS
  <2>3. ValidatePolicies(t) /\ site' = t
    BY <2>1, <2>2 DEF SavePolicy, MaySavePolicy, Policy
  <2>4. /\ t.net = site.net /\ t.zone = site.zone /\ t.rule = Put(site.rule, p, r) /\ t.client = site.client
        /\ t = [net |-> t.net, zone |-> t.zone, sets |-> t.sets, rule |-> t.rule, client |-> t.client]
    BY <1>1, <2>2, SiteEdited DEF SiteShape
  <2>5. /\ Ids(t.rule) = Ids(site.rule) \cup {p} /\ t.rule[p] = r
        /\ \A q \in Ids(site.rule) \ {p} : t.rule[q] = site.rule[q]
    BY <2>4, PutFacts
  <2>6. p \in 1..MaxId
    BY <1>1 DEF Slots, SiteShape
  <2>7. /\ {"kind", "on"} \subseteq DOMAIN r
        /\ r.on = on
        /\ r.kind \in {"firewall", "forward", "route"}
        /\ r.kind = "firewall" => DOMAIN r = FirewallFields
    BY <2>2, FormSaved
  <2>8. \A q \in Ids(t.rule) :
          /\ {"kind", "on"} \subseteq DOMAIN t.rule[q]
          /\ t.rule[q].on \in BOOLEAN
          /\ t.rule[q].kind \in {"firewall", "forward", "route"}
          /\ t.rule[q].kind = "firewall" => DOMAIN t.rule[q] = FirewallFields
    BY <1>1, <2>5, <2>7 DEF SiteShape
  <2>9. SiteShape'
    BY <1>1, <2>3, <2>4, <2>5, <2>6, <2>8 DEF SiteShape
  <2> QED  BY <2>3, <2>4, <2>9, NetworksKept
<1>3. CASE HandleDeletePolicy
  <2>1. PICK p : site' = [site EXCEPT !.rule = Without(site.rule, p)]
    BY <1>3 DEF HandleDeletePolicy, DeletePolicy, Policy
  <2>2. PICK t : t = [site EXCEPT !.rule = Without(site.rule, p)] /\ site' = t
    BY <2>1
  <2>4. /\ t.net = site.net /\ t.zone = site.zone /\ t.sets = site.sets /\ t.client = site.client
        /\ t.rule = Without(site.rule, p)
        /\ t = [net |-> t.net, zone |-> t.zone, sets |-> t.sets, rule |-> t.rule, client |-> t.client]
    BY <1>1, <2>2, SiteEdited DEF SiteShape
  <2>5. Ids(t.rule) = Ids(site.rule) \ {p} /\ \A q \in Ids(t.rule) : t.rule[q] = site.rule[q]
    BY <2>4, WithoutFacts
  <2>6. SiteShape'
    BY <1>1, <2>2, <2>4, <2>5 DEF SiteShape
  <2>7. \A q \in Ids(t.rule) : t.rule[q].kind \in {"firewall", "forward", "route"}
    BY <1>1, <2>5 DEF SiteShape
  <2>8. ValidatePolicies(t)
    BY <1>1, <2>4, <2>5, <2>7, PoliciesRelax DEF PoliciesStay
  <2> QED  BY <2>2, <2>4, <2>6, <2>8, NetworksKept
<1> QED  BY <1>2, <1>3

\* A client released, first seen or forgotten.
LEMMA ClientsEdited ==
    ASSUME SiteInv, HandleSaveClientPolicy \/ UpsertClients \/ PruneClients
    PROVE  SiteShape' /\ PoliciesStay'
<1>1. SiteShape /\ PoliciesStay
  BY DEF SiteInv, SiteIsWhole
<1>2. PICK v, t : /\ t = [site EXCEPT !.client = v] /\ site' = t
                  /\ \A m \in Ids(v) : v[m] \in ClientRows
                  /\ \/ ValidatePolicies(t)
                     \/ \A m \in Ids(v) : \/ m \in Ids(site.client) /\ v[m] = site.client[m]
                                          \/ ~v[m].blocked /\ v[m].fixed = Absent
  <2>1. CASE HandleSaveClientPolicy
    <3>1. PICK m, c : m \in Ids(site.client) /\ c \in ClientRows /\ SaveClientPolicy(m, c)
      <4>1. PICK m \in Ids(site.client), b \in BOOLEAN, k \in BOOLEAN, a \in Addresses \cup {Absent} :
               SaveClientPolicy(m, [blocked |-> b, fixed |-> a, kept |-> k])
        BY <2>1 DEF HandleSaveClientPolicy
      <4>2. [blocked |-> b, fixed |-> a, kept |-> k] \in ClientRows
        BY DEF ClientRows
      <4> QED  BY <4>1, <4>2
    <3>2. PICK v, t : v = [site.client EXCEPT ![m] = c] /\ t = [site EXCEPT !.client = v]
      OBVIOUS
    <3>3. /\ t = [site EXCEPT !.client[m] = c] /\ site' = t
          /\ (Enforced(site.client[m]) /\ ~Enforced(c)) \/ ValidatePolicies(t)
      BY <3>1, <3>2 DEF SaveClientPolicy, MaySaveClientPolicy, ClearsEnforcement, Policy
    <3>4. \A x \in Ids(v) : x \in Ids(site.client) /\ v[x] = IF x = m THEN c ELSE site.client[x]
      BY <3>2 DEF Ids
    <3>6. \A x \in Ids(v) : v[x] \in ClientRows
      BY <1>1, <3>1, <3>4 DEF SiteShape
    <3>5. CASE Enforced(site.client[m]) /\ ~Enforced(c)
      <4>1. \A x \in Ids(v) : \/ x \in Ids(site.client) /\ v[x] = site.client[x]
                              \/ ~v[x].blocked /\ v[x].fixed = Absent
        BY <3>4, <3>5 DEF Enforced
      <4> QED  BY <3>2, <3>3, <3>6, <4>1
    <3> QED  BY <3>2, <3>3, <3>5, <3>6
  <2>2. CASE UpsertClients
    <3>1. PICK m : site' = IF m \in Ids(site.client) THEN site
                           ELSE [site EXCEPT !.client = Put(@, m, Unlisted)]
      BY <2>2 DEF UpsertClients
    <3>2. CASE m \in Ids(site.client)
      <4>1. site = [site EXCEPT !.client = site.client]
        BY <1>1 DEF SiteShape
      <4>2. \A x \in Ids(site.client) : site.client[x] \in ClientRows
        BY <1>1 DEF SiteShape
      <4> QED  BY <3>1, <3>2, <4>1, <4>2
    <3>3. CASE m \notin Ids(site.client)
      <4>1. /\ Ids(Put(site.client, m, Unlisted)) = Ids(site.client) \cup {m}
            /\ Put(site.client, m, Unlisted)[m] = Unlisted
            /\ \A j \in Ids(site.client) \ {m} : Put(site.client, m, Unlisted)[j] = site.client[j]
        BY PutFacts
      <4>2. ~Unlisted.blocked /\ Unlisted.fixed = Absent /\ Unlisted \in ClientRows
        BY DEF Unlisted, ClientRows
      <4>3. \A x \in Ids(site.client) : site.client[x] \in ClientRows
        BY <1>1 DEF SiteShape
      <4>4. \A x \in Ids(Put(site.client, m, Unlisted)) : Put(site.client, m, Unlisted)[x] \in ClientRows
        BY <4>1, <4>2, <4>3
      <4>5. \A x \in Ids(Put(site.client, m, Unlisted)) :
               \/ x \in Ids(site.client) /\ Put(site.client, m, Unlisted)[x] = site.client[x]
               \/ ~Put(site.client, m, Unlisted)[x].blocked /\ Put(site.client, m, Unlisted)[x].fixed = Absent
        BY <4>1, <4>2
      <4> QED  BY <3>1, <3>3, <4>4, <4>5
    <3> QED  BY <3>2, <3>3
  <2>3. CASE PruneClients
    <3>1. PICK gone : site' = [site EXCEPT !.client =
                [m \in Ids(site.client) \ {o \in gone : Forgettable(o)} |-> site.client[m]]]
      BY <2>3 DEF PruneClients
    <3>2. PICK v : v = [m \in Ids(site.client) \ {o \in gone : Forgettable(o)} |-> site.client[m]]
      OBVIOUS
    <3>3. \A m \in Ids(v) : m \in Ids(site.client) /\ v[m] = site.client[m]
      BY <3>2 DEF Ids
    <3>4. \A x \in Ids(v) : v[x] \in ClientRows
      BY <1>1, <3>3 DEF SiteShape
    <3> QED  BY <3>1, <3>2, <3>3, <3>4
  <2> QED  BY <2>1, <2>2, <2>3
<1>3. /\ t.net = site.net /\ t.zone = site.zone /\ t.sets = site.sets /\ t.rule = site.rule /\ t.client = v
      /\ t = [net |-> t.net, zone |-> t.zone, sets |-> t.sets, rule |-> t.rule, client |-> t.client]
  BY <1>1, <1>2, SiteEdited DEF SiteShape
<1>4. ValidatePolicies(t)
  <2>1. CASE \A m \in Ids(v) : \/ m \in Ids(site.client) /\ v[m] = site.client[m]
                               \/ ~v[m].blocked /\ v[m].fixed = Absent
    <3>1. \A p \in Ids(t.rule) : t.rule[p].kind \in {"firewall", "forward", "route"}
      BY <1>1, <1>3 DEF SiteShape
    <3>2. \A m \in Ids(t.client) :
             \/ m \in Ids(site.client) /\ t.client[m] = site.client[m]
             \/ ~t.client[m].blocked /\ t.client[m].fixed = Absent
      BY <1>3, <2>1
    <3>3. ValidatePolicies(site)
      BY <1>1 DEF PoliciesStay
    <3>4. /\ \A p \in Ids(t.rule) : p \in Ids(site.rule) /\ t.rule[p] = site.rule[p]
          /\ \A i \in Ids(t.sets) : i \in Ids(site.sets) /\ t.sets[i] = site.sets[i]
          /\ \A p \in Ids(t.rule) : t.rule[p].set \in Ids(site.sets) => t.rule[p].set \in Ids(t.sets)
      BY <1>3
    <3> QED  BY <1>3, <3>4, <3>1, <3>2, <3>3, PoliciesRelax
  <2> QED  BY <1>2, <2>1
<1>5. \A m \in Ids(t.client) : t.client[m] \in ClientRows
  BY <1>2, <1>3
<1> QED  BY <1>2, <1>3, <1>4, <1>5, NetworksKept

-----------------------------------------------------------------------------
(* No row refers to one that is gone.                                      *)

\* What an edit of the policy half must spare.
LEMMA RefsSpared ==
    ASSUME SiteInv, NEW t, site' = t, UNCHANGED <<wlan, grp, mesh, uplink, dev>>,
           \A w \in Ids(wlan) : wlan[w].net \in Ids(t.net),
           \A x \in Ids(mesh) : mesh[x].net \in Ids(t.net),
           \A i \in Ids(t.sets) : t.sets[i] \subseteq Ids(t.client)
    PROVE  NothingDangles'
BY DEF SiteInv, SiteIsWhole, NothingDangles

LEMMA NetworkEditRefs ==
    ASSUME SiteInv, HandleSaveNetwork \/ HandleDeleteNetwork
    PROVE  NothingDangles'
<1>1. SiteShape /\ NothingDangles
  BY DEF SiteInv, SiteIsWhole
<1>2. PICK v, t : /\ t = [site EXCEPT !.net = v] /\ site' = t
                  /\ UNCHANGED <<wlan, grp, mesh, uplink, dev>>
                  /\ \/ \E i, k : v = Put(site.net, i, k)
                     \/ \E i : /\ v = Without(site.net, i)
                               /\ \A w \in Ids(wlan) : wlan[w].net # i
                               /\ \A x \in Ids(mesh) : mesh[x].net # i
  <2>1. CASE HandleSaveNetwork
    <3>1. PICK i, form : site' = [site EXCEPT !.net = Put(site.net, i, KeepDHCP(i, form))]
      BY <2>1 DEF HandleSaveNetwork, SaveNetwork, Policy
    <3>2. UNCHANGED <<wlan, grp, mesh, uplink, dev>>
      BY <2>1 DEF HandleSaveNetwork, SaveNetwork, Policy
    <3> QED  BY <3>1, <3>2
  <2>2. CASE HandleDeleteNetwork
    BY <2>2 DEF HandleDeleteNetwork, DeleteNetwork, Policy
  <2> QED  BY <2>1, <2>2
<1>3. t.net = v /\ t.sets = site.sets /\ t.client = site.client
  BY <1>1, <1>2, SiteEdited DEF SiteShape
<1>4. \A n \in Ids(site.net) : n \in Ids(v) \/ ((\A w \in Ids(wlan) : wlan[w].net # n) /\ \A x \in Ids(mesh) : mesh[x].net # n)
  BY <1>2, PutFacts, WithoutFacts
<1>5. /\ \A w \in Ids(wlan) : wlan[w].net \in Ids(t.net)
      /\ \A x \in Ids(mesh) : mesh[x].net \in Ids(t.net)
      /\ \A i \in Ids(t.sets) : t.sets[i] \subseteq Ids(t.client)
  BY <1>1, <1>3, <1>4 DEF NothingDangles
<1> QED  BY <1>2, <1>5, RefsSpared

LEMMA PolicyEditRefs ==
    ASSUME SiteInv,
           \/ HandleSaveZonePolicy \/ HandleDeleteZonePolicy
           \/ HandleSavePolicy \/ HandleDeletePolicy
    PROVE  NothingDangles'
<1>1. SiteShape /\ NothingDangles
  BY DEF SiteInv, SiteIsWhole
<1>2. PICK v, t : /\ t = [site EXCEPT !.zone = v] \/ t = [site EXCEPT !.rule = v]
                  /\ site' = t /\ UNCHANGED <<wlan, grp, mesh, uplink, dev>>
  <2>1. CASE HandleSaveZonePolicy
    BY <2>1 DEF HandleSaveZonePolicy, SaveZonePolicy, Policy
  <2>2. CASE HandleDeleteZonePolicy
    BY <2>2 DEF HandleDeleteZonePolicy, DeleteZonePolicy, Policy
  <2>3. CASE HandleSavePolicy
    BY <2>3 DEF HandleSavePolicy, SavePolicy, Policy
  <2>4. CASE HandleDeletePolicy
    BY <2>4 DEF HandleDeletePolicy, DeletePolicy, Policy
  <2> QED  BY <1>1, <2>1, <2>2, <2>3, <2>4
<1>3. t.net = site.net /\ t.sets = site.sets /\ t.client = site.client
  BY <1>1, <1>2, SiteEdited DEF SiteShape
<1> QED  BY <1>1, <1>2, <1>3, RefsSpared DEF NothingDangles

LEMMA PolicySetEditRefs ==
    ASSUME SiteInv, HandleSavePolicySet \/ HandleDeletePolicySet
    PROVE  NothingDangles'
<1>1. SiteShape /\ NothingDangles
  BY DEF SiteInv, SiteIsWhole
<1>2. PICK v, t : /\ t = [site EXCEPT !.sets = v] /\ site' = t
                  /\ UNCHANGED <<wlan, grp, mesh, uplink, dev>>
                  /\ \/ \E i, ms : v = Put(site.sets, i, ms) /\ ms \subseteq Ids(site.client)
                     \/ \E i : v = Without(site.sets, i)
  <2>1. CASE HandleSavePolicySet
    BY <2>1 DEF HandleSavePolicySet, SavePolicySet, Policy
  <2>2. CASE HandleDeletePolicySet
    BY <2>2 DEF HandleDeletePolicySet, DeletePolicySet, Policy
  <2> QED  BY <2>1, <2>2
<1>3. t.net = site.net /\ t.sets = v /\ t.client = site.client
  BY <1>1, <1>2, SiteEdited DEF SiteShape
<1>4. \A i \in Ids(v) : v[i] \subseteq Ids(site.client)
  <2>1. CASE \E i, ms : v = Put(site.sets, i, ms) /\ ms \subseteq Ids(site.client)
    <3>1. PICK i, ms : v = Put(site.sets, i, ms) /\ ms \subseteq Ids(site.client)
      BY <2>1
    <3>2. Ids(v) = Ids(site.sets) \cup {i} /\ v[i] = ms /\ \A j \in Ids(site.sets) \ {i} : v[j] = site.sets[j]
      BY <3>1, PutFacts
    <3> QED  BY <1>1, <3>1, <3>2 DEF NothingDangles
  <2>2. CASE \E i : v = Without(site.sets, i)
    BY <1>1, <2>2, WithoutFacts DEF NothingDangles
  <2> QED  BY <1>2, <2>1, <2>2
<1> QED  BY <1>1, <1>2, <1>3, <1>4, RefsSpared DEF NothingDangles

\* A prune spares the clients a set names.
LEMMA ClientEditRefs ==
    ASSUME SiteInv, HandleSaveClientPolicy \/ UpsertClients \/ PruneClients
    PROVE  NothingDangles'
<1>1. SiteShape /\ NothingDangles
  BY DEF SiteInv, SiteIsWhole
<1>2. PICK v, t : /\ t = [site EXCEPT !.client = v] /\ site' = t
                  /\ UNCHANGED <<wlan, grp, mesh, uplink, dev>>
                  /\ \A m \in Ids(site.client) :
                        m \in Ids(v) \/ \A i \in Ids(site.sets) : m \notin site.sets[i]
  <2>1. CASE HandleSaveClientPolicy
    <3>1. PICK m, c : m \in Ids(site.client) /\ SaveClientPolicy(m, c)
      BY <2>1 DEF HandleSaveClientPolicy
    <3>2. PICK v, t : v = [site.client EXCEPT ![m] = c] /\ t = [site EXCEPT !.client = v]
      OBVIOUS
    <3>3. site' = t /\ UNCHANGED <<wlan, grp, mesh, uplink, dev>>
      BY <3>1, <3>2 DEF SaveClientPolicy, Policy
    <3>4. Ids(v) = Ids(site.client)
      BY <3>2 DEF Ids
    <3> QED  BY <3>2, <3>3, <3>4
  <2>2. CASE UpsertClients
    <3>1. PICK m : site' = IF m \in Ids(site.client) THEN site
                           ELSE [site EXCEPT !.client = Put(@, m, Unlisted)]
      BY <2>2 DEF UpsertClients
    <3>2. UNCHANGED <<wlan, grp, mesh, uplink, dev>>
      BY <2>2 DEF UpsertClients
    <3>3. CASE m \in Ids(site.client)
      <4>1. site = [site EXCEPT !.client = site.client]
        BY <1>1 DEF SiteShape
      <4> QED  BY <3>1, <3>2, <3>3, <4>1
    <3>4. CASE m \notin Ids(site.client)
      <4>1. Ids(Put(site.client, m, Unlisted)) = Ids(site.client) \cup {m}
        BY PutFacts
      <4> QED  BY <3>1, <3>2, <3>4, <4>1
    <3> QED  BY <3>3, <3>4
  <2>3. CASE PruneClients
    <3>1. PICK gone : site' = [site EXCEPT !.client =
                [m \in Ids(site.client) \ {o \in gone : Forgettable(o)} |-> site.client[m]]]
      BY <2>3 DEF PruneClients
    <3>2. UNCHANGED <<wlan, grp, mesh, uplink, dev>>
      BY <2>3 DEF PruneClients
    <3>3. PICK v : v = [m \in Ids(site.client) \ {o \in gone : Forgettable(o)} |-> site.client[m]]
      OBVIOUS
    <3>4. \A m \in Ids(site.client) : m \in Ids(v) \/ Forgettable(m)
      BY <3>3 DEF Ids
    <3> QED  BY <3>1, <3>2, <3>3, <3>4 DEF Forgettable
  <2> QED  BY <2>1, <2>2, <2>3
<1>3. t.net = site.net /\ t.sets = site.sets /\ t.client = v
  BY <1>1, <1>2, SiteEdited DEF SiteShape
<1> QED  BY <1>1, <1>2, <1>3, RefsSpared DEF NothingDangles

LEMMA WLANForm ==
    ASSUME NEW form \in WlanForms, NEW k, NEW r, r = Put(form, "key", k)
    PROVE  r.net = form.net /\ r.grp = form.grp /\ r.keyed = form.keyed /\ r.key = k
<1>1. form \in [net : Nat, grp : Nat, on : BOOLEAN, keyed : BOOLEAN, bridges : BOOLEAN]
  BY SiteAssumption
<1> QED  BY <1>1 DEF Put

LEMMA GroupEditRefs ==
    ASSUME SiteInv, HandleSaveGroup \/ HandleDeleteGroup
    PROVE  NothingDangles'
<1>1. NothingDangles
  BY DEF SiteInv, SiteIsWhole
<1>2. CASE HandleSaveGroup
  <2>1. PICK i, ds : (\A d \in ds : Managed(d)) /\ SaveGroup(i, ds) /\ UNCHANGED dev
    BY <1>2 DEF HandleSaveGroup, SaveGroup, Wireless
  <2>2. grp' = Put(grp, i, ds) /\ UNCHANGED <<site, wlan, mesh, uplink, dev>>
    BY <2>1 DEF SaveGroup, Wireless
  <2>3. Ids(grp') = Ids(grp) \cup {i} /\ grp'[i] = ds /\ \A j \in Ids(grp) \ {i} : grp'[j] = grp[j]
    BY <2>2, PutFacts
  <2>4. ds \subseteq Ids(dev)
    BY <2>1 DEF Managed
  <2>5. \A g \in Ids(grp') : grp'[g] \subseteq Ids(dev)
    BY <1>1, <2>3, <2>4 DEF NothingDangles
  <2> QED  BY <1>1, <2>2, <2>3, <2>5 DEF NothingDangles
<1>3. CASE HandleDeleteGroup
  <2>1. PICK i : DeleteGroup(i) /\ UNCHANGED dev
    BY <1>3 DEF HandleDeleteGroup, DeleteGroup, Wireless
  <2>2. grp' = Without(grp, i) /\ UNCHANGED <<site, wlan, mesh, uplink, dev>>
    BY <2>1 DEF DeleteGroup, Wireless
  <2>3. Ids(grp') = Ids(grp) \ {i} /\ \A j \in Ids(grp') : j \in Ids(grp) /\ grp'[j] = grp[j]
    BY <2>2, WithoutFacts
  <2> QED  BY <1>1, <2>1, <2>2, <2>3 DEF NothingDangles, DeleteGroup
<1> QED  BY <1>2, <1>3

LEMMA WLANEditRefs ==
    ASSUME SiteInv, HandleSaveWLAN \/ HandleDeleteWLAN
    PROVE  NothingDangles'
<1>1. NothingDangles
  BY DEF SiteInv, SiteIsWhole
<1>2. CASE HandleSaveWLAN
  <2>1. PICK w \in Slots(wlan), form \in WlanForms, given \in BOOLEAN : SaveWLAN(w, form, given)
    BY <1>2 DEF HandleSaveWLAN
  <2>2. PICK r : r = Put(form, "key", KeyAfter(w, form, given))
    OBVIOUS
  <2>3. wlan' = Put(wlan, w, r) /\ UNCHANGED <<site, grp, mesh, uplink, dev>>
    BY <2>1, <2>2 DEF SaveWLAN, Wireless
  <2>4. Ids(wlan') = Ids(wlan) \cup {w} /\ wlan'[w] = r /\ \A j \in Ids(wlan) \ {w} : wlan'[j] = wlan[j]
    BY <2>3, PutFacts
  <2>5. r.net \in Ids(site.net) /\ r.grp \in Ids(grp)
    BY <2>1, <2>2, WLANForm DEF SaveWLAN
  <2> QED  BY <1>1, <2>3, <2>4, <2>5 DEF NothingDangles
<1>3. CASE HandleDeleteWLAN
  <2>1. PICK w : DeleteWLAN(w)
    BY <1>3 DEF HandleDeleteWLAN
  <2>2. wlan' = Without(wlan, w) /\ UNCHANGED <<site, grp, mesh, uplink, dev>>
    BY <2>1 DEF DeleteWLAN, Wireless
  <2>3. Ids(wlan') = Ids(wlan) \ {w} /\ \A j \in Ids(wlan') : j \in Ids(wlan) /\ wlan'[j] = wlan[j]
    BY <2>2, WithoutFacts
  <2> QED  BY <1>1, <2>1, <2>2, <2>3 DEF NothingDangles, DeleteWLAN
<1> QED  BY <1>2, <1>3

LEMMA LinkEditRefs ==
    ASSUME SiteInv,
           \/ HandleSaveMesh \/ HandleDeleteMesh
           \/ HandleSaveUplink \/ HandleDeleteUplink \/ HandleSetOverride
    PROVE  NothingDangles'
<1>1. NothingDangles
  BY DEF SiteInv, SiteIsWhole
<1>2. CASE HandleSaveMesh
  <2>1. PICK x \in Slots(mesh), n \in Ids(site.net), g \in Ids(grp),
             key \in {"given", "kept", "cleared"} : SaveMesh(x, n, g, key)
    BY <1>2 DEF HandleSaveMesh
  <2>2. PICK saved : mesh' = Put(mesh, x, saved) /\ saved.net = n /\ saved.grp = g
    BY <2>1 DEF SaveMesh, Wireless
  <2>3. UNCHANGED <<site, wlan, grp, uplink, dev>>
    BY <2>1 DEF SaveMesh, Wireless
  <2>4. Ids(mesh') = Ids(mesh) \cup {x} /\ mesh'[x] = saved /\ \A j \in Ids(mesh) \ {x} : mesh'[j] = mesh[j]
    BY <2>2, PutFacts
  <2> QED  BY <1>1, <2>2, <2>3, <2>4 DEF NothingDangles
<1>3. CASE HandleDeleteMesh
  <2>1. PICK x : mesh' = Without(mesh, x) /\ UNCHANGED <<site, wlan, grp, uplink, dev>>
    BY <1>3 DEF HandleDeleteMesh, Wireless
  <2>2. \A j \in Ids(mesh') : j \in Ids(mesh) /\ mesh'[j] = mesh[j]
    BY <2>1, WithoutFacts
  <2> QED  BY <1>1, <2>1, <2>2 DEF NothingDangles
<1>4. CASE HandleSaveUplink
  <2>1. PICK from, d, w : /\ SaveUplink(from, d, w) /\ Managed(d) /\ w \in Ids(wlan)
    BY <1>4 DEF HandleSaveUplink
  <2>2. uplink' = Put(Without(uplink, from), d, w) /\ UNCHANGED <<site, wlan, grp, mesh, dev>>
    BY <2>1 DEF SaveUplink, Wireless
  <2>3. \A e \in Ids(uplink') : \/ e = d /\ uplink'[e] = w
                                \/ e \in Ids(uplink) /\ uplink'[e] = uplink[e]
    BY <2>2 DEF Ids, Put, Without
  <2>4. d \in Ids(dev)
    BY <2>1 DEF Managed
  <2> QED  BY <1>1, <2>1, <2>2, <2>3, <2>4 DEF NothingDangles
<1>5. CASE HandleDeleteUplink
  <2>1. PICK d : uplink' = Without(uplink, d) /\ UNCHANGED <<site, wlan, grp, mesh, dev>>
    BY <1>5 DEF HandleDeleteUplink, Wireless
  <2>2. \A j \in Ids(uplink') : j \in Ids(uplink) /\ uplink'[j] = uplink[j]
    BY <2>1, WithoutFacts
  <2> QED  BY <1>1, <2>1, <2>2 DEF NothingDangles
<1>6. CASE HandleSetOverride
  <2>1. UNCHANGED <<site, wlan, grp, mesh, uplink, dev>>
    BY <1>6 DEF HandleSetOverride, SetOverride, Wireless
  <2> QED  BY <1>1, <2>1 DEF NothingDangles
<1> QED  BY <1>2, <1>3, <1>4, <1>5, <1>6

\* What a device leaves behind when it is un-adopted refers to it no more.
LEMMA DeviceRefs ==
    ASSUME SiteInv, Adopt \/ Unadopt \/ ObservationAges
    PROVE  NothingDangles'
<1>1. NothingDangles
  BY DEF SiteInv, SiteIsWhole
<1>2. CASE Adopt
  <2>1. PICK d, mode : dev' = Put(dev, d, mode) /\ UNCHANGED <<site, wlan, grp, mesh, uplink>>
    BY <1>2 DEF Adopt
  <2>2. Ids(dev') = Ids(dev) \cup {d}
    BY <2>1, PutFacts
  <2> QED  BY <1>1, <2>1, <2>2 DEF NothingDangles
<1>3. CASE Unadopt
  <2>1. PICK d : /\ dev' = Without(dev, d)
                 /\ grp' = [g \in Ids(grp) |-> grp[g] \ {d}]
                 /\ uplink' = Without(uplink, d)
                 /\ UNCHANGED <<site, wlan, mesh>>
    BY <1>3 DEF Unadopt
  <2>2. Ids(dev') = Ids(dev) \ {d} /\ Ids(uplink') = Ids(uplink) \ {d}
    BY <2>1, WithoutFacts
  <2>3. \A e \in Ids(uplink') : uplink'[e] = uplink[e]
    BY <2>1, WithoutFacts
  <2>4. Ids(grp') = Ids(grp) /\ \A g \in Ids(grp) : grp'[g] = grp[g] \ {d}
    BY <2>1 DEF Ids
  <2>5. \A g \in Ids(grp') : grp'[g] \subseteq Ids(dev')
    BY <1>1, <2>2, <2>4 DEF NothingDangles
  <2> QED  BY <1>1, <2>1, <2>2, <2>3, <2>4, <2>5 DEF NothingDangles
<1>4. CASE ObservationAges
  <2>1. UNCHANGED <<site, wlan, grp, mesh, uplink, dev>>
    BY <1>4 DEF ObservationAges
  <2> QED  BY <1>1, <2>1 DEF NothingDangles
<1> QED  BY <1>2, <1>3, <1>4

-----------------------------------------------------------------------------
\* The edits of the wireless half and what happens beside the edits leave the
\* policy half alone.
LEMMA PolicyHalfKept ==
    ASSUME SiteInv, UNCHANGED site
    PROVE  SiteShape' /\ PoliciesStay'
BY DEF SiteInv, SiteIsWhole, SiteShape, PoliciesStay

LEMMA SiteInit == Fresh => SiteInv
<1> SUFFICES ASSUME Fresh PROVE SiteInv
  OBVIOUS
<1>1. /\ site.net = <<>> /\ site.zone = <<>> /\ site.sets = <<>> /\ site.rule = <<>> /\ site.client = <<>>
      /\ site = [net |-> site.net, zone |-> site.zone, sets |-> site.sets,
                 rule |-> site.rule, client |-> site.client]
  BY DEF Fresh, Empty
<1>2. Ids(<<>>) = {}
  BY DEF Ids
<1>3. SiteShape
  BY <1>1, <1>2, FS_EmptySet DEF SiteShape
<1>4. Labels(site) = {} /\ ActiveZoneNames(site) = {}
  BY <1>1, <1>2 DEF Labels, Active, ActiveZoneNames
<1>5. PoliciesStay
  BY <1>1, <1>2, <1>4 DEF PoliciesStay, ValidateZoneNames, ValidateZonePolicies, ValidatePolicies, ValidatePolicySets
<1>6. NothingDangles
  BY <1>1, <1>2 DEF NothingDangles, Fresh
<1> QED  BY <1>3, <1>5, <1>6 DEF SiteInv, SiteIsWhole

LEMMA SiteStep == SiteInv /\ [SiteNext]_siteVars => SiteInv'
<1> SUFFICES ASSUME SiteInv, [SiteNext]_siteVars
             PROVE  SiteShape' /\ PoliciesStay' /\ NothingDangles'
  BY DEF SiteInv, SiteIsWhole
<1>1. CASE HandleSaveNetwork
  BY <1>1, NetworkSaved, NetworkEditRefs DEF HandleSaveNetwork
<1>2. CASE HandleDeleteNetwork
  BY <1>2, NetworkDeleted, NetworkEditRefs DEF HandleDeleteNetwork
<1>3. CASE HandleSaveZonePolicy \/ HandleDeleteZonePolicy
  BY <1>3, ZonePolicyEdited, PolicyEditRefs
<1>4. CASE HandleSavePolicySet \/ HandleDeletePolicySet
  BY <1>4, PolicySetEdited, PolicySetEditRefs
<1>5. CASE HandleSavePolicy \/ HandleDeletePolicy
  BY <1>5, PolicyEdited, PolicyEditRefs
<1>6. CASE HandleSaveClientPolicy \/ UpsertClients \/ PruneClients
  BY <1>6, ClientsEdited, ClientEditRefs
<1>7. CASE HandleSaveGroup \/ HandleDeleteGroup
  <2>1. UNCHANGED site
    BY <1>7 DEF HandleSaveGroup, HandleDeleteGroup, SaveGroup, DeleteGroup, Wireless
  <2> QED  BY <1>7, <2>1, PolicyHalfKept, GroupEditRefs
<1>8. CASE HandleSaveWLAN \/ HandleDeleteWLAN
  <2>1. UNCHANGED site
    BY <1>8 DEF HandleSaveWLAN, HandleDeleteWLAN, SaveWLAN, DeleteWLAN, Wireless
  <2> QED  BY <1>8, <2>1, PolicyHalfKept, WLANEditRefs
<1>9. CASE \/ HandleSaveMesh \/ HandleDeleteMesh
           \/ HandleSaveUplink \/ HandleDeleteUplink \/ HandleSetOverride
  <2>1. UNCHANGED site
    BY <1>9 DEF HandleSaveMesh, HandleDeleteMesh, HandleSaveUplink, HandleDeleteUplink,
                HandleSetOverride, SaveMesh, SaveUplink, SetOverride, Wireless
  <2> QED  BY <1>9, <2>1, PolicyHalfKept, LinkEditRefs
<1>10. CASE Adopt \/ Unadopt \/ ObservationAges
  <2>1. UNCHANGED site
    BY <1>10 DEF Adopt, Unadopt, ObservationAges
  <2> QED  BY <1>10, <2>1, PolicyHalfKept, DeviceRefs
<1>11. CASE UNCHANGED siteVars
  <2>1. NothingDangles'
    BY <1>11 DEF siteVars, SiteInv, SiteIsWhole, NothingDangles
  <2> QED  BY <1>11, <2>1, PolicyHalfKept DEF siteVars
<1> QED  BY <1>1, <1>2, <1>3, <1>4, <1>5, <1>6, <1>7, <1>8, <1>9, <1>10, <1>11 DEF SiteNext

(* Stored rows keep their shape and the site is whole, after any edits of  *)
(* any networks, rules, sets, groups, clients and devices.                 *)
THEOREM SiteInvariant == SiteSpec => []SiteInv
<1>1. edits = 0 /\ Fresh => SiteInv
  BY SiteInit
<1> QED  BY <1>1, SiteStep, PTL DEF SiteSpec

(* Whatever the operator edits in whatever order, and whatever clients and *)
(* devices come and go beside it, every policy stored passes the checks    *)
(* the renderer relies on and no row refers to one that is gone.           *)
THEOREM SiteStaysWhole == SiteSpec => []SiteIsWhole
<1>1. SiteInv => SiteIsWhole
  BY DEF SiteInv
<1> QED  BY <1>1, SiteInvariant, PTL

(* SaveWLAN, the only writer of a passphrase, keeps one only in a mode that*)
(* uses it.                                                                *)
THEOREM SiteKeysUsed == SiteSpec => []NoDormantKey
<1>1. edits = 0 /\ Fresh => NoDormantKey
  BY DEF Fresh, NoDormantKey, Ids
<1>2. NoDormantKey /\ [SiteNext]_siteVars => NoDormantKey'
  <2> SUFFICES ASSUME NoDormantKey, [SiteNext]_siteVars
               PROVE  NoDormantKey'
    OBVIOUS
  <2>1. CASE HandleSaveWLAN
    <3>1. PICK w \in Slots(wlan), form \in WlanForms, given \in BOOLEAN : SaveWLAN(w, form, given)
      BY <2>1 DEF HandleSaveWLAN
    <3>2. PICK r : r = Put(form, "key", KeyAfter(w, form, given))
      OBVIOUS
    <3>3. wlan' = Put(wlan, w, r)
      BY <3>1, <3>2 DEF SaveWLAN, Wireless
    <3>4. Ids(wlan') = Ids(wlan) \cup {w} /\ wlan'[w] = r /\ \A j \in Ids(wlan) \ {w} : wlan'[j] = wlan[j]
      BY <3>3, PutFacts
    <3>5. r.key => r.keyed
      BY <3>2, WLANForm DEF KeyAfter
    <3> QED  BY <3>4, <3>5 DEF NoDormantKey
  <2>2. CASE HandleDeleteWLAN
    <3>1. PICK w : wlan' = Without(wlan, w)
      BY <2>2 DEF HandleDeleteWLAN, DeleteWLAN, Wireless
    <3>2. \A j \in Ids(wlan') : j \in Ids(wlan) /\ wlan'[j] = wlan[j]
      BY <3>1, WithoutFacts
    <3> QED  BY <3>2 DEF NoDormantKey
  <2>3. CASE UNCHANGED wlan
    BY <2>3 DEF NoDormantKey
  <2>4. HandleSaveWLAN \/ HandleDeleteWLAN \/ UNCHANGED wlan
    BY DEF SiteNext, siteVars, Policy, Wireless,
           HandleSaveNetwork, SaveNetwork, HandleDeleteNetwork, DeleteNetwork,
           HandleSaveZonePolicy, SaveZonePolicy, HandleDeleteZonePolicy, DeleteZonePolicy,
           HandleSavePolicySet, SavePolicySet, HandleDeletePolicySet, DeletePolicySet,
           HandleSavePolicy, SavePolicy, HandleDeletePolicy, DeletePolicy,
           HandleSaveClientPolicy, SaveClientPolicy, HandleSaveGroup, SaveGroup,
           HandleDeleteGroup, DeleteGroup, HandleSaveMesh, SaveMesh, HandleDeleteMesh,
           HandleSaveUplink, SaveUplink, HandleDeleteUplink, HandleSetOverride, SetOverride,
           Adopt, Unadopt, UpsertClients, ObservationAges, PruneClients
  <2> QED  BY <2>1, <2>2, <2>3, <2>4
<1> QED  BY <1>1, <1>2, PTL DEF SiteSpec

-----------------------------------------------------------------------------
(* No state of the site is a trap.                                         *)

\* A rule that is switched off contradicts no other and lets no client through.
LEMMA RuleSwitchedOff ==
    ASSUME SiteInv, NEW p \in Ids(site.rule), site.rule[p].on, MACRule(site.rule[p])
    PROVE  MaySavePolicy(p, [site.rule[p] EXCEPT !.on = FALSE])
<1>1. SiteShape /\ ValidatePolicies(site)
  BY DEF SiteInv, SiteIsWhole, PoliciesStay
<1>2. PICK r, q, t : /\ r = site.rule[p] /\ q = [r EXCEPT !.on = FALSE]
                     /\ t = [site EXCEPT !.rule = Put(site.rule, p, q)]
  OBVIOUS
<1>3. /\ t.net = site.net /\ t.sets = site.sets /\ t.client = site.client
      /\ t.rule = Put(site.rule, p, q)
  BY <1>1, <1>2, SiteEdited DEF SiteShape
<1>4. r.kind = "firewall" /\ DOMAIN r = FirewallFields
  BY <1>1, <1>2 DEF MACRule, SiteShape
<1>5. /\ ~q.on /\ q.kind = r.kind /\ q.src = r.src /\ q.dst = r.dst /\ q.set = r.set /\ q.macs = r.macs
  BY <1>2, <1>4 DEF FirewallFields
<1>6. /\ Ids(t.rule) = Ids(site.rule) \cup {p} /\ t.rule[p] = q
      /\ \A x \in Ids(site.rule) \ {p} : t.rule[x] = site.rule[x]
  BY <1>3, PutFacts
<1>7. SameNets(site, t)
  BY <1>3 DEF SameNets
<1>8. ValidatePolicies(t)
  <2>1. ValidatePolicySets(t)
    BY <1>1, <1>3, PolicyParts DEF ValidatePolicySets
  <2>2. \A x \in Ids(t.rule) : ValidateRule(t, t.rule[x])
    <3>1. SUFFICES ASSUME NEW x \in Ids(t.rule)
                   PROVE  ValidateRule(t, t.rule[x])
      OBVIOUS
    <3>2. ValidateRule(t, site.rule[x]) /\ site.rule[x].kind \in {"firewall", "forward", "route"}
      <4>1. ValidateRule(site, site.rule[x])
        BY <1>1, <1>6, PolicyParts
      <4>2. site.rule[x].kind \in {"firewall", "forward", "route"}
        BY <1>1, <1>6 DEF SiteShape
      <4> QED  BY <1>3, <1>7, <4>1, <4>2, RuleDecides
    <3>3. CASE x = p
      <4>1. ValidateFirewallRule(t, r)
        BY <1>2, <1>4, <3>2, <3>3 DEF ValidateRule
      <4>2. ValidateFirewallRule(t, q)
        BY <1>5, <4>1 DEF ValidateFirewallRule
      <4>3. q.kind = "firewall"
        BY <1>4, <1>5
      <4> QED  BY <1>6, <3>3, <4>2, <4>3 DEF ValidateRule
    <3>4. CASE x # p
      BY <1>6, <3>2, <3>4
    <3> QED  BY <3>3, <3>4
  <2>3. \A x, y \in Ids(t.rule) : x # y => ValidatePair(t.rule[x], t.rule[y])
    <3>1. SUFFICES ASSUME NEW x \in Ids(t.rule), NEW y \in Ids(t.rule), x # y
                   PROVE  ValidatePair(t.rule[x], t.rule[y])
      OBVIOUS
    <3>2. CASE x = p \/ y = p
      BY <1>5, <1>6, <3>2 DEF ValidatePair
    <3>3. CASE x # p /\ y # p
      BY <1>1, <1>6, <3>1, <3>3, PolicyParts
    <3> QED  BY <3>2, <3>3
  <2>4. \A m \in Ids(t.client) : ValidateFixed(t, m)
    <3>1. SUFFICES ASSUME NEW m \in Ids(t.client)
                   PROVE  ValidateFixed(t, m)
      OBVIOUS
    <3>2. ValidateFixed(site, m)
      BY <1>1, <1>3, PolicyParts
    <3>3. \A a : Holding(t, a) = Holding(site, a)
      BY <1>7, NetsDecide
    <3> QED  BY <1>3, <3>2, <3>3 DEF ValidateFixed
  <2>5. \A x \in Ids(t.rule), m \in Ids(t.client) :
           t.client[m].blocked /\ AcceptsForwarded(t.rule[x]) => ~Carries(t, t.rule[x], m)
    <3>1. SUFFICES ASSUME NEW x \in Ids(t.rule), NEW m \in Ids(t.client),
                          t.client[m].blocked, AcceptsForwarded(t.rule[x])
                   PROVE  ~Carries(t, t.rule[x], m)
      OBVIOUS
    <3>2. x # p
      BY <1>5, <1>6, <3>1 DEF AcceptsForwarded
    <3>3. ~Carries(site, site.rule[x], m) /\ t.rule[x] = site.rule[x]
      BY <1>1, <1>3, <1>6, <3>1, <3>2, PolicyParts
    <3> QED  BY <1>3, <3>3 DEF Carries, SourceMACs
  <2> QED  BY <2>1, <2>2, <2>3, <2>4, <2>5, PolicyParts
<1>9. ClearsActiveMACPolicy(p, q)
  BY <1>5 DEF ClearsActiveMACPolicy
<1> QED  BY <1>2, <1>8, <1>9 DEF MaySavePolicy

\* Releasing a client is not held back by the checks the others must pass.
LEMMA ClientReleased ==
    ASSUME SiteShape, NEW m \in Ids(site.client), Enforced(site.client[m])
    PROVE  MaySaveClientPolicy(m, [site.client[m] EXCEPT !.blocked = FALSE, !.fixed = Absent])
<1>1. PICK c, d : c = site.client[m] /\ d = [c EXCEPT !.blocked = FALSE, !.fixed = Absent]
  OBVIOUS
<1>2. c \in ClientRows
  BY <1>1 DEF SiteShape
<1>3. ~d.blocked /\ d.fixed = Absent
  BY <1>1, <1>2 DEF ClientRows
<1>4. ClearsEnforcement(m, d)
  BY <1>3 DEF ClearsEnforcement, Enforced
<1> QED  BY <1>1, <1>4 DEF MaySaveClientPolicy

\* The largest id exists, and a new row goes after it.
LEMMA NextIdAbove ==
    ASSUME NEW t, Ids(t) \subseteq 1..MaxId
    PROVE  NextId(t) \in Nat \ {0} /\ \A i \in Ids(t) : i < NextId(t)
<1>1. MaxId \in Nat
  BY SiteAssumption
<1>2. CASE Ids(t) = {}
  BY <1>2 DEF NextId
<1>3. CASE Ids(t) # {}
  <2>1. \E x \in Ids(t) : \A y \in Ids(t) : x >= y
    <3> DEFINE U == {n \in Nat : \A y \in Ids(t) : y <= n}
    <3>1. U # {} /\ U \subseteq Nat
      BY <1>1
    <3>2. PICK u \in U : \A n \in U : ~ (<<n, u>> \in OpToRel(<, Nat))
      BY <3>1, WFMin, NatLessThanWellFounded
    <3>3. \A n \in U : ~(n < u)
      BY <3>2 DEF OpToRel
    <3>4. u \in Ids(t)
      <4>1. SUFFICES ASSUME u \notin Ids(t)
                     PROVE  FALSE
        OBVIOUS
      <4>2. u \in Nat /\ \A y \in Ids(t) : y <= u
        OBVIOUS
      <4>3. \A y \in Ids(t) : y \in Nat /\ y >= 1 /\ y <= u - 1
        BY <1>1, <4>1, <4>2
      <4>4. u - 1 \in U
        BY <1>3, <4>2, <4>3
      <4> QED  BY <3>3, <4>2, <4>4
    <3> QED  BY <3>4
  <2>2. PICK x : x = Max(Ids(t))
    OBVIOUS
  <2>3. x \in Ids(t) /\ \A y \in Ids(t) : x >= y
    BY <2>1, <2>2 DEF Max
  <2>4. NextId(t) = x + 1
    BY <1>3, <2>2 DEF NextId
  <2> QED  BY <1>1, <2>3, <2>4
<1> QED  BY <1>2, <1>3

\* The zones of the drafts, in some order and each once.
LEMMA ZonesListed ==
    ASSUME NEW S, IsFiniteSet(S), NEW f, f = SetToSeq(S)
    PROVE  /\ f \in [1 .. Cardinality(S) -> S] /\ Len(f) = Cardinality(S) /\ Cardinality(S) \in Nat
           /\ \A z \in S : \E k \in 1 .. Len(f) : f[k] = z
<1>1. Cardinality(S) \in Nat /\ ExistsBijection(1..Cardinality(S), S)
  BY FS_CardinalityType
<1>2. PICK n \in Nat : n = Cardinality(S)
  BY <1>1
<1>3. PICK g : g \in Bijection(1..n, S)
  BY <1>1, <1>2 DEF ExistsBijection
<1>4. g \in [1..n -> S] /\ IsInjective(g)
  BY <1>3 DEF Bijection, Injection
<1>5. f \in [1..n -> S] /\ IsInjective(f)
  BY <1>2, <1>4 DEF SetToSeq
<1>6. f \in Injection(1..n, S)
  BY <1>5 DEF Injection
<1>7. Cardinality(1..n) = n
  BY FS_Interval
<1>8. f \in Surjection(1..n, S)
  BY <1>2, <1>6, <1>7, FS_Injection
<1>9. f \in Seq(S) /\ Len(f) = n
  BY <1>5
<1> QED  BY <1>1, <1>2, <1>5, <1>8, <1>9 DEF Surjection

\* What is valid beside other policies is valid without them, under any id.
LEMMA PoliciesEmbed ==
    ASSUME NEW s, NEW t, NEW f, ValidatePolicies(s),
           t.net = s.net, t.sets = s.sets, t.client = s.client,
           \A x \in Ids(t.rule) : f[x] \in Ids(s.rule) /\ t.rule[x] = s.rule[f[x]],
           \A x, y \in Ids(t.rule) : x # y => f[x] # f[y],
           \A x \in Ids(t.rule) : t.rule[x].kind \in {"firewall", "forward", "route"}
    PROVE  ValidatePolicies(t)
<1>1. SameNets(s, t)
  BY DEF SameNets
<1>2. ValidatePolicySets(t)
  BY PolicyParts DEF ValidatePolicySets
<1>3. \A x \in Ids(t.rule) : ValidateRule(t, t.rule[x])
  <2>1. \A x \in Ids(t.rule) : ValidateRule(s, t.rule[x])
    BY PolicyParts
  <2> QED  BY <1>1, <2>1, RuleDecides
<1>4. \A x, y \in Ids(t.rule) : x # y => ValidatePair(t.rule[x], t.rule[y])
  BY PolicyParts
<1>5. \A m \in Ids(t.client) : ValidateFixed(t, m)
  <2>1. SUFFICES ASSUME NEW m \in Ids(t.client)
                 PROVE  ValidateFixed(t, m)
    OBVIOUS
  <2>2. ValidateFixed(s, m)
    BY PolicyParts
  <2>3. \A a : Holding(t, a) = Holding(s, a)
    BY <1>1, NetsDecide
  <2> QED  BY <2>2, <2>3 DEF ValidateFixed
<1>6. \A x \in Ids(t.rule), m \in Ids(t.client) :
         t.client[m].blocked /\ AcceptsForwarded(t.rule[x]) => ~Carries(t, t.rule[x], m)
  <2>1. SUFFICES ASSUME NEW x \in Ids(t.rule), NEW m \in Ids(t.client),
                        t.client[m].blocked, AcceptsForwarded(t.rule[x])
                 PROVE  ~Carries(t, t.rule[x], m)
    OBVIOUS
  <2>2. ~Carries(s, t.rule[x], m)
    BY <2>1, PolicyParts
  <2> QED  BY <2>2 DEF Carries, SourceMACs
<1> QED  BY <1>2, <1>3, <1>4, <1>5, <1>6, PolicyParts

LEMMA ScopeEmbeds ==
    ASSUME NEW s, NEW t, NEW f, PolicyMACScope(s, {}),
           t.sets = s.sets, t.client = s.client,
           \A x \in Ids(t.rule) : f[x] \in Ids(s.rule) /\ t.rule[x] = s.rule[f[x]]
    PROVE  PolicyMACScope(t, {})
<1>1. EnforcedMACs(t) \subseteq EnforcedMACs(s)
  <2>1. SUFFICES ASSUME NEW m \in EnforcedMACs(t)
                 PROVE  m \in EnforcedMACs(s)
    OBVIOUS
  <2>2. CASE m \in Ids(t.client) /\ Enforced(t.client[m])
    BY <2>2 DEF EnforcedMACs
  <2>3. CASE \E x \in Ids(t.rule) : /\ t.rule[x].on /\ MACRule(t.rule[x])
                                    /\ m \in SourceMACs(t, t.rule[x])
    <3>1. PICK x \in Ids(t.rule) : /\ t.rule[x].on /\ MACRule(t.rule[x])
                                   /\ m \in SourceMACs(t, t.rule[x])
      BY <2>3
    <3>2. /\ f[x] \in Ids(s.rule) /\ s.rule[f[x]].on /\ MACRule(s.rule[f[x]])
          /\ m \in SourceMACs(s, s.rule[f[x]])
      BY <3>1 DEF SourceMACs
    <3> QED  BY <3>2 DEF EnforcedMACs
  <2> QED  BY <2>2, <2>3 DEF EnforcedMACs
<1> QED  BY <1>1 DEF PolicyMACScope, InScope

\* One draft of many is saved as if it were the only one.
LEMMA DraftSaves ==
    ASSUME SiteInv, NEW o, o.kind # "network", NEW dest, CompileObjects(o, dest),
           NEW z \in SourceZones(o)
    PROVE  MaySavePolicy(NextId(site.rule), Draft(o, z, dest))
<1>1. SiteShape
  BY DEF SiteInv
<1>2. PICK S : S = SourceZones(o) /\ z \in S
  OBVIOUS
<1>3. IsFiniteSet(S)
  <2>1. IsFiniteSet(Ids(site.net))
    BY <1>1 DEF SiteShape
  <2>2. IsFiniteSet(Active(site))
    BY <2>1, FS_Subset DEF Active
  <2>3. PICK g : g = [n \in Active(site) |-> site.net[n].zone]
    OBVIOUS
  <2>4. g \in Surjection(Active(site), Labels(site))
    BY <2>3 DEF Surjection, Labels
  <2>5. IsFiniteSet(Labels(site))
    BY <2>2, <2>4, FS_Surjection
  <2>6. S \subseteq Labels(site)
    BY <1>2 DEF SourceZones, ActiveZoneNames
  <2> QED  BY <2>5, <2>6, FS_Subset
<1>4. PICK from : from = SetToSeq(S)
  OBVIOUS
<1>5. Len(from) \in Nat /\ \E k \in 1 .. Len(from) : from[k] = z
  BY <1>2, <1>3, <1>4, ZonesListed
<1>6. PICK k \in 1 .. Len(from) : from[k] = z
  BY <1>5
<1>7. PICK i : i = NextId(site.rule)
  OBVIOUS
<1>8. i \in Nat \ {0} /\ \A p \in Ids(site.rule) : p \in Nat /\ p < i
  BY <1>1, <1>7, NextIdAbove, SiteAssumption DEF SiteShape
<1>9. PICK last \in Nat : last = i - 1
  BY <1>8
<1>10. PICK v, w : /\ v = [p \in Ids(site.rule) \cup (last + 1 .. last + Len(from)) |->
                             IF p > last THEN Draft(o, from[p - last], dest) ELSE site.rule[p]]
                   /\ w = [site EXCEPT !.rule = v]
  OBVIOUS
<1>11. WithDrafts(o, dest) = w
  BY <1>2, <1>4, <1>7, <1>9, <1>10 DEF WithDrafts
<1>12. PICK r, t : r = Draft(o, z, dest) /\ t = [site EXCEPT !.rule = Put(site.rule, i, r)]
  OBVIOUS
<1>13. /\ w.net = site.net /\ w.sets = site.sets /\ w.client = site.client /\ w.rule = v
       /\ t.net = site.net /\ t.sets = site.sets /\ t.client = site.client
       /\ t.rule = Put(site.rule, i, r)
  BY <1>1, <1>10, <1>12, SiteEdited DEF SiteShape
<1>14. /\ Ids(t.rule) = Ids(site.rule) \cup {i} /\ t.rule[i] = r
       /\ \A x \in Ids(site.rule) \ {i} : t.rule[x] = site.rule[x]
  BY <1>13, PutFacts
<1>15. /\ Ids(v) = Ids(site.rule) \cup (last + 1 .. last + Len(from))
       /\ \A p \in Ids(v) : v[p] = IF p > last THEN Draft(o, from[p - last], dest) ELSE site.rule[p]
  BY <1>10 DEF Ids
<1>16. last + k \in Ids(v) /\ v[last + k] = r
  <2>1. last + k \in last + 1 .. last + Len(from) /\ last + k > last /\ last + k - last = k
    BY <1>5
  <2> QED  BY <1>6, <1>12, <1>15, <2>1
<1>17. PICK f : f = [x \in Ids(t.rule) |-> IF x = i THEN last + k ELSE x]
  OBVIOUS
<1>18. \A x \in Ids(site.rule) : x # i /\ ~(x > last) /\ x # last + k
  BY <1>5, <1>8, <1>9
<1>19. \A x \in Ids(t.rule) : f[x] \in Ids(v) /\ t.rule[x] = v[f[x]]
  BY <1>14, <1>15, <1>16, <1>17, <1>18
<1>20. \A x, y \in Ids(t.rule) : x # y => f[x] # f[y]
  BY <1>14, <1>17, <1>18
<1>21. \A x \in Ids(t.rule) : t.rule[x].kind \in {"firewall", "forward", "route"}
  <2>1. r.kind = "firewall"
    BY <1>12 DEF Draft
  <2>2. \A x \in Ids(site.rule) : site.rule[x].kind \in {"firewall", "forward", "route"}
    BY <1>1 DEF SiteShape
  <2> QED  BY <1>14, <1>18, <2>1, <2>2
<1>22. ValidatePolicies(w) /\ PolicyMACScope(w, {})
  BY <1>11 DEF CompileObjects
<1>23. ValidatePolicies(t)
  BY <1>13, <1>19, <1>20, <1>21, <1>22, PoliciesEmbed
<1>24. PolicyMACScope(t, {})
  BY <1>13, <1>19, <1>22, ScopeEmbeds
<1> QED  BY <1>7, <1>12, <1>23, <1>24 DEF MaySavePolicy

(* From every stored site an operator can switch off each rule of clients  *)
(* and release each client, whatever the gateway lost sight of, and can    *)
(* save any one of the drafts the Object Manager hands out.                *)
THEOREM SiteEditsStayPossible == SiteSpec => []EditsStayPossible
<1>1. SiteInv => EditsStayPossible
  <2> SUFFICES ASSUME SiteInv PROVE EditsStayPossible
    OBVIOUS
  <2>1. SiteShape
    BY DEF SiteInv
  <2>2. EnforcementRemovable
    BY <2>1, RuleSwitchedOff, ClientReleased DEF EnforcementRemovable
  <2>3. DraftsSave
    BY DraftSaves DEF DraftsSave
  <2> QED  BY <2>2, <2>3 DEF EditsStayPossible
<1> QED  BY <1>1, SiteInvariant, PTL
=============================================================================
