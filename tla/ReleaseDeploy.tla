--------------------------- MODULE ReleaseDeploy ---------------------------
(***************************************************************************)
(* The release transaction of tools/release_deploy.py: one operator moves  *)
(* a host from its original release to an approved one with prepare, apply *)
(* and verify, or back with abort, rollback and resume.  Every command is  *)
(* a list of steps.  A step leaves a receipt in the transaction directory  *)
(* ("running" before its action, "failed" or "complete" after it), so that *)
(* a command that was cut off is run again from its first step and passes  *)
(* over what is complete.  The checkout lock admits one command at a time  *)
(* (serialized_phase), hence the single tool of this module.               *)
(*                                                                         *)
(* A command may be cut off anywhere: the process dies (Crash), or an      *)
(* exception is raised and handled (Fails).  Either can also leave the     *)
(* action of a step half done on disk (Torn).  Producers, the nightly jobs *)
(* that write the database, run beside the tool whenever the host's timers *)
(* and crontab are active and the tool does not hold the producer locks.   *)
(***************************************************************************)
EXTENDS Integers, Sequences, FiniteSets, Functions

CONSTANTS
    Links,        \* RUNTIME_LINKS, numbered in the order they are switched
    Absent,       \* the links that do not exist on the host before the release
    Migrations,   \* ADAPTERS[adapter_set]: a sequence of migration steps
    NeedApproval, \* the migrations that wait for an approved plan
    Units,        \* the required unit files that the release changes
    MaxWrites,    \* bound: writes the producers make
    MaxFaults     \* bound: crashes, failures and pauses of the commands

None == "none"

\* The tool's own steps, by the names of their receipts; "attempt" has none.
OwnSteps ==
    {"capture-inventory", "quiesce", "predeploy-adapter-check", "create-backup",
     "capture-artifacts", "source-switch", "runtime-switch",
     "install-automation", "requiesce", "publish-snapshot",
     "semantic-verify", "release-producers",
     "abort-semantic-verify", "abort-release-producers",
     "rollback-quiesce", "capture-incident", "restore-source",
     "restore-artifacts", "restore-runtimes", "restore-database",
     "verify-restored-artifacts", "restore-units", "rollback-snapshot",
     "rollback-semantic-verify", "rollback-release-producers",
     "resume-semantic-verify", "resume-autopush"}

\* A migration's receipt is named "migration-" and its id, hence unlike these.
ASSUME ReleaseAssumption ==
    /\ Links \subseteq Nat
    /\ IsFiniteSet(Links)
    /\ Absent \subseteq Links
    /\ Migrations \in Seq(STRING)
    /\ Range(Migrations) \cap (OwnSteps \cup {"attempt"}) = {}
    /\ NeedApproval \subseteq Range(Migrations)
    /\ MaxWrites \in Nat
    /\ MaxFaults \in Nat

VARIABLES
    saved,     \* state.json: phase, and which results the state file holds
    receipts,  \* the status of every step's receipt
    bound,     \* the links the receipt of restore-runtimes is bound to
    tool,      \* the running command, its step and how far the step got
    host,      \* checkout, runtimes, database, units, activation
    vault,     \* what the transaction directory and the snapshots keep
    written,   \* number of writes the producers have made
    faults

vars == <<saved, receipts, bound, tool, host, vault, written, faults>>

----------------------------------------------------------------------------
(* The commands and their steps. *)

Program ==
    [apply    |-> <<"capture-inventory", "quiesce", "predeploy-adapter-check",
                    "create-backup", "capture-artifacts", "source-switch",
                    "runtime-switch">>
                  \o Migrations
                  \o <<"install-automation", "requiesce", "publish-snapshot">>,
     verify   |-> <<"attempt", "semantic-verify", "release-producers">>,
     abort    |-> <<"attempt", "abort-semantic-verify",
                    "abort-release-producers">>,
     rollback |-> <<"rollback-quiesce", "capture-incident", "restore-source",
                    "restore-artifacts", "restore-runtimes",
                    "restore-database", "verify-restored-artifacts",
                    "restore-units", "rollback-snapshot", "attempt",
                    "rollback-semantic-verify", "rollback-release-producers">>,
     resume   |-> <<"attempt", "resume-semantic-verify", "resume-autopush">>]

Commands == DOMAIN Program
Steps == OwnSteps \cup Range(Migrations)

\* The step that starts the producers again at the end of a command.
Activation ==
    [verify   |-> "release-producers",
     abort    |-> "abort-release-producers",
     rollback |-> "rollback-release-producers",
     resume   |-> "resume-autopush"]
Activations == Range(Activation)

QuiesceSteps == {"quiesce", "requiesce", "rollback-quiesce"}
SemanticSteps == {"semantic-verify", "abort-semantic-verify",
                  "rollback-semantic-verify", "resume-semantic-verify"}

\* run_fresh: the receipt is written again although an older one is complete.
FreshStepsWithDatabase ==
    SemanticSteps \cup Activations \cup {"restore-database"}
FreshSteps == SemanticSteps \cup Activations

\* Steps that may adopt a finished effect instead of repeating the action.
\* install-automation is tried too (reconcile_automation) and never adopted:
\* the quiesce of the same command removed the crontab, and an audit that asks
\* for one is not "ok" (_optional_automation_result).  What the attempt records
\* is part of Begin.
Reconcilable == {"capture-artifacts", "source-switch", "runtime-switch",
                 "publish-snapshot", "capture-incident", "rollback-snapshot"}
                \cup Range(Migrations)

\* Steps taken inside producer_locks.
LockedSteps ==
    {"create-backup", "capture-artifacts", "source-switch", "runtime-switch",
     "install-automation", "requiesce", "publish-snapshot", "capture-incident",
     "restore-source", "restore-artifacts", "restore-runtimes",
     "restore-database", "verify-restored-artifacts", "restore-units",
     "rollback-snapshot"} \cup Range(Migrations)

Phases == {None, "preparing", "prepared", "applying",
           "awaiting-migration-approval", "awaiting-optional-units", "applied",
           "verifying", "verified", "rolling-back", "rolled-back", "resuming",
           "resumed", "aborting", "aborted"}

----------------------------------------------------------------------------
(* State. *)

Database == [applied : SUBSET Range(Migrations), writes : SUBSET (1..MaxWrites)]
Image == {{}} \cup {{d} : d \in Database}    \* no copy, or one

StateFile ==
    [phase : Phases, inventory : BOOLEAN, backup : BOOLEAN, manifest : BOOLEAN,
     runtimes : SUBSET Links, recorded : SUBSET Units]
Host ==
    [head : {"original", "approved", "reconciled"}, attached : BOOLEAN,
     live : [Links -> {"prior", "gone", "selected"}],
     identity : [Links -> {None, "incomplete", "written"}],
     generated : {"kept", "reset"}, db : Database,
     units : SUBSET Units,    \* those that are no longer as before the release
     producing : BOOLEAN, autopush : BOOLEAN]
Vault ==
    [backup : Image, image : {None, "unlisted", "listed"}, incident : Image,
     latest : Image,
     published : [{"apply", "rollback"} -> {None, "torn", "whole"}]]

\* The type invariant.  Its last two conjuncts: a command is at one of its
\* steps, or past the last before its final phase is saved; and the state file
\* names no runtime link whose prior identity is not on disk.
TypeOK ==
    /\ saved \in StateFile
    /\ receipts \in [Steps -> {None, "running", "failed", "complete"}]
    /\ bound \in SUBSET Links
    /\ host \in Host
    /\ vault \in Vault
    /\ written \in 0..MaxWrites
    /\ faults \in 0..MaxFaults
    /\ tool \in [cmd : Commands \cup {None}, pos : Nat,
                 stage : {"begin", "act", "acted", "save"}]
    /\ tool.cmd # None => tool.pos \in 1..(Len(Program[tool.cmd]) + 1)
    /\ \A l \in saved.runtimes : host.identity[l] = "written"

Idle == [cmd |-> None, pos |-> 1, stage |-> "begin"]

Init ==
    /\ saved = [phase |-> None, inventory |-> FALSE, backup |-> FALSE,
                manifest |-> FALSE, runtimes |-> {}, recorded |-> {}]
    /\ receipts = [s \in Steps |-> None]
    /\ bound = {}
    /\ tool = Idle
    /\ host = [head |-> "original", attached |-> TRUE,
               live |-> [l \in Links |-> "prior"],
               identity |-> [l \in Links |-> None],
               generated |-> "kept",
               db |-> [applied |-> {}, writes |-> {}],
               units |-> {}, producing |-> TRUE, autopush |-> TRUE]
    /\ vault = [backup |-> {}, image |-> None, incident |-> {},
                latest |-> {[applied |-> {}, writes |-> {}]},
                published |-> [p \in {"apply", "rollback"} |-> None]]
    /\ written = 0
    /\ faults = 0

----------------------------------------------------------------------------
(* Where the tool stands. *)

Finished == tool.pos > Len(Program[tool.cmd])
At(s) == tool.cmd # None /\ ~Finished /\ Program[tool.cmd][tool.pos] = s
AtOneOf(S) ==
    tool.cmd # None /\ ~Finished /\ Program[tool.cmd][tool.pos] \in S
AtStep == AtOneOf(Steps)
Step == Program[tool.cmd][tool.pos]
Acting(s) == At(s) /\ tool.stage = "act"

Start(c) == tool' = [cmd |-> c, pos |-> 1, stage |-> "begin"]
Advance == tool' = [tool EXCEPT !.pos = @ + 1, !.stage = "begin"]
Reach(stage) == tool' = [tool EXCEPT !.stage = stage]
Stop == tool' = Idle

LocksHeld == AtOneOf(LockedSteps)

\* One link, one row of the database or one snapshot of the host or the vault.
Linked(h, l, v) == [h EXCEPT !.live = [@ EXCEPT ![l] = v]]
Identified(h, l, v) == [h EXCEPT !.identity = [@ EXCEPT ![l] = v]]
Migrated(h, m) == [h EXCEPT !.db = [@ EXCEPT !.applied = h.db.applied \cup {m}]]
Wrote(h, w) == [h EXCEPT !.db = [@ EXCEPT !.writes = h.db.writes \cup {w}]]
Published(v, p, st) == [v EXCEPT !.published = [@ EXCEPT ![p] = st]]

First(S) == CHOOSE l \in S : \A k \in S : l <= k

----------------------------------------------------------------------------
(* Commands: which phases admit them.  A refused command changes nothing. *)

\* prepare: preflight, then the private build under its own receipt.  A failed
\* build leaves "preparing", which no command leaves again.
Prepare ==
    /\ tool = Idle
    /\ saved.phase = None
    /\ \E outcome \in {"prepared", "preparing"} :
           saved' = [saved EXCEPT !.phase = outcome]
    /\ UNCHANGED <<receipts, bound, tool, host, vault, written, faults>>

Enter(c, phase) ==
    /\ saved' = [saved EXCEPT !.phase = phase]
    /\ Start(c)
    /\ UNCHANGED <<receipts, bound, host, vault, written, faults>>

\* The source apply expects: by the receipt of the switch.
SourceAsReceipted ==
    host.head \in CASE receipts["source-switch"] = None -> {"original"}
                    [] receipts["source-switch"] = "complete" -> {"approved"}
                    [] OTHER -> {"original", "approved"}

Apply ==
    /\ tool = Idle
    /\ saved.phase \in {"prepared", "applying", "awaiting-migration-approval",
                        "awaiting-optional-units"}
    /\ SourceAsReceipted
    /\ Enter("apply", "applying")

VerifyPhasesWithPause ==
    {"awaiting-migration-approval", "applied", "verifying"}
VerifyPhases == {"applied", "verifying"}

Verify ==
    /\ tool = Idle
    /\ saved.phase \in VerifyPhases
    /\ host.head = "approved"
    /\ Enter("verify", "verifying")

\* Abort is for a transaction that changed activation and nothing else.
Untouched ==
    \A s \in {"create-backup", "source-switch", "runtime-switch",
              "install-automation", "publish-snapshot"} \cup Range(Migrations) :
        receipts[s] = None

Abort ==
    /\ tool = Idle
    /\ saved.phase # "aborted"
    /\ saved.inventory
    /\ receipts["capture-inventory"] = "complete"
    /\ Untouched
    /\ Enter("abort", "aborting")

Rollback ==
    /\ tool = Idle
    /\ receipts["create-backup"] = "complete"
    /\ saved.phase \notin {"resumed", "rolled-back"}
    /\ Enter("rollback", "rolling-back")

\* The operator puts the rolled back checkout on the release branch, at the
\* original commit or at a later, reconciled one.  Assumed of the operator, not
\* enforced: validate_reconciled_source accepts whatever commit of the branch
\* is named, and the branch still points at the approved one after a rollback.
OperatorReconciles ==
    /\ tool = Idle
    /\ saved.phase \in {"rolled-back", "resuming"}
    /\ \E head \in {"original", "reconciled"} :
           host' = [host EXCEPT !.head = head, !.attached = TRUE]
    /\ UNCHANGED <<saved, receipts, bound, tool, vault, written, faults>>

Resume ==
    /\ tool = Idle
    /\ saved.phase \in {"rolled-back", "resuming"}
    /\ host.attached
    /\ Enter("resume", "resuming")

----------------------------------------------------------------------------
(* ReceiptJournal.run and run_fresh around every step. *)

InputsSame(s) ==
    s = "restore-runtimes" /\ receipts[s] # None => bound = saved.runtimes

SwitchedAll ==
    \A l \in Links : host.identity[l] = "written" /\ host.live[l] = "selected"

Purpose(s) == IF s = "publish-snapshot" THEN "apply" ELSE "rollback"

\* The effect of step s is found on the host although its receipt is not
\* complete.
Reconciled(s) ==
    CASE s = "capture-artifacts" -> vault.image # None
      [] s = "source-switch" -> host.head = "approved"
      [] s = "runtime-switch" -> SwitchedAll
      [] s \in Range(Migrations) -> s \in host.db.applied
      [] s = "capture-incident" -> vault.incident # {}
      [] OTHER -> vault.published[Purpose(s)] = "whole"

Skips(s) == receipts[s] = "complete" /\ s \notin FreshSteps \cup QuiesceSteps
Adopts(s) ==
    /\ s \in Reconcilable
    /\ receipts[s] \in {"running", "failed"}
    /\ Reconciled(s)

\* What must still hold of the checkout when a command activates.
SourceValid ==
    CASE tool.cmd = "verify" -> host.head = "approved"
      [] tool.cmd \in {"abort", "rollback"} -> host.head = "original"
      [] OTHER -> host.attached

Skip ==
    /\ AtStep /\ tool.stage = "begin"
    /\ LET s == Step IN
        /\ Skips(s) /\ InputsSame(s)
        /\ Reach("save")
        /\ UNCHANGED <<saved, receipts, bound, host, vault, written, faults>>

Adopt ==
    /\ AtStep /\ tool.stage = "begin"
    /\ LET s == Step IN
        /\ Adopts(s)
        /\ receipts' = [receipts EXCEPT ![s] = "complete"]
        /\ host' = IF s = "source-switch"
                   THEN [host EXCEPT !.generated = "kept"] ELSE host
        /\ vault' = IF s = "capture-artifacts"
                    THEN [vault EXCEPT !.image = "listed"] ELSE vault
        /\ Reach("save")
        /\ UNCHANGED <<saved, bound, written, faults>>

\* The digest of the inputs changed since the receipt was written, or the
\* checkout moved before the activation: the command stops.
Refuse ==
    /\ AtStep /\ tool.stage = "begin"
    /\ LET s == Step IN
        /\ \/ ~InputsSame(s)
           \/ s \in Activations /\ ~SourceValid
           \/ s \in {"publish-snapshot", "rollback-snapshot"}
              /\ receipts[s] # "complete" /\ vault.published[Purpose(s)] = "torn"
        /\ Stop
        /\ UNCHANGED <<saved, receipts, bound, host, vault, written, faults>>

Begin ==
    /\ AtStep /\ tool.stage = "begin"
    /\ LET s == Step IN
        /\ ~Skips(s) /\ ~Adopts(s) /\ InputsSame(s)
        /\ s \in Activations => SourceValid
        /\ s \in {"publish-snapshot", "rollback-snapshot"} =>
               vault.published[Purpose(s)] # "torn"
        /\ receipts' = IF s \in QuiesceSteps /\ receipts[s] = "complete"
                       THEN receipts ELSE [receipts EXCEPT ![s] = "running"]
        /\ bound' = IF s = "restore-runtimes" THEN saved.runtimes ELSE bound
        /\ saved' = IF s = "install-automation" /\ receipts[s] # None
                    THEN [saved EXCEPT !.recorded = host.units] ELSE saved
        /\ Reach("act")
        /\ UNCHANGED <<host, vault, written, faults>>

\* The plan of a migration, or an optional unit that did not start, waits for
\* the operator.
Pause ==
    /\ faults < MaxFaults
    /\ tool.stage = "begin"
    /\ \E s \in Steps, phase \in {"awaiting-migration-approval",
                                  "awaiting-optional-units"} :
           /\ At(s)
           /\ \/ phase = "awaiting-migration-approval"
                 /\ s \in NeedApproval /\ receipts[s] # "complete"
              \/ phase = "awaiting-optional-units" /\ s = "publish-snapshot"
           /\ saved' = [saved EXCEPT !.phase = phase]
    /\ faults' = faults + 1
    /\ Stop
    /\ UNCHANGED <<receipts, bound, host, vault, written>>

Complete ==
    /\ AtStep /\ tool.stage = "acted"
    /\ LET s == Step IN
        /\ receipts' = [receipts EXCEPT ![s] = "complete"]
        /\ Reach("save")
        /\ UNCHANGED <<saved, bound, host, vault, written, faults>>

\* The result of the step goes into the state file.  Capturing the inventory
\* replaces it, and with it the artifact manifest an earlier attempt added.
Save ==
    /\ tool.cmd # None /\ ~Finished /\ tool.stage = "save"
    /\ saved' =
         CASE At("capture-inventory") ->
                [saved EXCEPT !.inventory = TRUE, !.manifest = FALSE]
           [] At("create-backup") -> [saved EXCEPT !.backup = TRUE]
           [] At("capture-artifacts") -> [saved EXCEPT !.manifest = TRUE]
           [] At("runtime-switch") -> [saved EXCEPT !.runtimes = Links]
           [] OTHER -> saved
    /\ Advance
    /\ UNCHANGED <<receipts, bound, host, vault, written, faults>>

\* The command has run its steps: the state file gets its final phase.
Finish ==
    /\ tool.cmd # None /\ Finished
    /\ saved' = [saved EXCEPT !.phase =
           CASE tool.cmd = "apply" -> "applied"
             [] tool.cmd = "verify" -> "verified"
             [] tool.cmd = "abort" -> "aborted"
             [] tool.cmd = "rollback" -> "rolled-back"
             [] tool.cmd = "resume" -> "resumed"]
    /\ Stop
    /\ UNCHANGED <<receipts, bound, host, vault, written, faults>>

----------------------------------------------------------------------------
(* The actions of the steps. *)

Quiet(h) == [h EXCEPT !.producing = FALSE, !.autopush = FALSE]

Observed(step) ==
    /\ Acting(step)
    /\ Reach("acted")
    /\ UNCHANGED <<saved, receipts, bound, host, vault, written, faults>>

CaptureInventory == Observed("capture-inventory")
PredeployAdapterCheck == Observed("predeploy-adapter-check")

Quiesce ==
    /\ \E s \in QuiesceSteps : Acting(s)
    /\ host' = Quiet(host)
    /\ Reach("acted")
    /\ UNCHANGED <<saved, receipts, bound, vault, written, faults>>

\* An earlier attempt to activate may have started producers: stop them.
PrepareActivationAttempt ==
    /\ At("attempt")
    /\ host' = IF receipts[Activation[tool.cmd]] # None THEN Quiet(host)
               ELSE host
    /\ Advance
    /\ UNCHANGED <<saved, receipts, bound, vault, written, faults>>

\* An existing bundle is verified and kept.
CreateBackup ==
    /\ Acting("create-backup")
    /\ vault' = IF vault.backup = {}
                THEN [vault EXCEPT !.backup = {host.db}] ELSE vault
    /\ Reach("acted")
    /\ UNCHANGED <<saved, receipts, bound, host, written, faults>>

CaptureArtifacts ==
    /\ Acting("capture-artifacts")
    /\ vault' = [vault EXCEPT !.image = "listed"]
    /\ Reach("acted")
    /\ UNCHANGED <<saved, receipts, bound, host, written, faults>>

\* Fast-forward to the approved commit, then lay the generated files over it.
SwitchSource ==
    /\ Acting("source-switch")
    /\ host' = [host EXCEPT !.head = "approved", !.generated = "kept"]
    /\ Reach("acted")
    /\ UNCHANGED <<saved, receipts, bound, vault, written, faults>>

\* The links still to do, and for the first of them the next thing to do:
\* write down what was there, save the state, put the prepared one in place.
Unswitched ==
    {l \in Links : ~ /\ host.identity[l] = "written"
                     /\ l \in saved.runtimes
                     /\ host.live[l] = "selected"}

SwitchRuntime ==
    /\ Acting("runtime-switch")
    /\ IF Unswitched = {}
       THEN Reach("acted") /\ UNCHANGED <<saved, host>>
       ELSE LET l == First(Unswitched) IN
            /\ UNCHANGED tool
            /\ CASE host.identity[l] = None ->
                      /\ host' = Identified(host, l, "written")
                      /\ UNCHANGED saved
                 [] host.identity[l] = "written" /\ l \notin saved.runtimes ->
                      /\ saved' = [saved EXCEPT !.runtimes = @ \cup {l}]
                      /\ UNCHANGED host
                 [] host.identity[l] = "written" /\ l \in saved.runtimes ->
                      /\ host' = Linked(host, l, "selected")
                      /\ UNCHANGED saved
                 [] OTHER -> FALSE
    /\ UNCHANGED <<receipts, bound, vault, written, faults>>

ApplyMigration ==
    \E m \in Range(Migrations) :
        /\ Acting(m)
        /\ host' = Migrated(host, m)
        /\ Reach("acted")
        /\ UNCHANGED <<saved, receipts, bound, vault, written, faults>>

\* mutant of RecordedAfter: the changes are recorded before the installer runs
RecordedBefore == host.units

\* The installer writes the unit files, enables and starts them; what it
\* changed is recorded for the rollback afterwards.  (What an earlier attempt
\* changed is recorded before; for a second attempt Begin has done so already.)
RecordedAfter == Units

InstallAutomation ==
    /\ Acting("install-automation")
    /\ host' = [host EXCEPT !.units = Units, !.producing = TRUE]
    /\ saved' = [saved EXCEPT !.recorded = RecordedAfter]
    /\ Reach("acted")
    /\ UNCHANGED <<receipts, bound, vault, written, faults>>

PublishSnapshot ==
    \E s \in {"publish-snapshot", "rollback-snapshot"} :
        /\ Acting(s)
        /\ vault' = Published([vault EXCEPT !.latest = {host.db}], Purpose(s), "whole")
        /\ Reach("acted")
        /\ UNCHANGED <<saved, receipts, bound, host, written, faults>>

\* The readers must run from the runtimes of the release that is to serve.
SemanticHolds ==
    IF tool.cmd = "verify" THEN \A l \in Links : host.live[l] = "selected"
    ELSE \A l \in saved.runtimes : host.live[l] = "prior"

SemanticVerify ==
    /\ \E s \in SemanticSteps : Acting(s)
    /\ SemanticHolds
    /\ Reach("acted")
    /\ UNCHANGED <<saved, receipts, bound, host, vault, written, faults>>

WithAutopush == tool.cmd # "rollback"

ReleaseProducers ==
    /\ \E s \in Activations : Acting(s)
    /\ host' = [host EXCEPT !.producing = TRUE, !.autopush = WithAutopush]
    /\ Reach("acted")
    /\ UNCHANGED <<saved, receipts, bound, vault, written, faults>>

CaptureIncident ==
    /\ Acting("capture-incident")
    /\ vault' = IF vault.incident = {}
                THEN [vault EXCEPT !.incident = {host.db}] ELSE vault
    /\ Reach("acted")
    /\ UNCHANGED <<saved, receipts, bound, host, written, faults>>

RestoreSource ==
    /\ Acting("restore-source")
    /\ host.head \in {"original", "approved"}
    /\ host' = IF host.head = "original" THEN host
               ELSE [host EXCEPT !.head = "original", !.attached = FALSE,
                                 !.generated = "reset"]
    /\ Reach("acted")
    /\ UNCHANGED <<saved, receipts, bound, vault, written, faults>>

ImageUsable == vault.image = "listed" \/ (vault.image # None /\ saved.manifest)

RestoreArtifacts ==
    /\ Acting("restore-artifacts")
    /\ ImageUsable
    /\ host' = [host EXCEPT !.generated = "kept"]
    /\ Reach("acted")
    /\ UNCHANGED <<saved, receipts, bound, vault, written, faults>>

\* The state file is first completed from the identities on disk.
Hydrated == saved.runtimes \cup {l \in Links : host.identity[l] = "written"}
UnrestoredAll == saved.runtimes
Unrestored == {l \in saved.runtimes : host.live[l] # "prior"}

\* A link that is neither restored nor selected stops the command.
MayRestore(l) == host.live[l] = "selected"

RestoreRuntimes ==
    /\ Acting("restore-runtimes")
    /\ CASE Hydrated # saved.runtimes ->
              /\ saved' = [saved EXCEPT !.runtimes = Hydrated]
              /\ UNCHANGED <<host, tool>>
         [] Hydrated = saved.runtimes /\ Unrestored = {} ->
              /\ Reach("acted")
              /\ UNCHANGED <<saved, host>>
         [] OTHER ->
              /\ MayRestore(First(Unrestored))
              /\ host' = Linked(host, First(Unrestored), "prior")
              /\ UNCHANGED <<saved, tool>>
    /\ UNCHANGED <<receipts, bound, vault, written, faults>>

\* The bundle must be the one the state file names.  The snapshots of the
\* abandoned release go to quarantine with the incident.
RestoreDatabase ==
    /\ Acting("restore-database")
    /\ saved.backup
    /\ \E d \in vault.backup : host' = [host EXCEPT !.db = d]
    /\ vault' = Published([vault EXCEPT !.latest = {}], "apply", None)
    /\ Reach("acted")
    /\ UNCHANGED <<saved, receipts, bound, written, faults>>

VerifyArtifacts ==
    /\ Acting("verify-restored-artifacts")
    /\ host.generated = "kept"
    /\ Reach("acted")
    /\ UNCHANGED <<saved, receipts, bound, host, vault, written, faults>>

RestoreUnits ==
    /\ Acting("restore-units")
    /\ host' = [host EXCEPT !.units = @ \ saved.recorded]
    /\ Reach("acted")
    /\ UNCHANGED <<saved, receipts, bound, vault, written, faults>>

----------------------------------------------------------------------------
(* Interruptions. *)

Clean == [host |-> host, vault |-> vault]

\* What a step may leave behind when its action is cut off half way.
Torn ==
    LET onHost(H) == {[host |-> h, vault |-> vault] : h \in H}
        inVault(v) == {[host |-> host, vault |-> v]}
    IN
    CASE Acting("capture-artifacts") ->
           inVault([vault EXCEPT !.image = IF @ = None THEN "unlisted" ELSE @])
      [] Acting("source-switch") ->
           onHost({[host EXCEPT !.head = head, !.generated = "reset"] :
                       head \in {host.head, "approved"}})
      [] Acting("runtime-switch") /\ Unswitched # {} ->
           LET l == First(Unswitched) IN
           CASE host.identity[l] = None ->
                  onHost({Identified(host, l, "incomplete")})
             [] host.identity[l] = "written" /\ l \in saved.runtimes \ Absent ->
                  onHost({Linked(host, l, "gone")})
             [] OTHER -> {}
      [] Acting("install-automation") ->
           onHost({[host EXCEPT !.units = U, !.producing = TRUE] :
                       U \in {V \in SUBSET Units : host.units \subseteq V}})
      [] Acting("publish-snapshot") ->
           inVault(Published(vault, "apply", "torn"))
      [] Acting("rollback-snapshot") ->
           inVault(Published(vault, "rollback", "torn"))
      [] Acting("restore-source") /\ host.head = "approved" ->
           onHost({[host EXCEPT !.generated = "reset"]})
      [] Acting("restore-artifacts") /\ ImageUsable ->
           onHost({[host EXCEPT !.generated = "reset"]})
      [] Acting("restore-runtimes") /\ Hydrated = saved.runtimes
         /\ Unrestored # {} ->
           LET l == First(Unrestored) IN
           onHost({Linked(host, l, "gone") :
                       x \in {l} \cap {k \in Links \ Absent : MayRestore(k)}})
      [] Acting("restore-database") /\ saved.backup ->
           onHost({[host EXCEPT !.db = d] : d \in vault.backup})
      [] OTHER -> {}

\* The process dies.  Nothing is handled; the receipt stays as it was, and of
\* the installer's changes none are recorded but those of earlier attempts.
Crash ==
    /\ tool # Idle
    /\ faults < MaxFaults
    /\ \E e \in {Clean} \cup Torn : host' = e.host /\ vault' = e.vault
    /\ faults' = faults + 1
    /\ Stop
    /\ UNCHANGED <<saved, receipts, bound, written>>

\* The steps after which a failure is answered by stopping the producers.
Compensated ==
    \/ AtOneOf({"install-automation"} \cup Activations)
    \/ tool.cmd \in DOMAIN Activation /\ Finished

\* What an exception makes of the host h: the compensation stops the
\* producers, or fails as well.
Compensation(h) == IF Compensated THEN {Quiet(h), h} ELSE {h}

\* The snapshot publisher removes its half-made files when it raises.
Raised ==
    {Clean} \cup (IF AtOneOf({"publish-snapshot", "rollback-snapshot"}) THEN {}
                  ELSE Torn)

\* An exception is raised: by the action (its receipt says "failed") or by
\* the write of a receipt or of the state file.  The installer's changes are
\* recorded all the same (finally), unless it is the recording that raises, on
\* a unit that is not as the release has it.
Fails ==
    /\ tool # Idle
    /\ faults < MaxFaults
    /\ \E e \in Raised : vault' = e.vault /\ host' \in Compensation(e.host)
    /\ \/ UNCHANGED saved
       \/ /\ Acting("install-automation")
          /\ saved' = [saved EXCEPT !.recorded = host'.units]
    /\ receipts' = [s \in Steps |->
           IF receipts[s] = "complete" THEN "complete"
           ELSE CASE Acting(s) -> "failed"
             [] At("install-automation") /\ s = "requiesce" ->
                    IF host'.producing THEN "failed" ELSE "complete"
             [] OTHER -> receipts[s]]
    /\ faults' = faults + 1
    /\ Stop
    /\ UNCHANGED <<bound, written>>

\* The step's own check fails: a link of unknown kind, a missing image or
\* bundle, a checkout at another commit, readers on the wrong runtime.
CheckFails ==
    /\ \/ Acting("runtime-switch") /\ Unswitched # {}
          /\ host.identity[First(Unswitched)] = "incomplete"
       \/ Acting("restore-source") /\ host.head = "reconciled"
       \/ Acting("restore-artifacts") /\ ~ImageUsable
       \/ Acting("restore-runtimes") /\ Hydrated = saved.runtimes
          /\ Unrestored # {} /\ ~MayRestore(First(Unrestored))
       \/ Acting("restore-database") /\ ~saved.backup
       \/ Acting("verify-restored-artifacts") /\ host.generated # "kept"
       \/ (\E s \in SemanticSteps : Acting(s)) /\ ~SemanticHolds
    /\ receipts' = [s \in Steps |->
           IF Acting(s) THEN "failed" ELSE receipts[s]]
    /\ Stop
    /\ UNCHANGED <<saved, bound, host, vault, written, faults>>

----------------------------------------------------------------------------
(* The nightly producers. *)

ProducerWrites ==
    /\ host.producing /\ ~LocksHeld
    /\ written < MaxWrites
    /\ written' = written + 1
    /\ host' = Wrote(host, written + 1)
    /\ UNCHANGED <<saved, receipts, bound, tool, vault, faults>>

StepAction ==
    \/ CaptureInventory \/ Quiesce \/ PredeployAdapterCheck \/ CreateBackup
    \/ CaptureArtifacts \/ SwitchSource \/ SwitchRuntime \/ ApplyMigration
    \/ InstallAutomation \/ PublishSnapshot \/ SemanticVerify
    \/ ReleaseProducers \/ PrepareActivationAttempt
    \/ CaptureIncident \/ RestoreSource \/ RestoreArtifacts \/ RestoreRuntimes
    \/ RestoreDatabase \/ VerifyArtifacts \/ RestoreUnits

ToolStep ==
    \/ Skip \/ Adopt \/ Refuse \/ Begin \/ Complete \/ Save \/ Finish
    \/ StepAction \/ CheckFails

OperatorStep ==
    \/ Prepare \/ Apply \/ Verify \/ Abort \/ Rollback \/ Resume
    \/ OperatorReconciles

Next == ToolStep \/ OperatorStep \/ Pause \/ Crash \/ Fails \/ ProducerWrites
----------------------------------------------------------------------------
(* Fairness: a running command takes its next step, and the operator runs a *)
(* rollback that was cut off again.                                         *)

RetryRollback == saved.phase = "rolling-back" /\ Rollback

Spec == Init /\ [][Next]_vars /\ WF_vars(ToolStep) /\ WF_vars(RetryRollback)

----------------------------------------------------------------------------
(* Properties. *)

OriginalRelease ==
    /\ host.head # "approved"
    /\ \A l \in Links : host.live[l] = "prior"
    /\ host.db.applied = {}
    /\ host.generated = "kept"

ApprovedRelease ==
    /\ host.head = "approved"
    /\ \A l \in Links : host.live[l] = "selected"
    /\ host.db.applied = Range(Migrations)
    /\ host.generated = "kept"

\* Producers run over one release: whenever timers and crontab are active, the
\* checkout, the runtimes, the database and the generated files all belong to
\* the original release or all to the approved one, whatever command was cut
\* off where, and whichever command the operator ran next; and the autopush
\* job, which commits and pushes from the checkout, never runs on the detached
\* commit that a rollback leaves.
ProducersOnOneRelease ==
    /\ host.producing => OriginalRelease \/ ApprovedRelease
    /\ host.autopush => host.attached

\* Every write a producer made is in the live database or in the incident
\* image a rollback took of it: no retry of a rollback restores the backup
\* over writes that were made after the first restore.
NoWriteLost ==
    1..written = UNION {d.writes : d \in {host.db} \cup vault.incident}

\* The final phases say what is true of the host: an aborted transaction left
\* everything as it was, a verified one serves the approved release with its
\* units and snapshot, a rolled back one the original release.  A rollback puts
\* back every unit file the state file records, and it leaves others only of an
\* installation that never completed: one that was killed before its changes
\* were recorded (receipt "running") or whose recording raised ("failed").
OutcomeTrue ==
    /\ saved.phase = "aborted" =>
           OriginalRelease /\ host.units = {} /\ vault.backup = {}
    /\ saved.phase = "verified" =>
           /\ ApprovedRelease /\ host.units = Units
           /\ \E d \in vault.latest : d.applied = Range(Migrations)
    /\ saved.phase = "rolled-back" =>
           /\ OriginalRelease /\ \E d \in vault.latest : d.applied = {}
           /\ host.units \cap saved.recorded = {}
           /\ receipts["install-automation"] \in {None, "complete"} => host.units = {}

\* The conditions under which a rollback can still be finished by running it
\* again.  Each of the others is a state the code cannot leave: the state file
\* does not name the bundle; no listed image of the generated files; a link cut
\* off between its removal and its replacement; a receipt of restore-runtimes
\* bound to fewer links than the state file has since been given; a rollback
\* snapshot without its pointer; a checkout moved on while resuming.
Recoverable ==
    /\ saved.backup
    /\ ImageUsable
    /\ \A l \in Links : host.live[l] # "gone"
    /\ InputsSame("restore-runtimes")
    /\ vault.published["rollback"] # "torn"
    /\ host.head # "reconciled"

\* A rollback that was begun ends rolled back, with the producers running
\* again, however often it is cut off, unless it becomes unrecoverable.
RollbackCompletes ==
    saved.phase = "rolling-back" ~>
        (saved.phase = "rolled-back" \/ ~Recoverable)
============================================================================
