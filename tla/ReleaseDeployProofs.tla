------------------------- MODULE ReleaseDeployProofs -------------------------
(***************************************************************************)
(* Proofs about ReleaseDeploy: whatever command is cut off wherever, and    *)
(* whichever command the operator runs next, no write of a producer is      *)
(* lost, producers run over one release only, and the final phases describe *)
(* the host, for every set of links, list of migrations and number of       *)
(* faults.  ReleaseInv is the invariant of the first, HostInv of the others.*)
(***************************************************************************)
EXTENDS ReleaseDeploy, SumTheorems, SequenceTheorems

-----------------------------------------------------------------------------
(* The inductive invariant.                                                 *)

WritesOf(image) == UNION {d.writes : d \in image}

Restored == receipts["restore-database"] = "complete"
AllIdentified == \A l \in Links : host.identity[l] = "written"

\* The phase a command saves as it starts.
Phase ==
    [apply |-> "applying", verify |-> "verifying", abort |-> "aborting",
     rollback |-> "rolling-back", resume |-> "resuming"]

\* A rollback is at position p with the stage among those given, or later.
From(p, stages) ==
    /\ tool.cmd = "rollback"
    /\ tool.pos > p \/ (tool.pos = p /\ tool.stage \in stages)

\* What may be relied on where the tool stands.  A rollback stops the
\* producers, takes the incident image and restores the database in this order.
ToolFits ==
    /\ tool.cmd # None => saved.phase = Phase[tool.cmd]
    /\ At("runtime-switch") /\ tool.stage \in {"acted", "save"} => AllIdentified
    /\ tool.cmd = "rollback" => receipts["create-backup"] = "complete"
    /\ From(1, {"acted", "save"}) /\ tool.pos < 7 => ~host.producing
    /\ From(2, {"acted", "save"}) => vault.incident # {}
    /\ tool.cmd = "rollback" /\ tool.pos = 6 /\ tool.stage \in {"act", "acted"} =>
          receipts["restore-database"] = "running"
    /\ From(6, {"save"}) => Restored

Identities == receipts["runtime-switch"] = "complete" => AllIdentified

\* The same facts while no command runs, from the receipts: nothing writes
\* between the incident image and the restored database.
RollbackPhases == {"rolling-back", "rolled-back", "resuming", "resumed"}
RollbackOrder ==
    /\ vault.incident # {} =>
          saved.phase \in RollbackPhases /\ receipts["create-backup"] = "complete"
    /\ Restored \/ receipts["capture-incident"] = "complete" => vault.incident # {}
    /\ saved.phase \in RollbackPhases \ {"rolling-back"} => Restored
    /\ vault.incident # {} /\ ~Restored => ~host.producing

\* The backup is older than the incident image, and what a restore may
\* overwrite is in that image.
Copies ==
    /\ vault.incident = {} => WritesOf(vault.backup) \subseteq host.db.writes
    /\ vault.incident # {} => WritesOf(vault.backup) \subseteq WritesOf(vault.incident)
    /\ vault.incident # {} /\ ~Restored => host.db.writes \subseteq WritesOf(vault.incident)
    /\ 1 .. written = host.db.writes \cup WritesOf(vault.incident)

ReleaseInv == TypeOK /\ ToolFits /\ Identities /\ RollbackOrder /\ Copies
-----------------------------------------------------------------------------
(* The commands as lists.                                                   *)

LEMMA CommandNames ==
  /\ Commands = {"apply", "verify", "abort", "rollback", "resume"}
  /\ None \notin Commands
BY DEF Commands, Program, None

LEMMA MigrationNames ==
  \A m \in Range(Migrations) : m \notin OwnSteps /\ m # "attempt"
BY ReleaseAssumption

\* The list of apply has the migrations in its middle.
ApplySteps ==
  {"capture-inventory", "quiesce", "predeploy-adapter-check", "create-backup",
   "capture-artifacts", "source-switch", "runtime-switch",
   "install-automation", "requiesce", "publish-snapshot"} \cup Range(Migrations)

\* The own steps of apply, before and after the migrations.
ApplyFirst ==
  <<"capture-inventory", "quiesce", "predeploy-adapter-check", "create-backup",
    "capture-artifacts", "source-switch", "runtime-switch">>
ApplyLast == <<"install-automation", "requiesce", "publish-snapshot">>

LEMMA ApplyParts ==
  /\ ApplyFirst \in Seq(ApplySteps) /\ ApplyLast \in Seq(ApplySteps)
  /\ Migrations \in Seq(ApplySteps)
  /\ Program["apply"] = (ApplyFirst \o Migrations) \o ApplyLast
<1>1. ApplyFirst \in Seq(ApplySteps)
  <2>1. /\ "capture-inventory" \in ApplySteps /\ "quiesce" \in ApplySteps
        /\ "predeploy-adapter-check" \in ApplySteps /\ "create-backup" \in ApplySteps
        /\ "capture-artifacts" \in ApplySteps /\ "source-switch" \in ApplySteps
        /\ "runtime-switch" \in ApplySteps
    BY DEF ApplySteps
  <2>2. QED
    BY <2>1 DEF ApplyFirst
<1>2. ApplyLast \in Seq(ApplySteps)
  <2>1. /\ "install-automation" \in ApplySteps /\ "requiesce" \in ApplySteps
        /\ "publish-snapshot" \in ApplySteps
    BY DEF ApplySteps
  <2>2. QED
    BY <2>1 DEF ApplyLast
<1>3. Migrations \in Seq(ApplySteps)
  <2>1. Migrations \in Seq(STRING)
    BY ReleaseAssumption
  <2>2. \A i \in 1 .. Len(Migrations) : Migrations[i] \in ApplySteps
    BY <2>1 DEF ApplySteps, Range
  <2>3. Migrations = [i \in 1 .. Len(Migrations) |-> Migrations[i]] /\ Len(Migrations) \in Nat
    BY <2>1
  <2>4. Migrations \in [1 .. Len(Migrations) -> ApplySteps]
    BY <2>2, <2>3
  <2>5. QED
    BY <2>3, <2>4
<1>4. Program["apply"] = (ApplyFirst \o Migrations) \o ApplyLast
  BY DEF Program, ApplyFirst, ApplyLast
<1>5. QED
  BY <1>1, <1>2, <1>3, <1>4

LEMMA ApplyList ==
  /\ Len(Program["apply"]) \in Nat
  /\ \A p \in 1 .. Len(Program["apply"]) : Program["apply"][p] \in ApplySteps
<1>1. (ApplyFirst \o Migrations) \o ApplyLast \in Seq(ApplySteps)
  BY ApplyParts, ConcatProperties
<1>2. QED
  BY <1>1, ApplyParts

\* Which command a step belongs to, and where the steps of a rollback are.
Placed(c, p, s) ==
  /\ s \in Steps \cup {"attempt"}
  /\ s \in {"create-backup", "capture-artifacts", "source-switch", "runtime-switch",
            "install-automation", "capture-inventory", "quiesce", "requiesce",
            "publish-snapshot"} \cup Range(Migrations) => c = "apply"
  /\ c = "rollback" => p \in 1 .. 12
  /\ s = "rollback-quiesce" <=> c = "rollback" /\ p = 1
  /\ s = "capture-incident" <=> c = "rollback" /\ p = 2
  /\ s = "restore-source" <=> c = "rollback" /\ p = 3
  /\ s = "restore-artifacts" <=> c = "rollback" /\ p = 4
  /\ s = "restore-runtimes" <=> c = "rollback" /\ p = 5
  /\ s = "restore-database" <=> c = "rollback" /\ p = 6
  /\ s = "restore-units" => c = "rollback" /\ p = 8
  /\ s = "attempt" => c # "apply" /\ (c = "rollback" => p = 10)
  /\ s \in SemanticSteps => c # "apply" /\ (c = "rollback" => p = 11)
  /\ s \in Activations => c # "apply" /\ (c = "rollback" => p = 12)

LEMMA Lengths ==
  \A c \in Commands : Len(Program[c]) \in Nat /\ (c = "rollback" => Len(Program[c]) = 12)
BY CommandNames, ApplyList DEF Program

LEMMA ActivationNames ==
  /\ Activations = {"release-producers", "abort-release-producers",
                    "rollback-release-producers", "resume-autopush"}
  /\ \A c \in Commands \ {"apply"} : Activation[c] \in Activations
BY CommandNames DEF Activations, Activation, Range

LEMMA Places ==
  ASSUME NEW c \in Commands, NEW p \in 1 .. Len(Program[c])
  PROVE  Placed(c, p, Program[c][p])
<1> USE ActivationNames DEF Placed, Steps, OwnSteps, SemanticSteps
<1>1. CASE c = "apply"
  <2>1. Program[c][p] \in
          {"capture-inventory", "quiesce", "predeploy-adapter-check",
           "create-backup", "capture-artifacts", "source-switch", "runtime-switch",
           "install-automation", "requiesce", "publish-snapshot"} \cup Range(Migrations)
    BY <1>1, ApplyList DEF ApplySteps
  <2>2. CASE Program[c][p] \in Range(Migrations)
    BY <2>2, <1>1, MigrationNames
  <2>3. QED
    BY <2>1, <2>2, <1>1
<1> DEFINE s == Program[c][p]
<1>2. CASE c = "verify"
  <2>1. s \in {"attempt", "semantic-verify", "release-producers"}
    BY <1>2 DEF Program
  <2>2. s \notin Range(Migrations)
    BY <2>1, MigrationNames
  <2>3. QED
    BY <1>2, <2>1, <2>2
<1>3. CASE c = "abort"
  <2>1. s \in {"attempt", "abort-semantic-verify", "abort-release-producers"}
    BY <1>3 DEF Program
  <2>2. s \notin Range(Migrations)
    BY <2>1, MigrationNames
  <2>3. QED
    BY <1>3, <2>1, <2>2
<1>4. CASE c = "resume"
  <2>1. s \in {"attempt", "resume-semantic-verify", "resume-autopush"}
    BY <1>4 DEF Program
  <2>2. s \notin Range(Migrations)
    BY <2>1, MigrationNames
  <2>3. QED
    BY <1>4, <2>1, <2>2
<1>5. CASE c = "rollback"
  <2>1. p \in 1 .. 12
    BY <1>5 DEF Program
  <2>2. /\ p = 1 => s = "rollback-quiesce"
        /\ p = 2 => s = "capture-incident"
        /\ p = 3 => s = "restore-source"
        /\ p = 4 => s = "restore-artifacts"
        /\ p = 5 => s = "restore-runtimes"
        /\ p = 6 => s = "restore-database"
        /\ p = 7 => s = "verify-restored-artifacts"
        /\ p = 8 => s = "restore-units"
        /\ p = 9 => s = "rollback-snapshot"
        /\ p = 10 => s = "attempt"
        /\ p = 11 => s = "rollback-semantic-verify"
        /\ p = 12 => s = "rollback-release-producers"
    BY <1>5 DEF Program
  <2>3. s \notin Range(Migrations)
    BY <2>1, <2>2, MigrationNames
  <2>4. QED
    BY <1>5, <2>1, <2>2, <2>3
<1>6. QED
  BY <1>1, <1>2, <1>3, <1>4, <1>5, CommandNames

-----------------------------------------------------------------------------
(* The host, the vault and the state file, field by field.                  *)

Heads == {"original", "approved", "reconciled"}

LEMMA HostFields ==
  ASSUME NEW h \in Host
  PROVE  /\ h.head \in Heads /\ h.attached \in BOOLEAN
         /\ h.live \in [Links -> {"prior", "gone", "selected"}]
         /\ h.identity \in [Links -> {None, "incomplete", "written"}]
         /\ h.generated \in {"kept", "reset"} /\ h.db \in Database
         /\ h.units \subseteq Units
         /\ h.producing \in BOOLEAN /\ h.autopush \in BOOLEAN
BY DEF Host, Heads

LEMMA DatabaseFields ==
  ASSUME NEW d \in Database
  PROVE  d.applied \subseteq Range(Migrations) /\ d.writes \subseteq 1 .. MaxWrites
BY DEF Database

LEMMA DatabaseChanges ==
  ASSUME NEW d \in Database
  PROVE  /\ \A m \in Range(Migrations) :
               LET e == [d EXCEPT !.applied = @ \cup {m}]
               IN  e \in Database /\ e.writes = d.writes
         /\ \A w \in 1 .. MaxWrites :
               LET e == [d EXCEPT !.writes = @ \cup {w}]
               IN  e \in Database /\ e.writes = d.writes \cup {w}
<1>1. ASSUME NEW m \in Range(Migrations)
      PROVE  LET e == [d EXCEPT !.applied = @ \cup {m}]
             IN  e \in Database /\ e.writes = d.writes
  <2>1. PICK a : a = d.applied \cup {m}
    OBVIOUS
  <2>2. a \in SUBSET Range(Migrations)
    BY <2>1, DatabaseFields
  <2>3. [d EXCEPT !.applied = @ \cup {m}] = [d EXCEPT !.applied = a]
    BY <2>1
  <2>4. [d EXCEPT !.applied = a] \in Database /\ [d EXCEPT !.applied = a].writes = d.writes
    BY <2>2 DEF Database
  <2>5. QED
    BY <2>3, <2>4
<1>2. ASSUME NEW w \in 1 .. MaxWrites
      PROVE  LET e == [d EXCEPT !.writes = @ \cup {w}]
             IN  e \in Database /\ e.writes = d.writes \cup {w}
  <2>1. PICK a : a = d.writes \cup {w}
    OBVIOUS
  <2>2. a \in SUBSET (1 .. MaxWrites)
    BY <2>1, DatabaseFields
  <2>3. [d EXCEPT !.writes = @ \cup {w}] = [d EXCEPT !.writes = a]
    BY <2>1
  <2>4. [d EXCEPT !.writes = a] \in Database /\ [d EXCEPT !.writes = a].writes = a
    BY <2>2 DEF Database
  <2>5. QED
    BY <2>1, <2>3, <2>4
<1>3. QED
  BY <1>1, <1>2

\* A host of which only what no write depends on has changed.
Calm(h, g) ==
  /\ g \in Host /\ g.db.writes = h.db.writes /\ (g.producing <=> h.producing)
  /\ \A l \in Links : h.identity[l] = "written" => g.identity[l] = "written"

LEMMA CalmChanges ==
  ASSUME NEW h \in Host
  PROVE  /\ Calm(h, h)
         /\ \A v \in Heads, b \in BOOLEAN : Calm(h, [h EXCEPT !.head = v, !.attached = b])
         /\ \A v \in {"kept", "reset"} : Calm(h, [h EXCEPT !.generated = v])
         /\ \A v \in Heads, w \in {"kept", "reset"} :
               Calm(h, [h EXCEPT !.head = v, !.generated = w])
         /\ Calm(h, [h EXCEPT !.head = "original", !.attached = FALSE, !.generated = "reset"])
         /\ \A U \in SUBSET Units : Calm(h, [h EXCEPT !.units = U])
<1> USE HostFields DEF Calm
<1>1. Calm(h, h)
  OBVIOUS
<1>2. ASSUME NEW v \in Heads, NEW b \in BOOLEAN
      PROVE  Calm(h, [h EXCEPT !.head = v, !.attached = b])
  <2>1. [h EXCEPT !.head = v, !.attached = b] \in Host
    BY DEF Host, Heads
  <2>2. QED
    BY <2>1 DEF Host
<1>3. ASSUME NEW v \in {"kept", "reset"} PROVE Calm(h, [h EXCEPT !.generated = v])
  <2>1. [h EXCEPT !.generated = v] \in Host
    BY DEF Host
  <2>2. QED
    BY <2>1 DEF Host
<1>4. ASSUME NEW v \in Heads, NEW w \in {"kept", "reset"}
      PROVE  Calm(h, [h EXCEPT !.head = v, !.generated = w])
  <2>1. [h EXCEPT !.head = v, !.generated = w] \in Host
    BY DEF Host, Heads
  <2>2. QED
    BY <2>1 DEF Host
<1>5. Calm(h, [h EXCEPT !.head = "original", !.attached = FALSE, !.generated = "reset"])
  <2>1. [h EXCEPT !.head = "original", !.attached = FALSE, !.generated = "reset"] \in Host
    BY DEF Host
  <2>2. QED
    BY <2>1 DEF Host
<1>6. ASSUME NEW U \in SUBSET Units PROVE Calm(h, [h EXCEPT !.units = U])
  <2>1. [h EXCEPT !.units = U] \in Host
    BY DEF Host
  <2>2. QED
    BY <2>1 DEF Host
<1>7. QED
  BY <1>1, <1>2, <1>3, <1>4, <1>5, <1>6

LEMMA CalmLinks ==
  ASSUME NEW h \in Host, NEW l \in Links
  PROVE  /\ \A v \in {"prior", "gone", "selected"} : Calm(h, Linked(h, l, v))
         /\ Calm(h, Identified(h, l, "written"))
         /\ h.identity[l] # "written" => Calm(h, Identified(h, l, "incomplete"))
<1>1. ASSUME NEW v \in {"prior", "gone", "selected"} PROVE Calm(h, Linked(h, l, v))
  <2>1. PICK f : f = [h.live EXCEPT ![l] = v]
    OBVIOUS
  <2>2. f \in [Links -> {"prior", "gone", "selected"}]
    BY <2>1, HostFields
  <2>3. Linked(h, l, v) = [h EXCEPT !.live = f]
    BY <2>1 DEF Linked
  <2>4. [h EXCEPT !.live = f] \in Host
    BY <2>2 DEF Host
  <2>5. QED
    BY <2>3, <2>4 DEF Calm, Host
<1>2. ASSUME NEW v \in {"incomplete", "written"}, v = "written" \/ h.identity[l] # "written"
      PROVE  Calm(h, Identified(h, l, v))
  <2>1. PICK f : f = [h.identity EXCEPT ![l] = v]
    OBVIOUS
  <2>2. /\ f \in [Links -> {None, "incomplete", "written"}]
        /\ \A k \in Links : h.identity[k] = "written" => f[k] = "written"
    BY <2>1, <1>2, HostFields
  <2>3. Identified(h, l, v) = [h EXCEPT !.identity = f]
    BY <2>1 DEF Identified
  <2>4. [h EXCEPT !.identity = f] \in Host
    BY <2>2 DEF Host
  <2>5. [h EXCEPT !.identity = f].identity = f
    BY DEF Host
  <2>6. QED
    BY <2>2, <2>3, <2>4, <2>5 DEF Calm, Host
<1>3. QED
  BY <1>1, <1>2

LEMMA CalmMigration ==
  ASSUME NEW h \in Host, NEW m \in Range(Migrations)
  PROVE  Calm(h, Migrated(h, m))
<1>1. PICK d : d = [h.db EXCEPT !.applied = @ \cup {m}]
  OBVIOUS
<1>2. d \in Database /\ d.writes = h.db.writes
  <2>1. PICK x \in Database : x = h.db
    BY HostFields
  <2>2. d = [x EXCEPT !.applied = @ \cup {m}]
    BY <1>1, <2>1
  <2>3. QED
    BY <2>1, <2>2, DatabaseChanges
<1>3. Migrated(h, m) = [h EXCEPT !.db = d]
  BY <1>1 DEF Migrated
<1>4. [h EXCEPT !.db = d] \in Host /\ [h EXCEPT !.db = d].db = d
  BY <1>2 DEF Host
<1>5. QED
  BY <1>2, <1>3, <1>4 DEF Calm, Host

\* A host whose producers were stopped or started.
Switched(h, g, on) ==
  /\ g \in Host /\ g.db = h.db /\ g.identity = h.identity /\ (g.producing <=> on)

LEMMA SwitchedProducers ==
  ASSUME NEW h \in Host
  PROVE  /\ Switched(h, Quiet(h), FALSE)
         /\ \A U \in SUBSET Units :
               Switched(h, [h EXCEPT !.units = U, !.producing = TRUE], TRUE)
         /\ \A b \in BOOLEAN : Switched(h, [h EXCEPT !.producing = TRUE, !.autopush = b], TRUE)
<1>1. Switched(h, Quiet(h), FALSE)
  BY DEF Switched, Quiet, Host
<1>2. ASSUME NEW U \in SUBSET Units
      PROVE  Switched(h, [h EXCEPT !.units = U, !.producing = TRUE], TRUE)
  BY DEF Switched, Host
<1>3. ASSUME NEW b \in BOOLEAN
      PROVE Switched(h, [h EXCEPT !.producing = TRUE, !.autopush = b], TRUE)
  BY DEF Switched, Host
<1>4. QED
  BY <1>1, <1>2, <1>3

\* A host with another database.
Replaced(h, g, d) ==
  /\ g \in Host /\ g.db = d /\ g.identity = h.identity /\ (g.producing <=> h.producing)

LEMMA ReplacedDatabase ==
  ASSUME NEW h \in Host, NEW d \in Database
  PROVE  Replaced(h, [h EXCEPT !.db = d], d)
BY DEF Replaced, Host

LEMMA WroteDatabase ==
  ASSUME NEW h \in Host, NEW w \in 1 .. MaxWrites
  PROVE  \E d \in Database : Replaced(h, Wrote(h, w), d) /\ d.writes = h.db.writes \cup {w}
<1>1. PICK d : d = [h.db EXCEPT !.writes = @ \cup {w}]
  OBVIOUS
<1>2. d \in Database /\ d.writes = h.db.writes \cup {w}
  <2>1. PICK x \in Database : x = h.db
    BY HostFields
  <2>2. d = [x EXCEPT !.writes = @ \cup {w}]
    BY <1>1, <2>1
  <2>3. QED
    BY <2>1, <2>2, DatabaseChanges
<1>3. Wrote(h, w) = [h EXCEPT !.db = d]
  BY <1>1 DEF Wrote
<1>4. QED
  BY <1>2, <1>3, ReplacedDatabase

LEMMA VaultFields ==
  ASSUME NEW v \in Vault
  PROVE  /\ v.backup \in Image /\ v.incident \in Image /\ v.latest \in Image
         /\ v.image \in {None, "unlisted", "listed"}
         /\ v.published \in [{"apply", "rollback"} -> {None, "torn", "whole"}]
BY DEF Vault

LEMMA ImageOf ==
  /\ {} \in Image /\ \A d \in Database : {d} \in Image
  /\ \A i \in Image : \A d \in i : d \in Database
BY DEF Image

\* A vault with the same copies of the database.
Stored(v, w) == w \in Vault /\ w.backup = v.backup /\ w.incident = v.incident

LEMMA StoredChanges ==
  ASSUME NEW v \in Vault
  PROVE  /\ Stored(v, v)
         /\ \A x \in {None, "unlisted", "listed"} : Stored(v, [v EXCEPT !.image = x])
         /\ \A x \in Image : Stored(v, [v EXCEPT !.latest = x])
         /\ \A p \in {"apply", "rollback"}, st \in {None, "torn", "whole"} :
               Stored(v, Published(v, p, st))
<1>1. ASSUME NEW p \in {"apply", "rollback"}, NEW st \in {None, "torn", "whole"}
      PROVE  Stored(v, Published(v, p, st))
  <2>1. PICK f : f = [v.published EXCEPT ![p] = st]
    OBVIOUS
  <2>2. f \in [{"apply", "rollback"} -> {None, "torn", "whole"}]
    BY <2>1, VaultFields
  <2>3. Published(v, p, st) = [v EXCEPT !.published = f]
    BY <2>1 DEF Published
  <2>4. QED
    BY <2>2, <2>3 DEF Stored, Vault
<1>2. \A x \in {None, "unlisted", "listed"} : Stored(v, [v EXCEPT !.image = x])
  BY DEF Stored, Vault
<1>3. \A x \in Image : Stored(v, [v EXCEPT !.latest = x])
  BY DEF Stored, Vault
<1>4. QED
  BY <1>1, <1>2, <1>3 DEF Stored

-----------------------------------------------------------------------------
(* Steps that leave the writes alone.                                       *)

Statuses == {None, "running", "failed", "complete"}

\* The receipts the invariant speaks of.
Watched == {"create-backup", "capture-incident", "restore-database", "runtime-switch"}

LEMMA WatchedSteps == Watched \subseteq Steps
BY DEF Watched, Steps, OwnSteps

LEMMA StateFileChanges ==
  ASSUME NEW f \in StateFile
  PROVE  /\ f.phase \in Phases /\ f.runtimes \subseteq Links /\ f.recorded \subseteq Units
         /\ \A x \in Phases : LET g == [f EXCEPT !.phase = x] IN
               g \in StateFile /\ g.phase = x /\ g.runtimes = f.runtimes
         /\ \A x \in SUBSET Links : LET g == [f EXCEPT !.runtimes = x] IN
               g \in StateFile /\ g.phase = f.phase /\ g.runtimes = x
         /\ \A x \in SUBSET Units : LET g == [f EXCEPT !.recorded = x] IN
               g \in StateFile /\ g.phase = f.phase /\ g.runtimes = f.runtimes
         /\ LET g == [f EXCEPT !.inventory = TRUE, !.manifest = FALSE] IN
               g \in StateFile /\ g.phase = f.phase /\ g.runtimes = f.runtimes
         /\ LET g == [f EXCEPT !.backup = TRUE] IN
               g \in StateFile /\ g.phase = f.phase /\ g.runtimes = f.runtimes
         /\ LET g == [f EXCEPT !.manifest = TRUE] IN
               g \in StateFile /\ g.phase = f.phase /\ g.runtimes = f.runtimes
<1>1. f.phase \in Phases /\ f.runtimes \subseteq Links /\ f.recorded \subseteq Units
  BY DEF StateFile
<1>2. ASSUME NEW x \in Phases PROVE LET g == [f EXCEPT !.phase = x] IN
         g \in StateFile /\ g.phase = x /\ g.runtimes = f.runtimes
  BY DEF StateFile
<1>3. ASSUME NEW x \in SUBSET Links PROVE LET g == [f EXCEPT !.runtimes = x] IN
         g \in StateFile /\ g.phase = f.phase /\ g.runtimes = x
  BY DEF StateFile
<1>4. ASSUME NEW x \in SUBSET Units PROVE LET g == [f EXCEPT !.recorded = x] IN
         g \in StateFile /\ g.phase = f.phase /\ g.runtimes = f.runtimes
  BY DEF StateFile
<1>5. LET g == [f EXCEPT !.inventory = TRUE, !.manifest = FALSE] IN
         g \in StateFile /\ g.phase = f.phase /\ g.runtimes = f.runtimes
  BY DEF StateFile
<1>6. LET g == [f EXCEPT !.backup = TRUE] IN
         g \in StateFile /\ g.phase = f.phase /\ g.runtimes = f.runtimes
  BY DEF StateFile
<1>7. LET g == [f EXCEPT !.manifest = TRUE] IN
         g \in StateFile /\ g.phase = f.phase /\ g.runtimes = f.runtimes
  BY DEF StateFile
<1>8. QED
  BY <1>1, <1>2, <1>3, <1>4, <1>5, <1>6, <1>7

\* Host, vault and state file as the writes see them.
CalmWorld ==
  /\ Calm(host, host') /\ Stored(vault, vault') /\ written' = written
  /\ saved' \in StateFile /\ saved'.phase = saved.phase
  /\ bound' \in SUBSET Links /\ faults' \in 0 .. MaxFaults

KnownRuntimes == saved'.runtimes = saved.runtimes

SameReceipts ==
  /\ receipts' \in [Steps -> Statuses]
  /\ \A s \in Watched : receipts'[s] = receipts[s]

\* The receipts and copies are in order after such a step.
LEMMA StandingCalm ==
  ASSUME ReleaseInv, CalmWorld, SameReceipts
  PROVE  Identities' /\ RollbackOrder' /\ Copies'
<1> USE DEF ReleaseInv, CalmWorld, SameReceipts, Calm, Stored, Watched
<1>1. Identities'
  BY DEF Identities, AllIdentified
<1>2. RollbackOrder'
  BY DEF RollbackOrder, Restored
<1>3. Copies'
  BY DEF Copies, Restored, WritesOf
<1>4. QED
  BY <1>1, <1>2, <1>3

ToolStates == [cmd : Commands \cup {None}, pos : Nat, stage : {"begin", "act", "acted", "save"}]

\* The tool where it stands.
LEMMA ToolTyped ==
  ASSUME TypeOK
  PROVE  /\ tool \in ToolStates
         /\ tool.cmd \in Commands \cup {None} /\ tool.pos \in Nat
         /\ tool.stage \in {"begin", "act", "acted", "save"}
         /\ tool.cmd # None =>
               /\ tool.cmd \in Commands /\ Len(Program[tool.cmd]) \in Nat
               /\ tool.pos \in 1 .. Len(Program[tool.cmd]) + 1
               /\ ~Finished => /\ tool.pos \in 1 .. Len(Program[tool.cmd])
                               /\ Placed(tool.cmd, tool.pos, Program[tool.cmd][tool.pos])
               /\ tool.cmd = "rollback" => tool.pos \in 1 .. 13
<1>1. tool \in ToolStates
  BY DEF TypeOK, ToolStates
<1>2. /\ tool.cmd \in Commands \cup {None} /\ tool.pos \in Nat
      /\ tool.stage \in {"begin", "act", "acted", "save"}
  BY <1>1 DEF ToolStates
<1>3. ASSUME tool.cmd # None
      PROVE  /\ tool.cmd \in Commands /\ Len(Program[tool.cmd]) \in Nat
             /\ tool.pos \in 1 .. Len(Program[tool.cmd]) + 1
             /\ tool.cmd = "rollback" => tool.pos \in 1 .. 13
  <2>1. tool.cmd \in Commands /\ Len(Program[tool.cmd]) \in Nat
    BY <1>2, <1>3, Lengths
  <2>2. tool.pos \in 1 .. Len(Program[tool.cmd]) + 1
    BY <1>3 DEF TypeOK
  <2>3. tool.cmd = "rollback" => Len(Program[tool.cmd]) = 12
    BY <2>1, Lengths
  <2>4. PICK n \in Nat : n = Len(Program[tool.cmd])
    BY <2>1
  <2>5. tool.pos \in 1 .. n + 1 /\ (tool.cmd = "rollback" => n = 12)
    BY <2>2, <2>3, <2>4
  <2>6. tool.cmd = "rollback" => tool.pos \in 1 .. 13
    BY <2>5
  <2>7. QED
    BY <2>1, <2>2, <2>6
<1>4. ASSUME tool.cmd # None, ~Finished
      PROVE  /\ tool.pos \in 1 .. Len(Program[tool.cmd])
             /\ Placed(tool.cmd, tool.pos, Program[tool.cmd][tool.pos])
  <2>1. tool.pos \in 1 .. Len(Program[tool.cmd])
    BY <1>2, <1>3, <1>4 DEF Finished
  <2>2. QED
    BY <1>3, <1>4, <2>1, Places
<1>5. QED
  BY <1>1, <1>2, <1>3, <1>4

\* The command stops: nothing is claimed of where the tool stands.
LEMMA StoppedFits == ASSUME tool' = Idle PROVE ToolFits'
BY DEF Idle, ToolFits, From, At, None

\* What a tool that has moved needs for its type.
LEMMA ToolMoves ==
  ASSUME TypeOK
  PROVE  /\ Stop => tool' \in ToolStates /\ tool'.cmd = None
         /\ \A c \in Commands : Start(c) =>
               /\ tool' \in ToolStates /\ tool'.cmd = c /\ tool'.pos = 1
               /\ tool'.stage = "begin" /\ 1 \in 1 .. Len(Program[c]) + 1
         /\ \A st \in {"begin", "act", "acted", "save"} : Reach(st) =>
               /\ tool' \in ToolStates /\ tool'.cmd = tool.cmd /\ tool'.pos = tool.pos
               /\ tool'.stage = st
         /\ Advance =>
               /\ tool' \in ToolStates /\ tool'.cmd = tool.cmd /\ tool'.pos = tool.pos + 1
               /\ tool'.stage = "begin"
<1>1. tool \in ToolStates
  BY ToolTyped
<1>2. Stop => tool' \in ToolStates /\ tool'.cmd = None
  BY DEF Stop, Idle, ToolStates
<1>3. ASSUME NEW c \in Commands, Start(c)
      PROVE  /\ tool' \in ToolStates /\ tool'.cmd = c /\ tool'.pos = 1
             /\ tool'.stage = "begin" /\ 1 \in 1 .. Len(Program[c]) + 1
  BY <1>3, Lengths DEF Start, ToolStates
<1>4. ASSUME NEW st \in {"begin", "act", "acted", "save"}, Reach(st)
      PROVE  /\ tool' \in ToolStates /\ tool'.cmd = tool.cmd /\ tool'.pos = tool.pos
             /\ tool'.stage = st
  BY <1>1, <1>4 DEF Reach, ToolStates
<1>5. Advance => /\ tool' \in ToolStates /\ tool'.cmd = tool.cmd /\ tool'.pos = tool.pos + 1
                 /\ tool'.stage = "begin"
  <2>1. tool.pos + 1 \in Nat
    BY <1>1 DEF ToolStates
  <2>2. PICK n \in Nat : n = tool.pos + 1
    BY <2>1
  <2>3. Advance => tool' = [tool EXCEPT !.pos = n, !.stage = "begin"]
    BY <2>2 DEF Advance
  <2>4. QED
    BY <1>1, <2>2, <2>3 DEF ToolStates
<1>6. QED
  BY <1>2, <1>3, <1>4, <1>5

\* A tool of its type, on its list.
ToolTypedNext ==
  tool' \in ToolStates /\ (tool'.cmd # None => tool'.pos \in 1 .. Len(Program[tool'.cmd]) + 1)

LEMMA TypedCalm ==
  ASSUME ReleaseInv, CalmWorld, KnownRuntimes, ToolTypedNext, receipts' \in [Steps -> Statuses]
  PROVE  TypeOK'
<1>1. \A l \in saved'.runtimes : host'.identity[l] = "written"
  BY StateFileChanges DEF ReleaseInv, TypeOK, CalmWorld, KnownRuntimes, Calm
<1>2. QED
  BY <1>1 DEF ReleaseInv, TypeOK, CalmWorld, Calm, Stored, ToolTypedNext, ToolStates, Statuses

\* A step of a command whose place is of no interest to the invariant.
LEMMA CalmAct ==
  ASSUME ReleaseInv, CalmWorld, KnownRuntimes, SameReceipts,
         tool.cmd # None, ~Finished, Reach("acted"), tool.stage = "act",
         Step \notin {"rollback-quiesce", "capture-incident", "restore-database", "runtime-switch"}
  PROVE  ReleaseInv'
<1>1. tool' \in ToolStates /\ tool'.cmd = tool.cmd /\ tool'.pos = tool.pos /\ tool'.stage = "acted"
  BY ToolMoves DEF ReleaseInv
<1>2. ToolTypedNext
  BY <1>1, ToolTyped DEF ToolTypedNext, ReleaseInv
<1>3. TypeOK' /\ Identities' /\ RollbackOrder' /\ Copies'
  BY <1>2, TypedCalm, StandingCalm DEF SameReceipts
<1>4. ToolFits'
  <2>1. Placed(tool.cmd, tool.pos, Step)
    BY ToolTyped DEF ReleaseInv, Step
  <2>2. ~At("runtime-switch")'
    BY <1>1 DEF At, Finished, Step
  <2>3. QED
    BY <1>1, <2>1, <2>2, ToolTyped
       DEF ReleaseInv, ToolFits, From, Placed, CalmWorld, Calm, Stored, SameReceipts, Watched, Restored
<1>5. QED
  BY <1>3, <1>4 DEF ReleaseInv

\* A step that stops the command.
LEMMA CalmStop ==
  ASSUME ReleaseInv, CalmWorld, KnownRuntimes, SameReceipts, Stop
  PROVE  ReleaseInv'
<1>1. ToolTypedNext
  BY ToolMoves DEF ReleaseInv, ToolTypedNext
<1>2. QED
  BY <1>1, TypedCalm, StandingCalm, StoppedFits DEF SameReceipts, ReleaseInv, Stop

-----------------------------------------------------------------------------
(* The actions of the steps.                                                *)

\* What the invariant says of the state an action starts in.
LEMMA Typed ==
  ASSUME ReleaseInv
  PROVE  /\ host \in Host /\ vault \in Vault /\ saved \in StateFile
         /\ receipts \in [Steps -> Statuses] /\ bound \in SUBSET Links
         /\ written \in 0 .. MaxWrites /\ faults \in 0 .. MaxFaults
         /\ Calm(host, host) /\ Stored(vault, vault)
<1>1. /\ host \in Host /\ vault \in Vault /\ saved \in StateFile
      /\ receipts \in [Steps -> Statuses] /\ bound \in SUBSET Links
      /\ written \in 0 .. MaxWrites /\ faults \in 0 .. MaxFaults
  BY DEF ReleaseInv, TypeOK, Statuses
<1>2. QED
  BY <1>1, CalmChanges, StoredChanges

LEMMA HeldReceipts == ASSUME ReleaseInv, receipts' = receipts PROVE SameReceipts
BY Typed DEF SameReceipts

LEMMA ActingAt ==
  ASSUME NEW s, Acting(s)
  PROVE  tool.cmd # None /\ ~Finished /\ Step = s /\ tool.stage = "act"
BY DEF Acting, At, Step

LEMMA NotWatched ==
  \A m \in Range(Migrations) :
     m \notin {"rollback-quiesce", "capture-incident", "restore-database", "runtime-switch"}
BY MigrationNames DEF OwnSteps

\* Actions that change nothing a write depends on.
LEMMA CalmActions ==
  ASSUME ReleaseInv,
         \/ CaptureInventory \/ PredeployAdapterCheck \/ CaptureArtifacts \/ SwitchSource
         \/ ApplyMigration \/ PublishSnapshot \/ SemanticVerify \/ RestoreSource
         \/ RestoreArtifacts \/ VerifyArtifacts \/ RestoreUnits
  PROVE  ReleaseInv'
<1> DEFINE Elsewhere == {"rollback-quiesce", "capture-incident", "restore-database",
                         "runtime-switch"}
<1> SUFFICES /\ CalmWorld /\ KnownRuntimes /\ SameReceipts /\ Reach("acted")
             /\ \E s : Acting(s) /\ s \notin Elsewhere
  BY CalmAct, ActingAt
<1> USE Typed, HeldReceipts DEF CalmWorld, KnownRuntimes
<1>1. CASE CaptureInventory
  BY <1>1 DEF CaptureInventory, Observed
<1>2. CASE PredeployAdapterCheck
  BY <1>2 DEF PredeployAdapterCheck, Observed
<1>3. CASE CaptureArtifacts
  <2>1. Stored(vault, [vault EXCEPT !.image = "listed"])
    BY StoredChanges
  <2>2. QED
    BY <1>3, <2>1 DEF CaptureArtifacts
<1>4. CASE SwitchSource
  <2>1. Calm(host, [host EXCEPT !.head = "approved", !.generated = "kept"])
    BY CalmChanges DEF Heads
  <2>2. QED
    BY <1>4, <2>1 DEF SwitchSource
<1>5. CASE ApplyMigration
  BY <1>5, CalmMigration, NotWatched DEF ApplyMigration
<1>6. CASE PublishSnapshot
  <2>1. PICK s \in {"publish-snapshot", "rollback-snapshot"} :
          /\ Acting(s)
          /\ vault' = Published([vault EXCEPT !.latest = {host.db}], Purpose(s), "whole")
    BY <1>6 DEF PublishSnapshot
  <2>2. {host.db} \in Image
    BY HostFields, ImageOf
  <2>3. PICK v \in Vault : v = [vault EXCEPT !.latest = {host.db}] /\ Stored(vault, v)
    BY <2>2, StoredChanges DEF Stored
  <2>4. Purpose(s) \in {"apply", "rollback"}
    BY DEF Purpose
  <2>5. Stored(v, vault')
    BY <2>1, <2>3, <2>4, StoredChanges
  <2>6. Stored(vault, vault')
    BY <2>3, <2>5 DEF Stored
  <2>7. QED
    BY <1>6, <2>1, <2>6 DEF PublishSnapshot
<1>7. CASE SemanticVerify
  BY <1>7 DEF SemanticVerify, SemanticSteps
<1>8. CASE RestoreSource
  <2>1. Calm(host, [host EXCEPT !.head = "original", !.attached = FALSE, !.generated = "reset"])
    BY CalmChanges
  <2>2. Calm(host, host')
    BY <1>8, <2>1 DEF RestoreSource
  <2>3. QED
    BY <1>8, <2>2 DEF RestoreSource
<1>9. CASE RestoreArtifacts
  <2>1. Calm(host, [host EXCEPT !.generated = "kept"])
    BY CalmChanges
  <2>2. QED
    BY <1>9, <2>1 DEF RestoreArtifacts
<1>10. CASE VerifyArtifacts
  BY <1>10 DEF VerifyArtifacts
<1>11. CASE RestoreUnits
  <2>1. PICK U \in SUBSET Units : U = host.units \ saved.recorded
    BY Typed, HostFields
  <2>2. Calm(host, host')
    BY <1>11, <2>1, Typed, CalmChanges DEF RestoreUnits
  <2>3. QED
    BY <1>11, <2>2 DEF RestoreUnits
<1>12. QED
  BY <1>1, <1>2, <1>3, <1>4, <1>5, <1>6, <1>7, <1>8, <1>9, <1>10, <1>11

\* The first of a set of links.
LEMMA FirstOf == ASSUME NEW S \in SUBSET Links, S # {} PROVE First(S) \in S
<1>1. S \in SUBSET Nat
  BY ReleaseAssumption
<1>2. \E l \in S : \A k \in S : l <= k
  BY <1>1, Least
<1>3. QED
  BY <1>2 DEF First

\* A part of an action: the tool stays where it is.
LEMMA CalmStay ==
  ASSUME ReleaseInv, CalmWorld, SameReceipts, tool' = tool,
         \A l \in saved'.runtimes : host'.identity[l] = "written"
  PROVE  ReleaseInv'
<1>1. TypeOK'
  BY Typed DEF ReleaseInv, TypeOK, CalmWorld, Calm, Stored, SameReceipts, Statuses
<1>2. Identities' /\ RollbackOrder' /\ Copies'
  BY StandingCalm
<1>3. ToolFits'
  <2>1. At("runtime-switch")' <=> At("runtime-switch")
    BY DEF At, Finished
  <2>2. QED
    BY <2>1 DEF ReleaseInv, ToolFits, From, AllIdentified, CalmWorld, Calm, Stored,
                SameReceipts, Watched, Restored
<1>4. QED
  BY <1>1, <1>2, <1>3 DEF ReleaseInv

LEMMA RuntimeSwitched == ASSUME ReleaseInv, SwitchRuntime PROVE ReleaseInv'
<1> USE Typed, HeldReceipts
<1>1. Acting("runtime-switch") /\ UNCHANGED <<receipts, bound, vault, written, faults>>
  BY DEF SwitchRuntime
<1>2. CASE Unswitched = {}
  <2>1. Reach("acted") /\ UNCHANGED <<saved, host>>
    BY <1>2 DEF SwitchRuntime
  <2>2. AllIdentified
    BY <1>2 DEF Unswitched, AllIdentified
  <2>3. CalmWorld /\ KnownRuntimes /\ SameReceipts
    BY <1>1, <2>1 DEF CalmWorld, KnownRuntimes
  <2>4. tool' \in ToolStates /\ tool'.cmd = tool.cmd /\ tool'.pos = tool.pos /\ tool'.stage = "acted"
    BY <2>1, ToolMoves DEF ReleaseInv
  <2>5. tool.cmd # None /\ ~Finished /\ Step = "runtime-switch"
    BY <1>1, ActingAt
  <2>6. ToolTypedNext /\ tool.cmd = "apply"
    BY <2>4, <2>5, ToolTyped DEF ToolTypedNext, ReleaseInv, Placed, Step
  <2>7. TypeOK' /\ Identities' /\ RollbackOrder' /\ Copies'
    BY <2>3, <2>6, TypedCalm, StandingCalm DEF SameReceipts
  <2>8. ToolFits'
    BY <2>1, <2>2, <2>4, <2>6, <1>1 DEF ReleaseInv, ToolFits, From, AllIdentified
  <2>9. QED
    BY <2>7, <2>8 DEF ReleaseInv
<1>3. CASE Unswitched # {}
  <2> DEFINE l == First(Unswitched)
  <2>1. l \in Links
    BY <1>3, FirstOf DEF Unswitched
  <2>2. tool' = tool
    BY <1>3 DEF SwitchRuntime
  <2>3. \/ host' = Identified(host, l, "written") /\ saved' = saved
        \/ /\ host.identity[l] = "written" /\ l \notin saved.runtimes
           /\ saved' = [saved EXCEPT !.runtimes = @ \cup {l}] /\ host' = host
        \/ host' = Linked(host, l, "selected") /\ saved' = saved
    BY <1>3 DEF SwitchRuntime
  <2> HIDE DEF l
  <2>4. \A k \in saved.runtimes : host.identity[k] = "written"
    BY DEF ReleaseInv, TypeOK
  <2>5. Calm(host, host')
    BY <2>1, <2>3, CalmLinks
  <2>6. /\ saved' \in StateFile /\ saved'.phase = saved.phase
        /\ \A k \in saved'.runtimes : k \in saved.runtimes \/ host.identity[k] = "written"
    <3>1. CASE saved' = saved
      BY <3>1
    <3>2. CASE saved' = [saved EXCEPT !.runtimes = @ \cup {l}] /\ host.identity[l] = "written"
      <4>1. PICK R \in SUBSET Links : R = saved.runtimes \cup {l}
        BY <2>1, StateFileChanges
      <4>2. saved' = [saved EXCEPT !.runtimes = R]
        BY <3>2, <4>1
      <4>3. saved' \in StateFile /\ saved'.phase = saved.phase /\ saved'.runtimes = R
        BY <4>2, StateFileChanges
      <4>4. QED
        BY <3>2, <4>1, <4>3
    <3>3. QED
      BY <2>3, <3>1, <3>2
  <2>7. \A k \in saved'.runtimes : host'.identity[k] = "written"
    BY <2>4, <2>5, <2>6, StateFileChanges DEF Calm
  <2>8. CalmWorld /\ SameReceipts
    BY <1>1, <2>5, <2>6 DEF CalmWorld
  <2>9. QED
    BY <2>2, <2>7, <2>8, CalmStay
<1>4. QED
  BY <1>2, <1>3

LEMMA RuntimesRestored == ASSUME ReleaseInv, RestoreRuntimes PROVE ReleaseInv'
<1> USE Typed, HeldReceipts
<1>1. Acting("restore-runtimes") /\ UNCHANGED <<receipts, bound, vault, written, faults>>
  BY DEF RestoreRuntimes
<1>2. \A k \in saved.runtimes : host.identity[k] = "written"
  BY DEF ReleaseInv, TypeOK
<1>3. CASE Hydrated # saved.runtimes
  <2>1. saved' = [saved EXCEPT !.runtimes = Hydrated] /\ UNCHANGED <<host, tool>>
    BY <1>3 DEF RestoreRuntimes
  <2>2. Hydrated \in SUBSET Links /\ \A k \in Hydrated : host.identity[k] = "written"
    BY <1>2, StateFileChanges DEF Hydrated
  <2>3. saved' \in StateFile /\ saved'.phase = saved.phase /\ saved'.runtimes = Hydrated
    BY <2>1, <2>2, StateFileChanges
  <2>4. CalmWorld /\ SameReceipts
    BY <1>1, <2>1, <2>3 DEF CalmWorld
  <2>5. QED
    BY <2>1, <2>2, <2>3, <2>4, CalmStay
<1>4. CASE Hydrated = saved.runtimes /\ Unrestored = {}
  <2>1. Reach("acted") /\ UNCHANGED <<saved, host>>
    BY <1>4 DEF RestoreRuntimes
  <2>2. CalmWorld /\ KnownRuntimes /\ SameReceipts
    BY <1>1, <2>1 DEF CalmWorld, KnownRuntimes
  <2>3. QED
    BY <1>1, <2>1, <2>2, CalmAct, ActingAt
<1>5. CASE Hydrated = saved.runtimes /\ Unrestored # {}
  <2>1. host' = Linked(host, First(Unrestored), "prior") /\ UNCHANGED <<saved, tool>>
    BY <1>5 DEF RestoreRuntimes
  <2>2. First(Unrestored) \in Links
    <3>1. Unrestored \in SUBSET Links
      BY StateFileChanges DEF Unrestored
    <3>2. QED
      BY <1>5, <3>1, FirstOf
  <2>3. Calm(host, host')
    BY <2>1, <2>2, CalmLinks
  <2>4. CalmWorld /\ SameReceipts
    BY <1>1, <2>1, <2>3 DEF CalmWorld
  <2>5. QED
    BY <1>2, <2>1, <2>3, <2>4, CalmStay, StateFileChanges DEF Calm
<1>6. QED
  BY <1>3, <1>4, <1>5

-----------------------------------------------------------------------------
(* Steps that start or stop producers, copy or replace the database.        *)

\* Everything but the host's database is as it was, or changed as a calm step
\* may change it.
Around ==
  /\ host' \in Host /\ vault' \in Vault /\ written' = written
  /\ saved' \in StateFile /\ saved'.phase = saved.phase /\ KnownRuntimes
  /\ bound' \in SUBSET Links /\ faults' \in 0 .. MaxFaults
  /\ host'.identity = host.identity

LEMMA TypedAround ==
  ASSUME ReleaseInv, Around, ToolTypedNext, receipts' \in [Steps -> Statuses]
  PROVE  TypeOK'
<1>1. \A l \in saved'.runtimes : host'.identity[l] = "written"
  BY DEF ReleaseInv, TypeOK, Around, KnownRuntimes
<1>2. QED
  BY <1>1 DEF ReleaseInv, TypeOK, Around, ToolTypedNext, ToolStates, Statuses

\* The tool after the action of a step.
LEMMA ActedAt ==
  ASSUME ReleaseInv, NEW s, Acting(s), Reach("acted")
  PROVE  /\ tool.cmd \in Commands /\ tool.stage = "act"
         /\ tool' \in ToolStates /\ tool'.cmd = tool.cmd /\ tool'.pos = tool.pos
         /\ tool'.stage = "acted" /\ tool'.cmd # None
         /\ Placed(tool.cmd, tool.pos, s) /\ (tool.cmd = "rollback" => tool.pos \in 1 .. 12)
         /\ ToolTypedNext /\ (s # "runtime-switch" => ~At("runtime-switch")')
<1>1. tool.cmd # None /\ ~Finished /\ Step = s /\ tool.stage = "act"
  BY ActingAt
<1>2. /\ tool' \in ToolStates /\ tool'.cmd = tool.cmd /\ tool'.pos = tool.pos
      /\ tool'.stage = "acted"
  BY ToolMoves DEF ReleaseInv
<1>3. Placed(tool.cmd, tool.pos, s) /\ tool.cmd \in Commands
  BY <1>1, ToolTyped DEF ReleaseInv, Step
<1>4. ToolTypedNext
  BY <1>1, <1>2, ToolTyped DEF ToolTypedNext, ReleaseInv
<1>5. s # "runtime-switch" => ~At("runtime-switch")'
  BY <1>1, <1>2 DEF At, Finished, Step
<1>6. QED
  BY <1>1, <1>2, <1>3, <1>4, <1>5 DEF Placed

\* Producers are stopped, or started where no restore is to come.
LEMMA StandingSwitched ==
  ASSUME ReleaseInv, NEW on \in BOOLEAN, Switched(host, host', on), Stored(vault, vault'), Around,
         SameReceipts, on => vault.incident = {} \/ Restored
  PROVE  Identities' /\ RollbackOrder' /\ Copies'
<1> USE DEF ReleaseInv, Around, SameReceipts, Switched, Stored, Watched
<1>1. Identities'
  BY DEF Identities, AllIdentified
<1>2. RollbackOrder'
  BY DEF RollbackOrder, Restored
<1>3. Copies'
  BY DEF Copies, Restored, WritesOf
<1>4. QED
  BY <1>1, <1>2, <1>3

LEMMA Quiesced == ASSUME ReleaseInv, Quiesce PROVE ReleaseInv'
<1>1. PICK s \in QuiesceSteps : Acting(s)
  BY DEF Quiesce
<1>2. /\ host' = Quiet(host) /\ Reach("acted")
      /\ UNCHANGED <<saved, receipts, bound, vault, written, faults>>
  BY DEF Quiesce
<1>3. Switched(host, host', FALSE) /\ Around /\ SameReceipts /\ Stored(vault, vault')
  BY <1>2, Typed, SwitchedProducers, HeldReceipts DEF Around, Switched, KnownRuntimes
<1>4. Identities' /\ RollbackOrder' /\ Copies'
  BY <1>3, StandingSwitched
<1>5. TypeOK'
  BY <1>1, <1>2, <1>3, ActedAt, TypedAround DEF SameReceipts
<1>6. ToolFits'
  BY <1>1, <1>2, <1>3, ActedAt
     DEF ReleaseInv, ToolFits, From, Placed, QuiesceSteps, Switched, Restored
<1>7. QED
  BY <1>4, <1>5, <1>6 DEF ReleaseInv

LEMMA AutomationInstalled == ASSUME ReleaseInv, InstallAutomation PROVE ReleaseInv'
<1>1. /\ Acting("install-automation") /\ Reach("acted")
      /\ host' = [host EXCEPT !.units = Units, !.producing = TRUE]
      /\ saved' = [saved EXCEPT !.recorded = Units]
      /\ UNCHANGED <<receipts, bound, vault, written, faults>>
  BY DEF InstallAutomation, RecordedAfter
<1>2. saved' \in StateFile /\ saved'.phase = saved.phase /\ saved'.runtimes = saved.runtimes
  BY <1>1, Typed, StateFileChanges
<1>3. Switched(host, host', TRUE) /\ Around /\ SameReceipts /\ Stored(vault, vault')
  BY <1>1, <1>2, Typed, SwitchedProducers, HeldReceipts DEF Around, Switched, KnownRuntimes
<1>4. tool.cmd = "apply" /\ saved.phase = "applying"
  BY <1>1, ActedAt DEF Placed, ReleaseInv, ToolFits, Phase, None
<1>5. vault.incident = {}
  BY <1>4 DEF ReleaseInv, RollbackOrder, RollbackPhases
<1>6. Identities' /\ RollbackOrder' /\ Copies'
  BY <1>3, <1>5, StandingSwitched
<1>7. TypeOK'
  BY <1>1, <1>3, ActedAt, TypedAround DEF SameReceipts
<1>8. ToolFits'
  BY <1>1, <1>2, <1>4, ActedAt DEF ReleaseInv, ToolFits, From
<1>9. QED
  BY <1>6, <1>7, <1>8 DEF ReleaseInv

LEMMA ProducersReleased == ASSUME ReleaseInv, ReleaseProducers PROVE ReleaseInv'
<1>1. PICK s \in Activations : Acting(s)
  BY DEF ReleaseProducers
<1>2. /\ Reach("acted")
      /\ host' = [host EXCEPT !.producing = TRUE, !.autopush = WithAutopush]
      /\ UNCHANGED <<saved, receipts, bound, vault, written, faults>>
  BY DEF ReleaseProducers
<1>3. Switched(host, host', TRUE)
  BY <1>2, Typed, SwitchedProducers DEF WithAutopush
<1>4. Around /\ SameReceipts /\ Stored(vault, vault')
  BY <1>2, <1>3, Typed, HeldReceipts DEF Around, Switched, KnownRuntimes
<1>5. vault.incident = {} \/ Restored
  <2>1. CASE tool.cmd = "rollback"
    BY <1>1, <1>2, <2>1, ActedAt DEF Placed, ReleaseInv, ToolFits, From
  <2>2. CASE tool.cmd = "resume"
    BY <1>1, <1>2, <2>2, ActedAt
       DEF ReleaseInv, ToolFits, Phase, None, RollbackOrder, RollbackPhases
  <2>3. CASE tool.cmd \in {"apply", "verify", "abort"}
    BY <1>1, <1>2, <2>3, ActedAt
       DEF ReleaseInv, ToolFits, Phase, None, RollbackOrder, RollbackPhases
  <2>4. QED
    BY <1>1, <1>2, <2>1, <2>2, <2>3, ActedAt, CommandNames
<1>6. Identities' /\ RollbackOrder' /\ Copies'
  BY <1>3, <1>4, <1>5, StandingSwitched
<1>7. TypeOK'
  BY <1>1, <1>2, <1>4, ActedAt, TypedAround DEF SameReceipts
<1>8. s # "runtime-switch" /\ (tool.cmd = "rollback" => tool.pos = 12)
  BY <1>1, <1>2, ActedAt, ActivationNames DEF Placed
<1>9. ToolFits'
  BY <1>1, <1>2, <1>8, ActedAt DEF ReleaseInv, ToolFits, From, Restored
<1>10. QED
  BY <1>6, <1>7, <1>9 DEF ReleaseInv

\* Copies of the database.
LEMMA BackupCreated == ASSUME ReleaseInv, CreateBackup PROVE ReleaseInv'
<1>1. /\ Acting("create-backup") /\ Reach("acted")
      /\ vault' = IF vault.backup = {} THEN [vault EXCEPT !.backup = {host.db}] ELSE vault
      /\ UNCHANGED <<saved, receipts, bound, host, written, faults>>
  BY DEF CreateBackup
<1>2. /\ vault' \in Vault /\ vault'.incident = vault.incident
      /\ vault'.backup = vault.backup \/ vault'.backup = {host.db}
  <2>1. {host.db} \in Image
    BY Typed, HostFields, ImageOf
  <2>2. QED
    BY <1>1, <2>1, Typed DEF Vault
<1>3. Around /\ SameReceipts
  BY <1>1, <1>2, Typed, HeldReceipts DEF Around, KnownRuntimes
<1>4. tool.cmd = "apply" /\ saved.phase = "applying"
  BY <1>1, ActedAt DEF Placed, ReleaseInv, ToolFits, Phase, None
<1>5. vault.incident = {}
  BY <1>4 DEF ReleaseInv, RollbackOrder, RollbackPhases
<1>6. Identities' /\ RollbackOrder'
  BY <1>1, <1>2, <1>5 DEF ReleaseInv, Identities, AllIdentified, RollbackOrder, Restored
<1>7. Copies'
  <2>1. WritesOf(vault'.backup) \subseteq host.db.writes
    BY <1>2, <1>5 DEF ReleaseInv, Copies, WritesOf
  <2>2. QED
    BY <1>1, <1>2, <1>5, <2>1 DEF ReleaseInv, Copies, WritesOf
<1>8. TypeOK'
  BY <1>1, <1>3, ActedAt, TypedAround DEF SameReceipts
<1>9. ToolFits'
  BY <1>1, <1>4, ActedAt DEF ReleaseInv, ToolFits, From
<1>10. QED
  BY <1>6, <1>7, <1>8, <1>9 DEF ReleaseInv

LEMMA IncidentCaptured == ASSUME ReleaseInv, CaptureIncident PROVE ReleaseInv'
<1>1. /\ Acting("capture-incident") /\ Reach("acted")
      /\ vault' = IF vault.incident = {} THEN [vault EXCEPT !.incident = {host.db}] ELSE vault
      /\ UNCHANGED <<saved, receipts, bound, host, written, faults>>
  BY DEF CaptureIncident
<1>2. /\ vault' \in Vault /\ vault'.backup = vault.backup
      /\ vault'.incident = IF vault.incident = {} THEN {host.db} ELSE vault.incident
  <2>1. {host.db} \in Image
    BY Typed, HostFields, ImageOf
  <2>2. QED
    BY <1>1, <2>1, Typed DEF Vault
<1>3. Around /\ SameReceipts
  BY <1>1, <1>2, Typed, HeldReceipts DEF Around, KnownRuntimes
<1>4. tool.cmd = "rollback" /\ tool.pos = 2 /\ tool.stage = "act" /\ saved.phase = "rolling-back"
  BY <1>1, ActedAt DEF Placed, ReleaseInv, ToolFits, Phase, None
<1>5. receipts["create-backup"] = "complete" /\ ~host.producing
  BY <1>4 DEF ReleaseInv, ToolFits, From
<1>6. Identities' /\ RollbackOrder'
  BY <1>1, <1>2, <1>4, <1>5
     DEF ReleaseInv, Identities, AllIdentified, RollbackOrder, RollbackPhases, Restored
<1>7. Copies'
  <2>1. CASE vault.incident # {}
    BY <1>1, <1>2, <2>1 DEF ReleaseInv, Copies, WritesOf, Restored
  <2>2. CASE vault.incident = {}
    <3>1. WritesOf(vault'.incident) = host.db.writes /\ WritesOf(vault.incident) = {}
      BY <1>2, <2>2 DEF WritesOf
    <3>2. vault'.incident # {}
      BY <1>2, <2>2
    <3>3. QED
      BY <1>1, <1>2, <2>2, <3>1, <3>2 DEF ReleaseInv, Copies, Restored
  <2>3. QED
    BY <2>1, <2>2
<1>8. TypeOK'
  BY <1>1, <1>3, ActedAt, TypedAround DEF SameReceipts
<1>9. ToolFits'
  BY <1>1, <1>2, <1>4, <1>5, ActedAt DEF ReleaseInv, ToolFits, From, Restored
<1>10. QED
  BY <1>6, <1>7, <1>8, <1>9 DEF ReleaseInv

\* The backup is put in place of a database whose writes are in the incident
\* image, by an action that is finished or by one that is cut off.
LEMMA StandingRestored ==
  ASSUME ReleaseInv, Acting("restore-database"), NEW d \in vault.backup,
         Replaced(host, host', d), Stored(vault, vault'), Around,
         receipts' \in [Steps -> Statuses],
         \A s \in Watched \ {"restore-database"} :
            receipts'[s] = "complete" <=> receipts[s] = "complete",
         receipts'["restore-database"] # "complete"
  PROVE  Identities' /\ RollbackOrder' /\ Copies'
<1>1. tool.cmd # None /\ Placed(tool.cmd, tool.pos, "restore-database") /\ tool.stage = "act"
  BY ActingAt, ToolTyped DEF ReleaseInv, Step
<1>2. tool.cmd = "rollback" /\ tool.pos = 6
  BY <1>1 DEF Placed
<1>3. /\ vault.incident # {} /\ ~host.producing /\ saved.phase = "rolling-back"
      /\ receipts["create-backup"] = "complete" /\ ~Restored
  BY <1>1, <1>2 DEF ReleaseInv, ToolFits, From, Phase, Restored
<1>4. Identities'
  BY DEF ReleaseInv, Identities, AllIdentified, Around, Watched
<1>5. RollbackOrder'
  BY <1>3 DEF ReleaseInv, RollbackOrder, RollbackPhases, Restored, Around, Replaced, Stored, Watched
<1>6. Copies'
  <2>1. d.writes \subseteq WritesOf(vault.backup)
    BY DEF WritesOf
  <2>2. /\ WritesOf(vault.backup) \subseteq WritesOf(vault.incident)
        /\ host.db.writes \subseteq WritesOf(vault.incident)
        /\ 1 .. written = host.db.writes \cup WritesOf(vault.incident)
    BY <1>3 DEF ReleaseInv, Copies
  <2>3. host'.db = d /\ vault'.backup = vault.backup /\ vault'.incident = vault.incident
    BY DEF Replaced, Stored
  <2>4. QED
    BY <1>3, <2>1, <2>2, <2>3 DEF Copies, WritesOf, Around
<1>7. QED
  BY <1>4, <1>5, <1>6

LEMMA BackupTyped == ASSUME ReleaseInv, NEW d \in vault.backup PROVE d \in Database
BY Typed, VaultFields, ImageOf

LEMMA DatabaseRestored == ASSUME ReleaseInv, RestoreDatabase PROVE ReleaseInv'
<1>1. /\ Acting("restore-database") /\ Reach("acted")
      /\ vault' = Published([vault EXCEPT !.latest = {}], "apply", None)
      /\ UNCHANGED <<saved, receipts, bound, written, faults>>
  BY DEF RestoreDatabase
<1>2. PICK d \in vault.backup : host' = [host EXCEPT !.db = d]
  BY DEF RestoreDatabase
<1>3. Replaced(host, host', d)
  BY <1>2, Typed, BackupTyped, ReplacedDatabase
<1>4. Stored(vault, vault')
  <2>1. Stored(vault, [vault EXCEPT !.latest = {}])
    BY Typed, ImageOf, StoredChanges
  <2> DEFINE v == [vault EXCEPT !.latest = {}]
  <2>3. v \in Vault /\ Stored(vault, v) /\ vault' = Published(v, "apply", None)
    BY <1>1, <2>1 DEF Stored
  <2> HIDE DEF v
  <2>2. Stored(v, vault')
    BY <2>3, StoredChanges
  <2>4. QED
    BY <2>2, <2>3 DEF Stored
<1>5. Around /\ receipts' \in [Steps -> Statuses]
  BY <1>1, <1>3, <1>4, Typed DEF Around, KnownRuntimes, Replaced, Stored
<1>6. tool.cmd = "rollback" /\ tool.pos = 6 /\ tool.stage = "act"
  BY <1>1, ActedAt DEF Placed
<1>7. receipts["restore-database"] = "running" /\ vault.incident # {} /\ ~host.producing
  BY <1>6 DEF ReleaseInv, ToolFits, From
<1>8. Identities' /\ RollbackOrder' /\ Copies'
  BY <1>1, <1>3, <1>4, <1>5, <1>7, StandingRestored
<1>9. TypeOK'
  BY <1>1, <1>5, ActedAt, TypedAround
<1>10. ToolFits'
  BY <1>1, <1>3, <1>4, <1>6, <1>7, ActedAt DEF ReleaseInv, ToolFits, From, Replaced, Stored, Restored
<1>11. QED
  BY <1>8, <1>9, <1>10 DEF ReleaseInv

\* A write goes into the live database; no restore is to come that the
\* incident image does not precede.
LEMMA WriteKept == ASSUME ReleaseInv, ProducerWrites PROVE ReleaseInv'
<1>1. /\ host.producing /\ written < MaxWrites /\ written' = written + 1
      /\ host' = Wrote(host, written + 1)
      /\ UNCHANGED <<saved, receipts, bound, tool, vault, faults>>
  BY DEF ProducerWrites
<1>2. written \in Nat /\ MaxWrites \in Nat /\ written + 1 \in 1 .. MaxWrites
  BY <1>1, Typed, ReleaseAssumption
<1>3. PICK d \in Database : Replaced(host, host', d) /\ d.writes = host.db.writes \cup {written + 1}
  BY <1>1, <1>2, Typed, WroteDatabase
<1>4. vault.incident = {} \/ Restored
  BY <1>1 DEF ReleaseInv, RollbackOrder
<1>5. TypeOK'
  BY <1>1, <1>2, <1>3 DEF ReleaseInv, TypeOK, Replaced
<1>6. Identities' /\ RollbackOrder'
  BY <1>1, <1>3, <1>4 DEF ReleaseInv, Identities, AllIdentified, RollbackOrder, Restored, Replaced
<1>7. Copies'
  <2>1. 1 .. written + 1 = (1 .. written) \cup {written + 1}
    BY <1>2
  <2>2. host'.db.writes = host.db.writes \cup {written + 1}
    BY <1>3 DEF Replaced
  <2>3. QED
    BY <1>1, <1>4, <2>1, <2>2 DEF ReleaseInv, Copies, WritesOf, Restored
<1>8. ToolFits'
  <2>1. At("runtime-switch")' <=> At("runtime-switch")
    BY <1>1 DEF At, Finished
  <2>2. QED
    BY <1>1, <1>3, <2>1 DEF ReleaseInv, ToolFits, From, AllIdentified, Replaced, Restored
<1>9. QED
  BY <1>5, <1>6, <1>7, <1>8 DEF ReleaseInv

\* The tool goes on to the next step.
LEMMA AdvancedTo ==
  ASSUME ReleaseInv, tool.cmd # None, ~Finished, Advance
  PROVE  /\ tool.cmd \in Commands /\ tool'.cmd = tool.cmd /\ tool'.pos = tool.pos + 1
         /\ tool'.stage = "begin" /\ ToolTypedNext /\ tool.pos \in Nat
         /\ tool.cmd = "rollback" => tool.pos \in 1 .. 12
<1>1. /\ tool' \in ToolStates /\ tool'.cmd = tool.cmd /\ tool'.pos = tool.pos + 1
      /\ tool'.stage = "begin"
  BY ToolMoves DEF ReleaseInv
<1>2. /\ tool.cmd \in Commands /\ Len(Program[tool.cmd]) \in Nat
      /\ tool.pos \in 1 .. Len(Program[tool.cmd])
      /\ tool.cmd = "rollback" => tool.pos \in 1 .. 12
  BY ToolTyped DEF ReleaseInv, Placed
<1>3. PICK n \in Nat : n = Len(Program[tool.cmd])
  BY <1>2
<1>4. tool.pos + 1 \in 1 .. n + 1 /\ tool.pos \in Nat
  BY <1>2, <1>3
<1>5. ToolTypedNext
  BY <1>1, <1>3, <1>4 DEF ToolTypedNext
<1>6. QED
  BY <1>1, <1>2, <1>4, <1>5

LEMMA ActivationAttempted == ASSUME ReleaseInv, PrepareActivationAttempt PROVE ReleaseInv'
<1>1. /\ At("attempt") /\ Advance
      /\ host' = Quiet(host) \/ host' = host
      /\ UNCHANGED <<saved, receipts, bound, vault, written, faults>>
  BY DEF PrepareActivationAttempt
<1>2. tool.cmd # None /\ ~Finished /\ Step = "attempt"
  BY <1>1 DEF At, Step
<1>3. tool.cmd # "apply" /\ (tool.cmd = "rollback" => tool.pos = 10)
  BY <1>2, ToolTyped DEF ReleaseInv, Placed, Step
<1>4. SameReceipts /\ Around /\ Stored(vault, vault') /\ (host'.producing => host.producing)
  <2>1. SameReceipts /\ Stored(vault, vault')
    BY <1>1, Typed, HeldReceipts
  <2>2. Switched(host, Quiet(host), FALSE)
    BY Typed, SwitchedProducers
  <2>3. host' \in Host /\ host'.identity = host.identity /\ (host'.producing => host.producing)
    BY <1>1, <2>2, Typed DEF Switched
  <2>4. QED
    BY <1>1, <2>1, <2>3, Typed DEF Around, KnownRuntimes
<1>5. Identities' /\ RollbackOrder' /\ Copies'
  <2>1. CASE host' = host
    <3>1. CalmWorld
      BY <1>1, <2>1, Typed DEF CalmWorld
    <3>2. QED
      BY <1>4, <3>1, StandingCalm
  <2>2. CASE host' = Quiet(host)
    BY <1>4, <2>2, Typed, SwitchedProducers, StandingSwitched
  <2>3. QED
    BY <1>1, <2>1, <2>2
<1>6. TypeOK'
  BY <1>1, <1>2, <1>4, AdvancedTo, TypedAround DEF SameReceipts
<1>7. ToolFits'
  <2>1. tool'.cmd = tool.cmd /\ tool'.pos = tool.pos + 1 /\ tool'.stage = "begin" /\ tool.pos \in Nat
    BY <1>1, <1>2, AdvancedTo
  <2>2. QED
    BY <1>1, <1>3, <2>1 DEF ReleaseInv, ToolFits, From, Restored
<1>8. QED
  BY <1>5, <1>6, <1>7 DEF ReleaseInv

LEMMA Saved == ASSUME ReleaseInv, Save PROVE ReleaseInv'
<1>1. /\ tool.cmd # None /\ ~Finished /\ tool.stage = "save" /\ Advance
      /\ UNCHANGED <<receipts, bound, host, vault, written, faults>>
  BY DEF Save
<1>2. \/ saved' = [saved EXCEPT !.inventory = TRUE, !.manifest = FALSE]
      \/ saved' = [saved EXCEPT !.backup = TRUE]
      \/ saved' = [saved EXCEPT !.manifest = TRUE]
      \/ At("runtime-switch") /\ saved' = [saved EXCEPT !.runtimes = Links]
      \/ saved' = saved
  BY DEF Save
<1>3. /\ saved' \in StateFile /\ saved'.phase = saved.phase
      /\ saved'.runtimes = saved.runtimes \/ (At("runtime-switch") /\ saved'.runtimes = Links)
  <2>1. Links \in SUBSET Links
    OBVIOUS
  <2> DEFINE Kept(f) == f \in StateFile /\ f.phase = saved.phase /\ f.runtimes = saved.runtimes
  <2>2. /\ Kept([saved EXCEPT !.inventory = TRUE, !.manifest = FALSE])
        /\ Kept([saved EXCEPT !.backup = TRUE]) /\ Kept([saved EXCEPT !.manifest = TRUE])
        /\ Kept(saved)
    BY Typed, StateFileChanges
  <2>3. LET g == [saved EXCEPT !.runtimes = Links] IN
           g \in StateFile /\ g.phase = saved.phase /\ g.runtimes = Links
    BY <2>1, Typed, StateFileChanges
  <2>4. Kept(saved') \/ (At("runtime-switch") /\ saved' = [saved EXCEPT !.runtimes = Links])
    <3> HIDE DEF Kept
    <3> QED
      BY <1>2, <2>2
  <2>5. QED
    BY <2>3, <2>4
<1>4. \A l \in saved'.runtimes : host.identity[l] = "written"
  BY <1>1, <1>3 DEF ReleaseInv, TypeOK, ToolFits, AllIdentified
<1>5. CalmWorld /\ SameReceipts
  BY <1>1, <1>3, Typed, HeldReceipts DEF CalmWorld
<1>6. Identities' /\ RollbackOrder' /\ Copies'
  BY <1>5, StandingCalm
<1>7. TypeOK'
  BY <1>1, <1>3, <1>4, AdvancedTo DEF ReleaseInv, TypeOK, ToolTypedNext, ToolStates
<1>8. ToolFits'
  <2>1. /\ tool'.cmd = tool.cmd /\ tool'.pos = tool.pos + 1 /\ tool'.stage = "begin"
        /\ tool.pos \in Nat /\ (tool.cmd = "rollback" => tool.pos \in 1 .. 12)
    BY <1>1, AdvancedTo
  <2>2. QED
    BY <1>1, <1>3, <2>1 DEF ReleaseInv, ToolFits, From, Restored
<1>9. QED
  BY <1>6, <1>7, <1>8 DEF ReleaseInv

-----------------------------------------------------------------------------
(* Receipts.                                                                *)

\* Receipts that still say what is true.
FairReceipts ==
  /\ receipts' \in [Steps -> Statuses]
  /\ Restored => receipts'["restore-database"] = "complete"
  /\ receipts["create-backup"] = "complete" => receipts'["create-backup"] = "complete"
  /\ receipts'["restore-database"] = "complete" \/ receipts'["capture-incident"] = "complete"
     => vault.incident # {}
  /\ receipts'["runtime-switch"] = "complete" => AllIdentified

LEMMA StandingFair ==
  ASSUME ReleaseInv, CalmWorld, FairReceipts
  PROVE  Identities' /\ RollbackOrder' /\ Copies'
<1> USE DEF ReleaseInv, CalmWorld, FairReceipts, Calm, Stored
<1>1. Identities'
  BY DEF Identities, AllIdentified
<1>2. RollbackOrder'
  BY DEF RollbackOrder, Restored
<1>3. Copies'
  BY DEF Copies, Restored, WritesOf
<1>4. QED
  BY <1>1, <1>2, <1>3

\* The tool changes stage at a step.
LEMMA StageAt ==
  ASSUME ReleaseInv, AtStep, NEW st \in {"act", "save"}, Reach(st)
  PROVE  /\ tool.cmd \in Commands /\ tool.cmd # None /\ Step \in Steps
         /\ tool' \in ToolStates /\ tool'.cmd = tool.cmd /\ tool'.pos = tool.pos
         /\ tool'.stage = st /\ ToolTypedNext
         /\ Placed(tool.cmd, tool.pos, Step) /\ (tool.cmd = "rollback" => tool.pos \in 1 .. 12)
         /\ At("runtime-switch")' <=> Step = "runtime-switch"
<1>1. tool.cmd # None /\ ~Finished /\ Step \in Steps
  BY DEF AtStep, AtOneOf, Step
<1>2. tool' \in ToolStates /\ tool'.cmd = tool.cmd /\ tool'.pos = tool.pos /\ tool'.stage = st
  BY ToolMoves DEF ReleaseInv
<1>3. Placed(tool.cmd, tool.pos, Step) /\ tool.cmd \in Commands
  BY <1>1, ToolTyped DEF ReleaseInv, Step
<1>4. ToolTypedNext
  BY <1>1, <1>2, ToolTyped DEF ToolTypedNext, ReleaseInv
<1>5. At("runtime-switch")' <=> Step = "runtime-switch"
  BY <1>1, <1>2 DEF At, Finished, Step
<1>6. QED
  BY <1>1, <1>2, <1>3, <1>4, <1>5 DEF Placed

LEMMA Skipped == ASSUME ReleaseInv, Skip PROVE ReleaseInv'
<1>1. /\ AtStep /\ tool.stage = "begin" /\ Skips(Step) /\ Reach("save")
      /\ UNCHANGED <<saved, receipts, bound, host, vault, written, faults>>
  BY DEF Skip
<1>2. CalmWorld /\ KnownRuntimes /\ SameReceipts
  BY <1>1, Typed, HeldReceipts DEF CalmWorld, KnownRuntimes
<1>3. TypeOK' /\ Identities' /\ RollbackOrder' /\ Copies'
  BY <1>1, <1>2, StageAt, TypedCalm, StandingCalm DEF SameReceipts
<1>4. Step = "runtime-switch" => AllIdentified
  BY <1>1 DEF Skips, ReleaseInv, Identities
<1>5. Step = "capture-incident" => vault.incident # {}
  BY <1>1 DEF Skips, ReleaseInv, RollbackOrder
<1>6. Step # "rollback-quiesce" /\ (Step = "restore-database" => Restored)
  BY <1>1 DEF Skips, QuiesceSteps, Restored
<1>7. ToolFits'
  BY <1>1, <1>4, <1>5, <1>6, StageAt
     DEF ReleaseInv, ToolFits, From, Placed, AllIdentified, Restored
<1>8. QED
  BY <1>3, <1>7 DEF ReleaseInv

LEMMA Adopted == ASSUME ReleaseInv, Adopt PROVE ReleaseInv'
<1>1. /\ AtStep /\ tool.stage = "begin" /\ Adopts(Step) /\ Reach("save")
      /\ receipts' = [receipts EXCEPT ![Step] = "complete"]
      /\ host' = IF Step = "source-switch" THEN [host EXCEPT !.generated = "kept"] ELSE host
      /\ vault' = IF Step = "capture-artifacts" THEN [vault EXCEPT !.image = "listed"] ELSE vault
      /\ UNCHANGED <<saved, bound, written, faults>>
  BY DEF Adopt
<1>2. Calm(host, host') /\ Stored(vault, vault')
  <2>1. Calm(host, [host EXCEPT !.generated = "kept"]) /\ Calm(host, host)
    BY Typed, CalmChanges
  <2>2. Stored(vault, [vault EXCEPT !.image = "listed"]) /\ Stored(vault, vault)
    BY Typed, StoredChanges
  <2>3. QED
    BY <1>1, <2>1, <2>2
<1>3. CalmWorld /\ KnownRuntimes
  BY <1>1, <1>2, Typed DEF CalmWorld, KnownRuntimes
<1>4. Step \notin {"restore-database", "create-backup", "rollback-quiesce"}
  <2>1. {"restore-database", "create-backup", "rollback-quiesce"} \cap Range(Migrations) = {}
    BY MigrationNames DEF OwnSteps
  <2>2. QED
    BY <1>1, <2>1 DEF Adopts, Reconcilable
<1>5. /\ Step = "capture-incident" => vault.incident # {}
      /\ Step = "runtime-switch" => AllIdentified
  <2>1. {"capture-incident", "runtime-switch"} \cap Range(Migrations) = {}
    BY MigrationNames DEF OwnSteps
  <2>2. QED
    BY <1>1, <2>1 DEF Adopts, Reconciled, SwitchedAll, AllIdentified
<1>6. receipts' \in [Steps -> Statuses] /\ \A s \in Steps \ {Step} : receipts'[s] = receipts[s]
  BY <1>1, Typed, StageAt DEF Statuses
<1>7. FairReceipts
  BY <1>4, <1>5, <1>6, WatchedSteps
     DEF FairReceipts, Watched, ReleaseInv, RollbackOrder, Identities, Restored
<1>8. TypeOK' /\ Identities' /\ RollbackOrder' /\ Copies'
  BY <1>1, <1>3, <1>6, <1>7, StageAt, TypedCalm, StandingFair
<1>9. ToolFits'
  BY <1>1, <1>2, <1>4, <1>5, <1>6, <1>7, StageAt, WatchedSteps
     DEF ReleaseInv, ToolFits, From, Placed, AllIdentified, Restored, FairReceipts, Calm, Stored, Watched
<1>10. QED
  BY <1>8, <1>9 DEF ReleaseInv

LEMMA Begun == ASSUME ReleaseInv, Begin PROVE ReleaseInv'
<1>1. /\ AtStep /\ tool.stage = "begin" /\ ~Skips(Step) /\ Reach("act")
      /\ receipts' = IF Step \in QuiesceSteps /\ receipts[Step] = "complete"
                     THEN receipts ELSE [receipts EXCEPT ![Step] = "running"]
      /\ bound' = IF Step = "restore-runtimes" THEN saved.runtimes ELSE bound
      /\ saved' = saved \/ saved' = [saved EXCEPT !.recorded = host.units]
      /\ UNCHANGED <<host, vault, written, faults>>
  BY DEF Begin
<1>r. saved' \in StateFile /\ saved'.phase = saved.phase /\ saved'.runtimes = saved.runtimes
  <2>1. PICK U \in SUBSET Units : U = host.units
    BY Typed, HostFields
  <2>2. LET g == [saved EXCEPT !.recorded = U] IN
           g \in StateFile /\ g.phase = saved.phase /\ g.runtimes = saved.runtimes
    BY Typed, StateFileChanges
  <2>3. QED
    BY <1>1, <2>1, <2>2, Typed
<1>2. CalmWorld /\ KnownRuntimes
  BY <1>1, <1>r, Typed, StateFileChanges DEF CalmWorld, KnownRuntimes
<1>3. receipts' \in [Steps -> Statuses] /\ \A s \in Steps \ {Step} : receipts'[s] = receipts[s]
  BY <1>1, Typed, StageAt DEF Statuses
<1>4. /\ Step \in Watched => receipts[Step] # "complete"
      /\ Step \in Watched => receipts'[Step] = "running"
  BY <1>1, Typed, StageAt, ActivationNames
     DEF Watched, Skips, FreshSteps, SemanticSteps, QuiesceSteps
<1>5. FairReceipts
  BY <1>3, <1>4, WatchedSteps
     DEF FairReceipts, Watched, ReleaseInv, RollbackOrder, Identities, Restored
<1>6. TypeOK' /\ Identities' /\ RollbackOrder' /\ Copies'
  BY <1>1, <1>2, <1>3, <1>5, StageAt, TypedCalm, StandingFair
<1>7. ToolFits'
  BY <1>1, <1>r, <1>3, <1>4, <1>5, StageAt, WatchedSteps
     DEF ReleaseInv, ToolFits, From, Placed, Restored, FairReceipts, Watched
<1>8. QED
  BY <1>6, <1>7 DEF ReleaseInv

LEMMA Completed == ASSUME ReleaseInv, Complete PROVE ReleaseInv'
<1>1. /\ AtStep /\ tool.stage = "acted" /\ Reach("save")
      /\ receipts' = [receipts EXCEPT ![Step] = "complete"]
      /\ UNCHANGED <<saved, bound, host, vault, written, faults>>
  BY DEF Complete
<1>2. CalmWorld /\ KnownRuntimes
  BY <1>1, Typed DEF CalmWorld, KnownRuntimes
<1>3. /\ receipts' \in [Steps -> Statuses] /\ receipts'[Step] = "complete"
      /\ \A s \in Steps \ {Step} : receipts'[s] = receipts[s]
  BY <1>1, Typed, StageAt DEF Statuses
<1>4. /\ Step \in {"capture-incident", "restore-database"} => vault.incident # {}
      /\ Step = "runtime-switch" => AllIdentified
  <2>1. Placed(tool.cmd, tool.pos, Step) /\ (At("runtime-switch") <=> Step = "runtime-switch")
    BY <1>1, StageAt DEF At, AtStep, AtOneOf, Step
  <2>2. QED
    BY <1>1, <2>1 DEF ReleaseInv, ToolFits, From, Placed
<1>5. FairReceipts
  BY <1>3, <1>4, WatchedSteps
     DEF FairReceipts, Watched, ReleaseInv, RollbackOrder, Identities, Restored
<1>6. TypeOK' /\ Identities' /\ RollbackOrder' /\ Copies'
  BY <1>1, <1>2, <1>3, <1>5, StageAt, TypedCalm, StandingFair
<1>7. ToolFits'
  BY <1>1, <1>3, <1>4, <1>5, StageAt, WatchedSteps
     DEF ReleaseInv, ToolFits, From, Placed, AllIdentified, Restored, FairReceipts, Watched
<1>8. QED
  BY <1>6, <1>7 DEF ReleaseInv

-----------------------------------------------------------------------------
(* The operator, and the ways a command stops.                              *)

\* A new phase, with no command at work or as one starts.
LEMMA PhaseChanged ==
  ASSUME ReleaseInv, NEW x \in Phases, saved' = [saved EXCEPT !.phase = x],
         UNCHANGED <<receipts, bound, host, vault, written>>, faults' \in 0 .. MaxFaults,
         ToolTypedNext,
         vault.incident # {} => x \in RollbackPhases,
         x \in RollbackPhases \ {"rolling-back"} => Restored
  PROVE  TypeOK' /\ Identities' /\ RollbackOrder' /\ Copies' /\ saved'.phase = x
<1>1. saved' \in StateFile /\ saved'.phase = x /\ saved'.runtimes = saved.runtimes
  BY Typed, StateFileChanges
<1>2. TypeOK'
  BY <1>1 DEF ReleaseInv, TypeOK, ToolTypedNext, ToolStates
<1>3. Identities' /\ RollbackOrder' /\ Copies'
  BY <1>1 DEF ReleaseInv, Identities, AllIdentified, RollbackOrder, Restored, Copies, WritesOf
<1>4. QED
  BY <1>1, <1>2, <1>3

\* Where no restore is to come, the phase is none of a rollback's.
LEMMA NoIncident ==
  ASSUME ReleaseInv, saved.phase \notin RollbackPhases
  PROVE  vault.incident = {}
BY DEF ReleaseInv, RollbackOrder

LEMMA PhaseNames == \A c \in Commands : Phase[c] \in Phases
BY CommandNames DEF Phase, Phases

LEMMA CommandEntered ==
  ASSUME ReleaseInv, NEW c \in Commands, tool = Idle, Enter(c, Phase[c]),
         c = "rollback" => receipts["create-backup"] = "complete",
         c = "resume" => Restored,
         c \notin {"rollback", "resume"} => vault.incident = {}
  PROVE  ReleaseInv'
<1>1. /\ saved' = [saved EXCEPT !.phase = Phase[c]] /\ Start(c)
      /\ UNCHANGED <<receipts, bound, host, vault, written, faults>>
  BY DEF Enter
<1>2. /\ tool' \in ToolStates /\ tool'.cmd = c /\ tool'.pos = 1 /\ tool'.stage = "begin"
      /\ ToolTypedNext
  BY <1>1, ToolMoves DEF ReleaseInv, ToolTypedNext
<1>3. /\ vault.incident # {} => Phase[c] \in RollbackPhases
      /\ Phase[c] \in RollbackPhases \ {"rolling-back"} => Restored
  BY CommandNames DEF Phase, RollbackPhases
<1>4. TypeOK' /\ Identities' /\ RollbackOrder' /\ Copies' /\ saved'.phase = Phase[c]
  BY <1>1, <1>2, <1>3, Typed, PhaseNames, PhaseChanged
<1>5. ToolFits'
  BY <1>1, <1>2, <1>4 DEF ToolFits, From
<1>6. QED
  BY <1>4, <1>5 DEF ReleaseInv

LEMMA OperatorActs == ASSUME ReleaseInv, OperatorStep PROVE ReleaseInv'
<1>1. CASE Prepare
  <2>1. PICK x \in {"prepared", "preparing"} : saved' = [saved EXCEPT !.phase = x]
    BY <1>1 DEF Prepare
  <2>2. /\ tool = Idle /\ saved.phase = None
        /\ UNCHANGED <<receipts, bound, tool, host, vault, written, faults>>
    BY <1>1 DEF Prepare
  <2>3. vault.incident = {} /\ x \in Phases /\ x \notin RollbackPhases
    BY <2>2, NoIncident DEF RollbackPhases, Phases, None
  <2>4. ToolTypedNext
    BY <2>2, ToolTyped DEF ReleaseInv, ToolTypedNext
  <2>5. QED
    BY <2>1, <2>2, <2>3, <2>4, Typed, PhaseChanged, StoppedFits DEF ReleaseInv
<1>2. CASE Apply
  <2>1. vault.incident = {}
    BY <1>2, NoIncident DEF Apply, RollbackPhases
  <2>2. Enter("apply", Phase["apply"]) /\ tool = Idle
    BY <1>2 DEF Apply, Phase
  <2>3. QED
    BY <2>1, <2>2, CommandNames, CommandEntered
<1>3. CASE Verify
  <2>1. vault.incident = {}
    BY <1>3, NoIncident DEF Verify, VerifyPhases, RollbackPhases
  <2>2. Enter("verify", Phase["verify"]) /\ tool = Idle
    BY <1>3 DEF Verify, Phase
  <2>3. QED
    BY <2>1, <2>2, CommandNames, CommandEntered
<1>4. CASE Abort
  <2>1. vault.incident = {}
    BY <1>4 DEF Abort, Untouched, ReleaseInv, RollbackOrder, None
  <2>2. Enter("abort", Phase["abort"]) /\ tool = Idle
    BY <1>4 DEF Abort, Phase
  <2>3. QED
    BY <2>1, <2>2, CommandNames, CommandEntered
<1>5. CASE Rollback
  <2>1. Enter("rollback", Phase["rollback"]) /\ tool = Idle /\ receipts["create-backup"] = "complete"
    BY <1>5 DEF Rollback, Phase
  <2>2. QED
    BY <2>1, CommandNames, CommandEntered
<1>6. CASE Resume
  <2>1. Restored
    BY <1>6 DEF Resume, ReleaseInv, RollbackOrder, RollbackPhases
  <2>2. Enter("resume", Phase["resume"]) /\ tool = Idle
    BY <1>6 DEF Resume, Phase
  <2>3. QED
    BY <2>1, <2>2, CommandNames, CommandEntered
<1>7. CASE OperatorReconciles
  <2>1. PICK v \in {"original", "reconciled"} : host' = [host EXCEPT !.head = v, !.attached = TRUE]
    BY <1>7 DEF OperatorReconciles
  <2>2. UNCHANGED <<saved, receipts, bound, tool, vault, written, faults>>
    BY <1>7 DEF OperatorReconciles
  <2>3. Calm(host, [host EXCEPT !.head = v, !.attached = TRUE])
    BY Typed, CalmChanges DEF Heads
  <2>4. CalmWorld /\ SameReceipts
    BY <2>1, <2>2, <2>3, Typed, HeldReceipts DEF CalmWorld
  <2>5. \A l \in saved'.runtimes : host'.identity[l] = "written"
    BY <2>1, <2>2, <2>3, Typed, StateFileChanges DEF ReleaseInv, TypeOK, Calm
  <2>6. QED
    BY <2>2, <2>4, <2>5, CalmStay
<1>8. QED
  BY <1>1, <1>2, <1>3, <1>4, <1>5, <1>6, <1>7 DEF OperatorStep

LEMMA Refused == ASSUME ReleaseInv, Refuse PROVE ReleaseInv'
<1>1. Stop /\ UNCHANGED <<saved, receipts, bound, host, vault, written, faults>>
  BY DEF Refuse
<1>2. CalmWorld /\ KnownRuntimes /\ SameReceipts
  BY <1>1, Typed, HeldReceipts DEF CalmWorld, KnownRuntimes
<1>3. QED
  BY <1>1, <1>2, CalmStop

\* A stopped tool is of its type.
LEMMA StoppedTyped == ASSUME ReleaseInv, Stop PROVE ToolTypedNext
BY ToolMoves DEF ReleaseInv, ToolTypedNext

LEMMA FaultCounted ==
  ASSUME ReleaseInv, faults < MaxFaults, faults' = faults + 1
  PROVE  faults' \in 0 .. MaxFaults
BY Typed, ReleaseAssumption

LEMMA Paused == ASSUME ReleaseInv, Pause PROVE ReleaseInv'
<1>1. PICK s \in Steps, x \in {"awaiting-migration-approval", "awaiting-optional-units"} :
         /\ At(s) /\ saved' = [saved EXCEPT !.phase = x]
         /\ s \in NeedApproval \/ s = "publish-snapshot"
  BY DEF Pause
<1>2. /\ Stop /\ UNCHANGED <<receipts, bound, host, vault, written>>
      /\ faults' \in 0 .. MaxFaults
  BY FaultCounted DEF Pause
<1>3. s \in Range(Migrations) \cup {"publish-snapshot"}
  BY <1>1, ReleaseAssumption
<1>4. tool.cmd # None /\ tool.cmd = "apply"
  BY <1>1, <1>3, ToolTyped DEF ReleaseInv, At, Placed
<1>5. vault.incident = {}
  BY <1>4, NoIncident DEF ReleaseInv, ToolFits, Phase, RollbackPhases
<1>6. x \in Phases /\ x \notin RollbackPhases
  BY DEF Phases, RollbackPhases
<1>7. QED
  BY <1>1, <1>2, <1>5, <1>6, StoppedTyped, PhaseChanged, StoppedFits DEF ReleaseInv, Stop

LEMMA FinishedCommand == ASSUME ReleaseInv, Finish PROVE ReleaseInv'
<1> DEFINE final == CASE tool.cmd = "apply" -> "applied"
                      [] tool.cmd = "verify" -> "verified"
                      [] tool.cmd = "abort" -> "aborted"
                      [] tool.cmd = "rollback" -> "rolled-back"
                      [] tool.cmd = "resume" -> "resumed"
<1>1. /\ tool.cmd # None /\ Finished /\ Stop /\ saved' = [saved EXCEPT !.phase = final]
      /\ UNCHANGED <<receipts, bound, host, vault, written, faults>>
  BY DEF Finish
<1>2. tool.cmd \in Commands /\ saved.phase = Phase[tool.cmd]
  BY <1>1, ToolTyped DEF ReleaseInv, ToolFits
<1>3. final \in Phases
  BY <1>2, CommandNames DEF Phases
<1>4. tool.cmd = "rollback" => Restored
  <2>1. tool.cmd = "rollback" => tool.pos > 6
    <3>1. PICK n : n = Len(Program[tool.cmd])
      OBVIOUS
    <3>2. tool.pos > n /\ (tool.cmd = "rollback" => n = 12)
      BY <1>1, <1>2, <3>1, Lengths DEF Finished
    <3>3. tool.pos \in Nat
      BY ToolTyped DEF ReleaseInv
    <3>4. QED
      BY <3>2, <3>3
  <2>2. QED
    BY <2>1 DEF ReleaseInv, ToolFits, From
<1>5. tool.cmd = "resume" => Restored
  BY <1>2 DEF ReleaseInv, RollbackOrder, Phase, RollbackPhases
<1>6. tool.cmd \notin {"rollback", "resume"} => vault.incident = {}
  BY <1>2, CommandNames, NoIncident DEF Phase, RollbackPhases
<1>7. /\ vault.incident # {} => final \in RollbackPhases
      /\ final \in RollbackPhases \ {"rolling-back"} => Restored
  BY <1>2, <1>4, <1>5, <1>6, CommandNames DEF RollbackPhases
<1> HIDE DEF final
<1>8. QED
  BY <1>1, <1>3, <1>7, Typed, StoppedTyped, PhaseChanged, StoppedFits DEF ReleaseInv, Stop

LEMMA CheckFailed == ASSUME ReleaseInv, CheckFails PROVE ReleaseInv'
<1>1. /\ Stop /\ UNCHANGED <<saved, bound, host, vault, written, faults>>
      /\ receipts' = [s \in Steps |-> IF Acting(s) THEN "failed" ELSE receipts[s]]
  BY DEF CheckFails
<1>2. CalmWorld /\ KnownRuntimes
  BY <1>1, Typed DEF CalmWorld, KnownRuntimes
<1>3. PICK s : Acting(s) /\ s # "create-backup"
  BY DEF CheckFails, SemanticSteps
<1>4. ~Acting("create-backup")
  BY <1>3 DEF Acting, At
<1>5. Acting("restore-database") => ~Restored
  <2>1. SUFFICES ASSUME Acting("restore-database") PROVE ~Restored
    OBVIOUS
  <2>2. tool.cmd # None /\ Placed(tool.cmd, tool.pos, "restore-database") /\ tool.stage = "act"
    BY <2>1, ActingAt, ToolTyped DEF ReleaseInv, Step
  <2>3. QED
    BY <2>2 DEF Placed, ReleaseInv, ToolFits, Restored
<1>6. receipts' \in [Steps -> Statuses]
  BY <1>1, Typed DEF Statuses
<1>7. \A x \in Watched : receipts'[x] = IF Acting(x) THEN "failed" ELSE receipts[x]
  BY <1>1, WatchedSteps
<1>8. FairReceipts
  BY <1>4, <1>5, <1>6, <1>7
     DEF FairReceipts, Watched, ReleaseInv, RollbackOrder, Identities, Restored
<1>9. QED
  BY <1>1, <1>2, <1>6, <1>8, StoppedTyped, TypedCalm, StandingFair, StoppedFits DEF ReleaseInv, Stop

-----------------------------------------------------------------------------
(* Interruptions.                                                           *)

\* What the host may have become when a command is cut off: installing may
\* have started producers, restoring may have replaced the database.
KeptIdentities(g) ==
  g \in Host /\ \A l \in Links : host.identity[l] = "written" => g.identity[l] = "written"
CutShort(g) ==
  /\ KeptIdentities(g)
  /\ \/ /\ g.db.writes = host.db.writes
        /\ g.producing => host.producing \/ Acting("install-automation")
     \/ Acting("restore-database") /\ \E d \in vault.backup : Replaced(host, g, d)

LEMMA WaysCutShort ==
  ASSUME ReleaseInv, NEW g
  PROVE  /\ Calm(host, g) => CutShort(g)
         /\ Acting("install-automation") /\ Switched(host, g, TRUE) => CutShort(g)
         /\ \A d \in vault.backup :
               Acting("restore-database") /\ Replaced(host, g, d) => CutShort(g)
<1>1. Calm(host, g) => CutShort(g)
  BY DEF Calm, CutShort, KeptIdentities
<1>2. Acting("install-automation") /\ Switched(host, g, TRUE) => CutShort(g)
  BY DEF Switched, CutShort, KeptIdentities
<1>3. ASSUME NEW d \in vault.backup, Acting("restore-database"), Replaced(host, g, d)
      PROVE  CutShort(g)
  BY <1>3 DEF Replaced, CutShort, KeptIdentities
<1>4. QED
  BY <1>1, <1>2, <1>3

LEMMA TornEffects ==
  ASSUME ReleaseInv, NEW e \in {Clean} \cup Torn
  PROVE  Stored(vault, e.vault) /\ CutShort(e.host)
<1> USE Typed, WaysCutShort
<1>1. CASE e = Clean
  BY <1>1 DEF Clean
<1>2. CASE e \in Torn /\ Acting("capture-artifacts")
  <2>1. e = [host |-> host, vault |-> [vault EXCEPT !.image = IF @ = None THEN "unlisted" ELSE @]]
    BY <1>2 DEF Torn, Acting, At
  <2>2. PICK x : x = IF vault.image = None THEN "unlisted" ELSE vault.image
    OBVIOUS
  <2>3. x \in {None, "unlisted", "listed"}
    BY <2>2, VaultFields
  <2>4. Stored(vault, [vault EXCEPT !.image = x])
    BY <2>3, StoredChanges
  <2>5. QED
    BY <2>1, <2>2, <2>4
<1>3. CASE e \in Torn /\ Acting("source-switch")
  <2>1. PICK v \in {host.head, "approved"} :
          e = [host |-> [host EXCEPT !.head = v, !.generated = "reset"], vault |-> vault]
    BY <1>3 DEF Torn, Acting, At
  <2>2. v \in Heads
    BY HostFields DEF Heads
  <2>3. Calm(host, [host EXCEPT !.head = v, !.generated = "reset"])
    BY <2>2, CalmChanges
  <2>4. QED
    BY <2>1, <2>3
<1>4. CASE e \in Torn /\ Acting("runtime-switch") /\ Unswitched # {}
  <2> DEFINE l == First(Unswitched)
  <2>1. l \in Links
    BY <1>4, FirstOf DEF Unswitched
  <2>2. \/ host.identity[l] = None /\ e = [host |-> Identified(host, l, "incomplete"), vault |-> vault]
        \/ e = [host |-> Linked(host, l, "gone"), vault |-> vault]
    BY <1>4 DEF Torn, Acting, At
  <2> HIDE DEF l
  <2>3. Calm(host, Linked(host, l, "gone"))
    BY <2>1, CalmLinks
  <2>4. host.identity[l] = None => Calm(host, Identified(host, l, "incomplete"))
    BY <2>1, CalmLinks DEF None
  <2>5. CASE host.identity[l] = None /\ e = [host |-> Identified(host, l, "incomplete"), vault |-> vault]
    BY <2>4, <2>5
  <2>6. CASE e = [host |-> Linked(host, l, "gone"), vault |-> vault]
    BY <2>3, <2>6
  <2>7. QED
    BY <2>2, <2>5, <2>6
<1>5. CASE e \in Torn /\ Acting("install-automation")
  <2>1. PICK U \in SUBSET Units :
          e = [host |-> [host EXCEPT !.units = U, !.producing = TRUE], vault |-> vault]
    BY <1>5 DEF Torn, Acting, At
  <2>2. Switched(host, [host EXCEPT !.units = U, !.producing = TRUE], TRUE)
    BY SwitchedProducers
  <2>3. QED
    BY <1>5, <2>1, <2>2
<1>6. CASE e \in Torn /\ Acting("publish-snapshot")
  <2>1. e = [host |-> host, vault |-> Published(vault, "apply", "torn")]
    BY <1>6 DEF Torn, Acting, At
  <2>2. QED
    BY <2>1, StoredChanges
<1>7. CASE e \in Torn /\ Acting("rollback-snapshot")
  <2>1. e = [host |-> host, vault |-> Published(vault, "rollback", "torn")]
    BY <1>7 DEF Torn, Acting, At
  <2>2. QED
    BY <2>1, StoredChanges
<1>8. CASE e \in Torn /\ (Acting("restore-source") \/ Acting("restore-artifacts"))
  <2>1. e = [host |-> [host EXCEPT !.generated = "reset"], vault |-> vault]
    BY <1>8 DEF Torn, Acting, At
  <2>2. Calm(host, [host EXCEPT !.generated = "reset"])
    BY CalmChanges
  <2>3. QED
    BY <2>1, <2>2
<1>9. CASE e \in Torn /\ Acting("restore-runtimes")
  <2> DEFINE l == First(Unrestored)
  <2>1. Unrestored # {} /\ e = [host |-> Linked(host, l, "gone"), vault |-> vault]
    BY <1>9 DEF Torn, Acting, At
  <2>2. l \in Links
    <3>1. Unrestored \in SUBSET Links
      BY StateFileChanges DEF Unrestored
    <3>2. QED
      BY <2>1, <3>1, FirstOf
  <2> HIDE DEF l
  <2>3. Calm(host, Linked(host, l, "gone"))
    BY <2>2, CalmLinks
  <2>4. QED
    BY <2>1, <2>3
<1>10. CASE e \in Torn /\ Acting("restore-database")
  <2>1. PICK d \in vault.backup : e = [host |-> [host EXCEPT !.db = d], vault |-> vault]
    BY <1>10 DEF Torn, Acting, At
  <2>2. Replaced(host, [host EXCEPT !.db = d], d)
    BY BackupTyped, ReplacedDatabase
  <2>3. QED
    BY <1>10, <2>1, <2>2
<1>11. e \in Torn =>
         \/ Acting("capture-artifacts") \/ Acting("source-switch")
         \/ Acting("runtime-switch") /\ Unswitched # {}
         \/ Acting("install-automation") \/ Acting("publish-snapshot")
         \/ Acting("rollback-snapshot") \/ Acting("restore-source")
         \/ Acting("restore-artifacts") \/ Acting("restore-runtimes")
         \/ Acting("restore-database")
  BY DEF Torn
<1>12. QED
  BY <1>1, <1>2, <1>3, <1>4, <1>5, <1>6, <1>7, <1>8, <1>9, <1>10, <1>11

\* The compensation may stop the producers; a restore has none.
LEMMA CompensatedEffects ==
  ASSUME ReleaseInv, NEW g, CutShort(g), NEW f \in Compensation(g)
  PROVE  CutShort(f)
<1>1. CASE f = g
  BY <1>1
<1>2. CASE f = Quiet(g) /\ Compensated
  <2>1. ~Acting("restore-database")
    <3>1. SUFFICES ASSUME Acting("restore-database") PROVE FALSE
      OBVIOUS
    <3>2. tool.cmd # None /\ ~Finished /\ Program[tool.cmd][tool.pos] = "restore-database"
      BY <3>1 DEF Acting, At
    <3>3. QED
      BY <1>2, <3>2, ActivationNames DEF Compensated, AtOneOf
  <2>2. KeptIdentities(g) /\ g.db.writes = host.db.writes
    BY <2>1 DEF CutShort
  <2>3. Switched(g, f, FALSE)
    BY <1>2, <2>2, SwitchedProducers DEF KeptIdentities
  <2>4. QED
    BY <2>2, <2>3 DEF Switched, CutShort, KeptIdentities
<1>3. QED
  BY <1>1, <1>2 DEF Compensation

\* Receipts of which the watched ones are complete as they were.
SameComplete ==
  /\ receipts' \in [Steps -> Statuses]
  /\ \A s \in Watched : receipts'[s] = "complete" <=> receipts[s] = "complete"

Interrupted ==
  /\ CutShort(host') /\ Stored(vault, vault') /\ SameComplete /\ Stop
  /\ saved' \in StateFile /\ saved'.phase = saved.phase /\ KnownRuntimes
  /\ UNCHANGED <<bound, written>> /\ faults' \in 0 .. MaxFaults

\* A command that is cut off installing or restoring leaves what the next
\* command needs.
LEMMA StandingInterrupted == ASSUME ReleaseInv, Interrupted PROVE ReleaseInv'
<1>1. TypeOK'
  <2>1. \A l \in saved'.runtimes : host'.identity[l] = "written"
    BY Typed, StateFileChanges
       DEF ReleaseInv, TypeOK, Interrupted, KnownRuntimes, CutShort, KeptIdentities
  <2>2. ToolTypedNext
    BY StoppedTyped DEF Interrupted
  <2>3. QED
    BY <2>1, <2>2, Typed
       DEF ReleaseInv, TypeOK, Interrupted, CutShort, KeptIdentities, Stored, SameComplete,
           ToolTypedNext, ToolStates, Statuses
<1>2. ToolFits'
  BY StoppedFits DEF Interrupted, Stop
<1>3. Identities'
  BY DEF ReleaseInv, Identities, AllIdentified, Interrupted, SameComplete, Watched, CutShort,
         KeptIdentities
<1>4. Restored' <=> Restored
  BY DEF Restored, Interrupted, SameComplete, Watched
<1>5. CASE /\ host'.db.writes = host.db.writes
           /\ host'.producing => host.producing \/ Acting("install-automation")
  <2>1. Acting("install-automation") => vault.incident = {}
    <3>1. SUFFICES ASSUME Acting("install-automation") PROVE vault.incident = {}
      OBVIOUS
    <3>2. tool.cmd # None /\ Placed(tool.cmd, tool.pos, "install-automation")
      BY <3>1, ActingAt, ToolTyped DEF ReleaseInv, Step
    <3>3. tool.cmd = "apply" /\ saved.phase = "applying"
      BY <3>2 DEF Placed, ReleaseInv, ToolFits, Phase
    <3>4. QED
      BY <3>3, NoIncident DEF RollbackPhases
  <2>2. RollbackOrder'
    BY <1>4, <1>5, <2>1 DEF ReleaseInv, RollbackOrder, Interrupted, SameComplete, Watched, Stored
  <2>3. Copies'
    BY <1>4, <1>5 DEF ReleaseInv, Copies, Interrupted, Stored
  <2>4. QED
    BY <1>1, <1>2, <1>3, <2>2, <2>3 DEF ReleaseInv
<1>6. ASSUME Acting("restore-database"), NEW d \in vault.backup, Replaced(host, host', d)
      PROVE  RollbackOrder' /\ Copies'
  <2>1. tool.cmd # None /\ Placed(tool.cmd, tool.pos, "restore-database") /\ tool.stage = "act"
    BY <1>6, ActingAt, ToolTyped DEF ReleaseInv, Step
  <2>2. ~Restored
    BY <2>1 DEF Placed, ReleaseInv, ToolFits, Restored
  <2>3. ~Restored'
    BY <1>4, <2>2
  <2>4. Around
    BY <1>6, Typed DEF Around, Interrupted, Replaced, Stored
  <2>5. QED
    BY <1>6, <2>3, <2>4, StandingRestored
       DEF Interrupted, SameComplete, Watched, Restored
<1>7. QED
  BY <1>1, <1>2, <1>3, <1>5, <1>6 DEF ReleaseInv, Interrupted, CutShort

LEMMA Crashed == ASSUME ReleaseInv, Crash PROVE ReleaseInv'
<1>1. PICK e \in {Clean} \cup Torn : host' = e.host /\ vault' = e.vault
  BY DEF Crash
<1>2. /\ Stop /\ faults' \in 0 .. MaxFaults /\ UNCHANGED <<saved, receipts, bound, written>>
  BY FaultCounted DEF Crash
<1>3. saved' \in StateFile /\ saved'.phase = saved.phase /\ saved'.runtimes = saved.runtimes
  BY <1>2, Typed
<1>4. CutShort(host') /\ Stored(vault, vault')
  BY <1>1, TornEffects
<1>5. SameComplete
  BY <1>2, Typed DEF SameComplete
<1>6. QED
  BY <1>2, <1>3, <1>4, <1>5, StandingInterrupted DEF Interrupted, KnownRuntimes

LEMMA Failed == ASSUME ReleaseInv, Fails PROVE ReleaseInv'
<1>1. PICK e \in Raised : vault' = e.vault /\ host' \in Compensation(e.host)
  BY DEF Fails
<1>2. /\ Stop /\ faults' \in 0 .. MaxFaults /\ UNCHANGED <<bound, written>>
      /\ saved' = saved \/ saved' = [saved EXCEPT !.recorded = host'.units]
      /\ receipts' = [s \in Steps |->
             IF receipts[s] = "complete" THEN "complete"
             ELSE CASE Acting(s) -> "failed"
               [] At("install-automation") /\ s = "requiesce" ->
                      IF host'.producing THEN "failed" ELSE "complete"
               [] OTHER -> receipts[s]]
  BY FaultCounted DEF Fails
<1>4. CutShort(host') /\ Stored(vault, vault')
  <2>1. e \in {Clean} \cup Torn
    BY <1>1 DEF Raised
  <2>2. CutShort(e.host) /\ Stored(vault, e.vault)
    BY <2>1, TornEffects
  <2>3. QED
    BY <1>1, <2>2, CompensatedEffects
<1>3. saved' \in StateFile /\ saved'.phase = saved.phase /\ saved'.runtimes = saved.runtimes
  <2>1. PICK U \in SUBSET Units : U = host'.units
    BY <1>4, HostFields DEF CutShort, KeptIdentities
  <2>2. LET g == [saved EXCEPT !.recorded = U] IN
           g \in StateFile /\ g.phase = saved.phase /\ g.runtimes = saved.runtimes
    BY Typed, StateFileChanges
  <2>3. QED
    BY <1>2, <2>1, <2>2, Typed
<1>5. SameComplete
  <2> DEFINE r(s) == IF receipts[s] = "complete" THEN "complete"
                  ELSE CASE Acting(s) -> "failed"
                       [] At("install-automation") /\ s = "requiesce" ->
                              IF host'.producing THEN "failed" ELSE "complete"
                       [] OTHER -> receipts[s]
  <2>1. ASSUME NEW s \in Steps
        PROVE  /\ r(s) \in Statuses
               /\ s \in Watched => (r(s) = "complete" <=> receipts[s] = "complete")
    <3>1. receipts[s] \in Statuses
      BY Typed
    <3>2. CASE receipts[s] = "complete"
      BY <3>1, <3>2 DEF Statuses
    <3>3. CASE receipts[s] # "complete"
      BY <3>1, <3>3 DEF Statuses, Watched
    <3>4. QED
      BY <3>2, <3>3
  <2>2. receipts' = [s \in Steps |-> r(s)]
    BY <1>2
  <2> HIDE DEF r
  <2>3. QED
    BY <2>1, <2>2, WatchedSteps DEF SameComplete
<1>6. QED
  BY <1>2, <1>3, <1>4, <1>5, StandingInterrupted DEF Interrupted, KnownRuntimes

-----------------------------------------------------------------------------
(* The specification.                                                       *)

LEMMA ReleaseInit == Init => ReleaseInv
<1> SUFFICES ASSUME Init PROVE ReleaseInv
  OBVIOUS
<1> DEFINE empty == [applied |-> {}, writes |-> {}]
<1>1. empty \in Database
  BY DEF Database
<1>2. /\ saved \in StateFile /\ saved.phase = None /\ saved.runtimes = {}
  BY DEF Init, StateFile, Phases
<1>3. receipts \in [Steps -> Statuses] /\ \A s \in Watched : receipts[s] # "complete"
  BY WatchedSteps DEF Init, Statuses, None
<1>4. host \in Host /\ host.db = empty
  <2>1. PICK f : f = [l \in Links |-> "prior"]
    OBVIOUS
  <2>2. PICK g : g = [l \in Links |-> None]
    OBVIOUS
  <2>3. f \in [Links -> {"prior", "gone", "selected"}] /\ g \in [Links -> {None, "incomplete", "written"}]
    BY <2>1, <2>2
  <2> HIDE DEF empty
  <2>4. host = [head |-> "original", attached |-> TRUE, live |-> f, identity |-> g,
                generated |-> "kept", db |-> empty, units |-> {},
                producing |-> TRUE, autopush |-> TRUE]
    BY <2>1, <2>2 DEF Init, empty
  <2>5. QED
    BY <1>1, <2>3, <2>4 DEF Host
<1>5. vault \in Vault /\ vault.backup = {} /\ vault.incident = {}
  <2>1. PICK f : f = [p \in {"apply", "rollback"} |-> None]
    OBVIOUS
  <2>2. f \in [{"apply", "rollback"} -> {None, "torn", "whole"}]
    BY <2>1
  <2>3. {} \in Image /\ {empty} \in Image
    BY <1>1, ImageOf
  <2> HIDE DEF empty
  <2>4. vault = [backup |-> {}, image |-> None, incident |-> {}, latest |-> {empty}, published |-> f]
    BY <2>1 DEF Init, empty
  <2>5. QED
    BY <2>2, <2>3, <2>4 DEF Vault
<1>6. tool \in ToolStates /\ tool.cmd = None /\ bound \in SUBSET Links
  BY DEF Init, Idle, ToolStates
<1>7. written = 0 /\ written \in 0 .. MaxWrites /\ faults \in 0 .. MaxFaults
  BY ReleaseAssumption DEF Init
<1>8. TypeOK
  BY <1>2, <1>3, <1>4, <1>5, <1>6, <1>7 DEF TypeOK, ToolStates, Statuses
<1>9. ToolFits
  BY <1>6 DEF ToolFits, From, At, None
<1>10. Identities /\ RollbackOrder
  BY <1>2, <1>3, <1>5 DEF Identities, RollbackOrder, RollbackPhases, Restored, Watched, None
<1>11. Copies
  BY <1>4, <1>5, <1>7 DEF Copies, WritesOf
<1>12. QED
  BY <1>8, <1>9, <1>10, <1>11 DEF ReleaseInv

LEMMA ReleaseStep == ReleaseInv /\ [Next]_vars => ReleaseInv'
<1> SUFFICES ASSUME ReleaseInv, [Next]_vars PROVE ReleaseInv'
  OBVIOUS
<1>1. CASE ToolStep
  <2>1. CASE StepAction
    BY <2>1, CalmActions, Quiesced, BackupCreated, RuntimeSwitched, AutomationInstalled,
       ProducersReleased, ActivationAttempted, IncidentCaptured, RuntimesRestored, DatabaseRestored
       DEF StepAction
  <2>2. QED
    BY <1>1, <2>1, Skipped, Adopted, Refused, Begun, Completed, Saved, FinishedCommand, CheckFailed
       DEF ToolStep
<1>2. CASE UNCHANGED vars
  <2>1. CalmWorld /\ SameReceipts /\ tool' = tool
    BY <1>2, Typed, HeldReceipts DEF vars, CalmWorld
  <2>2. \A l \in saved'.runtimes : host'.identity[l] = "written"
    BY <1>2 DEF vars, ReleaseInv, TypeOK
  <2>3. QED
    BY <2>1, <2>2, CalmStay
<1>3. QED
  BY <1>1, <1>2, OperatorActs, Paused, Crashed, Failed, WriteKept DEF Next

\* Whatever is cut off and whatever is run next, the producers are stopped from
\* the incident image to the restored database, what a restore overwrites is in
\* that image, and a completed restore is not repeated.
THEOREM ReleaseSound == Spec => []ReleaseInv
BY ReleaseInit, ReleaseStep, PTL DEF Spec

\* The state file, the receipts, the host and the copies keep their types, a
\* command is at a step of its list, and the state file names no runtime link
\* whose prior identity is not on disk (release_deploy.py switches a link only
\* after its identity was written and saved).
THEOREM ReleaseTyped == Spec => []TypeOK
<1>1. ReleaseInv => TypeOK
  BY DEF ReleaseInv
<1>2. QED
  BY <1>1, ReleaseSound, PTL

\* No write of a producer is lost: each is in the live database or in the
\* incident image, although a rollback puts an older backup in place of the
\* database and may be cut off and run again any number of times.
THEOREM WritesKept == Spec => []NoWriteLost
<1>1. ReleaseInv => NoWriteLost
  <2>1. SUFFICES ASSUME ReleaseInv PROVE NoWriteLost
    OBVIOUS
  <2>2. 1 .. written = host.db.writes \cup WritesOf(vault.incident)
    BY <2>1 DEF ReleaseInv, Copies
  <2>3. UNION {d.writes : d \in {host.db} \cup vault.incident} =
          host.db.writes \cup WritesOf(vault.incident)
    BY DEF WritesOf
  <2>4. QED
    BY <2>2, <2>3 DEF NoWriteLost
<1>2. QED
  BY <1>1, ReleaseSound, PTL

-----------------------------------------------------------------------------
(* The host against its receipts: a second inductive invariant.             *)

\* The steps that move the host to the approved release, and back.
ForwardSteps ==
    {"create-backup", "source-switch", "runtime-switch", "install-automation",
     "publish-snapshot"} \cup Range(Migrations)
BackSteps ==
    {"restore-source", "restore-artifacts", "restore-runtimes",
     "restore-database", "restore-units", "rollback-snapshot"}

IsDone(s) == receipts[s] = "complete"
Untried(s) == receipts[s] = None

\* The action of step s has run to its end.
HasActed(s) == IsDone(s) \/ (At(s) /\ tool.stage = "acted")

AllLinks(v) == \A l \in Links : host.live[l] = v
LatestHas(done) == \E d \in vault.latest : d.applied = done

\* What the receipts of apply say of the host until a rollback is begun.
ForwardTrue ==
    saved.phase \notin RollbackPhases =>
      /\ host.attached /\ host.head # "reconciled"
      /\ \A s \in BackSteps : Untried(s)
      /\ vault.published["rollback"] = None
      /\ Untried("create-backup") => vault.backup = {}
      /\ Untried("source-switch") => host.head = "original" /\ host.generated = "kept"
      /\ HasActed("source-switch") => host.head = "approved" /\ host.generated = "kept"
      /\ Untried("runtime-switch") => AllLinks("prior")
      /\ HasActed("runtime-switch") => AllLinks("selected")
      /\ \A m \in Range(Migrations) : /\ Untried(m) => m \notin host.db.applied
                                      /\ HasActed(m) => m \in host.db.applied
      /\ Untried("install-automation") => host.units = {}
      /\ HasActed("install-automation") => host.units = Units /\ saved.recorded = Units
      /\ HasActed("publish-snapshot") => LatestHas(Range(Migrations))
      /\ vault.published["apply"] = "whole" => LatestHas(Range(Migrations))

\* What the receipts of a rollback say of it.
BackTrue ==
    /\ HasActed("restore-source") => host.head # "approved"
    /\ HasActed("restore-artifacts") => host.generated = "kept"
    /\ HasActed("restore-runtimes") => AllLinks("prior")
    /\ HasActed("restore-database") => host.db.applied = {}
    /\ HasActed("restore-units") =>
          /\ host.units \cap saved.recorded = {}
          /\ host.units = {} \/ receipts["install-automation"] \notin {None, "complete"}
    /\ HasActed("rollback-snapshot") => LatestHas({})
    /\ vault.published["rollback"] = "whole" => LatestHas({})
    /\ vault.published["rollback"] # None => IsDone("restore-database")

\* No step is begun before the ones it rests on are complete.
Ordered ==
    /\ ~Untried("source-switch") => IsDone("create-backup")
    /\ ~Untried("runtime-switch") => IsDone("source-switch")
    /\ \A m \in Range(Migrations) : ~Untried(m) => IsDone("runtime-switch")
    /\ ~Untried("install-automation") =>
          IsDone("runtime-switch") /\ \A m \in Range(Migrations) : IsDone(m)
    /\ ~Untried("publish-snapshot") => IsDone("install-automation")
    /\ ~Untried("restore-artifacts") => IsDone("restore-source")
    /\ ~Untried("rollback-snapshot") => IsDone("restore-database")

PhaseTrue ==
    /\ saved.phase \in {"applied", "verifying", "verified"} =>
          \A s \in ForwardSteps : IsDone(s)
    /\ saved.phase \in {"aborting", "aborted"} => Untouched
    /\ saved.phase \in RollbackPhases => IsDone("create-backup")
    /\ saved.phase \in RollbackPhases \ {"rolling-back"} =>
          \A s \in BackSteps : IsDone(s)

\* Every copy and every link is accounted for, and so is every unit file but
\* those of an installation that was begun and has not completed.
Accounted ==
    /\ \A d \in vault.backup : d.applied = {}
    /\ \A l \in Links : host.live[l] # "prior" => l \in saved.runtimes
    /\ host.units \subseteq saved.recorded \/ receipts["install-automation"] \notin {None, "complete"}

\* What the running command may rely on: the receipts of the steps it has
\* passed, and that nothing produces while it moves the host.
PassedBy(q) == q < tool.pos \/ (q = tool.pos /\ tool.stage = "save")
Stands ==
    /\ \A s \in Steps \ QuiesceSteps :
          At(s) /\ tool.stage \in {"act", "acted"} => receipts[s] = "running"
    /\ tool.cmd = "apply" =>
          \A q \in 1 .. Len(Program["apply"]) : PassedBy(q) => IsDone(Program["apply"][q])
    /\ tool.cmd = "rollback" =>
          \A q \in 1 .. 9 : PassedBy(q) => IsDone(Program["rollback"][q])
    /\ tool.cmd = "apply" /\ tool.pos <= 7 + Len(Migrations)
          /\ (tool.pos > 2 \/ (tool.pos = 2 /\ tool.stage \in {"acted", "save"})) =>
             ~host.producing
    /\ tool.cmd = "rollback" /\ tool.pos <= 3
          /\ (tool.pos > 1 \/ tool.stage \in {"acted", "save"}) => ~host.autopush
    /\ tool.cmd = "resume" => host.attached

HostInv ==
    /\ ForwardTrue /\ BackTrue /\ Ordered /\ PhaseTrue /\ Accounted /\ Stands
    /\ ProducersOnOneRelease

-----------------------------------------------------------------------------
(* The places of apply's steps.                                             *)

\* The list of apply, place by place.
LEMMA ApplyPlaces ==
  /\ Len(Migrations) \in Nat /\ Len(Program["apply"]) = 10 + Len(Migrations)
  /\ Program["apply"][1] = "capture-inventory" /\ Program["apply"][2] = "quiesce"
  /\ Program["apply"][3] = "predeploy-adapter-check"
  /\ Program["apply"][4] = "create-backup" /\ Program["apply"][5] = "capture-artifacts"
  /\ Program["apply"][6] = "source-switch" /\ Program["apply"][7] = "runtime-switch"
  /\ \A i \in 1 .. Len(Migrations) : Program["apply"][7 + i] = Migrations[i]
  /\ Program["apply"][8 + Len(Migrations)] = "install-automation"
  /\ Program["apply"][9 + Len(Migrations)] = "requiesce"
  /\ Program["apply"][10 + Len(Migrations)] = "publish-snapshot"
<1> DEFINE c == ApplyFirst \o Migrations
<1>1. /\ ApplyFirst \in Seq(ApplySteps) /\ ApplyLast \in Seq(ApplySteps)
      /\ Migrations \in Seq(ApplySteps) /\ Program["apply"] = c \o ApplyLast
  BY ApplyParts
<1>2. Len(ApplyFirst) = 7 /\ Len(ApplyLast) = 3
  BY DEF ApplyFirst, ApplyLast
<1>3. /\ ApplyFirst[1] = "capture-inventory" /\ ApplyFirst[2] = "quiesce"
      /\ ApplyFirst[3] = "predeploy-adapter-check" /\ ApplyFirst[4] = "create-backup"
      /\ ApplyFirst[5] = "capture-artifacts" /\ ApplyFirst[6] = "source-switch"
      /\ ApplyFirst[7] = "runtime-switch"
      /\ ApplyLast[1] = "install-automation" /\ ApplyLast[2] = "requiesce"
      /\ ApplyLast[3] = "publish-snapshot"
  BY DEF ApplyFirst, ApplyLast
<1>5. PICK n \in Nat : n = Len(Migrations)
  BY <1>1
<1>6. /\ c \in Seq(ApplySteps) /\ Len(c) = 7 + n
      /\ \A i \in 1 .. 7 + n : c[i] = IF i <= 7 THEN ApplyFirst[i] ELSE Migrations[i - 7]
  <2>1. /\ c \in Seq(ApplySteps) /\ Len(c) = Len(ApplyFirst) + Len(Migrations)
        /\ \A i \in 1 .. Len(ApplyFirst) + Len(Migrations) :
             c[i] = IF i <= Len(ApplyFirst) THEN ApplyFirst[i] ELSE Migrations[i - Len(ApplyFirst)]
    BY <1>1, ConcatProperties
  <2>2. QED
    BY <2>1, <1>2, <1>5
<1> HIDE DEF c
<1>7. /\ Len(c \o ApplyLast) = 10 + n
      /\ \A i \in 1 .. 10 + n : (c \o ApplyLast)[i] = IF i <= 7 + n THEN c[i] ELSE ApplyLast[i - (7 + n)]
  <2>1. /\ Len(c \o ApplyLast) = Len(c) + Len(ApplyLast)
        /\ \A i \in 1 .. Len(c) + Len(ApplyLast) :
             (c \o ApplyLast)[i] = IF i <= Len(c) THEN c[i] ELSE ApplyLast[i - Len(c)]
    BY <1>1, <1>6, ConcatProperties
  <2>2. QED
    BY <2>1, <1>2, <1>6
<1>8. PICK w : w = c \o ApplyLast
  OBVIOUS
<1>9. /\ Len(w) = 10 + n
      /\ \A i \in 1 .. 7 : w[i] = ApplyFirst[i]
      /\ \A i \in 1 .. n : w[7 + i] = Migrations[i]
      /\ w[8 + n] = ApplyLast[1] /\ w[9 + n] = ApplyLast[2] /\ w[10 + n] = ApplyLast[3]
  <2>1. /\ Len(w) = 10 + n
        /\ \A i \in 1 .. 10 + n : w[i] = IF i <= 7 + n THEN c[i] ELSE ApplyLast[i - (7 + n)]
    BY <1>7, <1>8
  <2>2. \A i \in 1 .. 7 : w[i] = ApplyFirst[i]
    BY <2>1, <1>6
  <2>3. ASSUME NEW i \in 1 .. n PROVE w[7 + i] = Migrations[i]
    <3>1. 7 + i \in 1 .. 7 + n /\ 7 + i \in 1 .. 10 + n /\ ~(7 + i <= 7) /\ (7 + i) - 7 = i
      OBVIOUS
    <3>2. w[7 + i] = c[7 + i]
      BY <2>1, <3>1
    <3>3. c[7 + i] = Migrations[(7 + i) - 7]
      BY <1>6, <3>1
    <3>4. QED
      BY <3>1, <3>2, <3>3
  <2>4. /\ 8 + n \in 1 .. 10 + n /\ ~(8 + n <= 7 + n) /\ (8 + n) - (7 + n) = 1
        /\ 9 + n \in 1 .. 10 + n /\ ~(9 + n <= 7 + n) /\ (9 + n) - (7 + n) = 2
        /\ 10 + n \in 1 .. 10 + n /\ ~(10 + n <= 7 + n) /\ (10 + n) - (7 + n) = 3
    OBVIOUS
  <2>5. w[8 + n] = ApplyLast[(8 + n) - (7 + n)] /\ w[9 + n] = ApplyLast[(9 + n) - (7 + n)]
        /\ w[10 + n] = ApplyLast[(10 + n) - (7 + n)]
    BY <2>1, <2>4
  <2>6. QED
    BY <2>1, <2>2, <2>3, <2>4, <2>5
<1>10. Program["apply"] = w
  BY <1>1, <1>8
<1>11. QED
  BY <1>3, <1>5, <1>9, <1>10

\* Where apply stands, by the name of its step.
LEMMA ApplyAt ==
  ASSUME NEW p \in 1 .. Len(Program["apply"])
  PROVE  LET s == Program["apply"][p]  n == Len(Migrations) IN
         /\ s = "quiesce" <=> p = 2
         /\ s = "create-backup" <=> p = 4
         /\ s = "source-switch" <=> p = 6
         /\ s = "runtime-switch" <=> p = 7
         /\ s \in Range(Migrations) <=> p \in 8 .. 7 + n
         /\ s = "install-automation" <=> p = 8 + n
         /\ s = "publish-snapshot" <=> p = 10 + n
<1>1. PICK n \in Nat : n = Len(Migrations)
  BY ApplyPlaces
<1> DEFINE s == Program["apply"][p]
           own == {"capture-inventory", "quiesce", "predeploy-adapter-check", "create-backup",
                   "capture-artifacts", "source-switch", "runtime-switch",
                   "install-automation", "requiesce", "publish-snapshot"}
<1>2. own \cap Range(Migrations) = {}
  BY MigrationNames DEF OwnSteps
<1>3. p \in 1 .. 10 + n
  BY <1>1, ApplyPlaces
<1>4. CASE p \in 8 .. 7 + n
  <2>1. PICK i \in 1 .. n : p = 7 + i
    <3>1. p - 7 \in 1 .. n /\ p = 7 + (p - 7)
      BY <1>4
    <3>2. QED
      BY <3>1
  <2>2. s = Migrations[i]
    BY <1>1, <2>1, ApplyPlaces
  <2>3. Migrations \in Seq(STRING)
    BY ReleaseAssumption
  <2>4. s \in Range(Migrations)
    BY <1>1, <2>2, <2>3 DEF Range
  <2>5. s \notin own
    BY <1>2, <2>4
  <2>6. QED
    BY <1>1, <1>4, <2>4, <2>5
<1>5. CASE p \notin 8 .. 7 + n
  <2>1. p \in 1 .. 7 \/ p = 8 + n \/ p = 9 + n \/ p = 10 + n
    BY <1>3, <1>5
  <2>2. s \in own /\ s \notin Range(Migrations)
    <3>1. \/ p = 1 \/ p = 2 \/ p = 3 \/ p = 4 \/ p = 5 \/ p = 6 \/ p = 7
          \/ p = 8 + n \/ p = 9 + n \/ p = 10 + n
      BY <2>1
    <3>2. s \in own
      BY <1>1, <3>1, ApplyPlaces
    <3>3. QED
      BY <1>2, <3>2
  <2>3. CASE p \in 1 .. 7
    <3>1. p = 1 \/ p = 2 \/ p = 3 \/ p = 4 \/ p = 5 \/ p = 6 \/ p = 7
      BY <2>3
    <3>2. p # 8 + n /\ p # 10 + n
      BY <2>3
    <3>3. QED
      BY <1>1, <1>5, <2>2, <3>1, <3>2, ApplyPlaces
  <2>4. CASE p = 8 + n
    BY <1>1, <1>5, <2>2, <2>4, ApplyPlaces
  <2>5. CASE p = 9 + n
    BY <1>1, <1>5, <2>2, <2>5, ApplyPlaces
  <2>6. CASE p = 10 + n
    BY <1>1, <1>5, <2>2, <2>6, ApplyPlaces
  <2>7. QED
    BY <2>1, <2>3, <2>4, <2>5, <2>6
<1>6. QED
  BY <1>4, <1>5

-----------------------------------------------------------------------------
(* What the running command may rely on.                                    *)

LEMMA AppliedBefore ==
  ASSUME ReleaseInv, Stands, tool.cmd = "apply"
  PROVE  /\ tool.pos >= 5 => IsDone("create-backup")
         /\ tool.pos >= 7 => IsDone("source-switch")
         /\ tool.pos >= 8 => IsDone("runtime-switch")
         /\ tool.pos >= 8 + Len(Migrations) => \A m \in Range(Migrations) : IsDone(m)
         /\ tool.pos >= 9 + Len(Migrations) => IsDone("install-automation")
         /\ tool.pos >= 11 + Len(Migrations) => IsDone("publish-snapshot")
<1>1. PICK n \in Nat : n = Len(Migrations)
  BY ApplyPlaces
<1>2. PICK p \in Nat : p = tool.pos
  BY ToolTyped DEF ReleaseInv
<1>3. \A q \in 1 .. 10 + n : q < p => IsDone(Program["apply"][q])
  BY <1>1, <1>2, ApplyPlaces DEF Stands, PassedBy
<1>4. /\ 4 \in 1 .. 10 + n /\ 6 \in 1 .. 10 + n /\ 7 \in 1 .. 10 + n
      /\ 8 + n \in 1 .. 10 + n /\ 10 + n \in 1 .. 10 + n
  OBVIOUS
<1>5. /\ p >= 5 => 4 < p
      /\ p >= 7 => 6 < p
      /\ p >= 8 => 7 < p
      /\ p >= 9 + n => 8 + n < p
      /\ p >= 11 + n => 10 + n < p
  OBVIOUS
<1>6. /\ Program["apply"][4] = "create-backup" /\ Program["apply"][6] = "source-switch"
      /\ Program["apply"][7] = "runtime-switch"
      /\ Program["apply"][8 + n] = "install-automation"
      /\ Program["apply"][10 + n] = "publish-snapshot"
  BY <1>1, ApplyPlaces
<1>7. ASSUME p >= 8 + n, NEW m \in Range(Migrations) PROVE IsDone(m)
  <2>1. PICK i \in 1 .. n : Migrations[i] = m
    BY <1>1, ReleaseAssumption DEF Range
  <2>2. 7 + i \in 1 .. 10 + n /\ 7 + i < p
    BY <1>7
  <2>3. Program["apply"][7 + i] = m
    BY <1>1, <2>1, ApplyPlaces
  <2>4. QED
    BY <1>3, <2>2, <2>3
<1>8. QED
  BY <1>1, <1>2, <1>3, <1>4, <1>5, <1>6, <1>7

\* What a step of apply rests on: the receipts of the steps before it, and
\* that the producers are stopped while the release changes.
LEMMA StepOfApply ==
  ASSUME ReleaseInv, Stands, NEW s, At(s),
         s \in {"create-backup", "source-switch", "runtime-switch", "install-automation",
                "publish-snapshot"} \cup Range(Migrations)
  PROVE  /\ tool.cmd = "apply" /\ saved.phase = "applying"
         /\ s = "source-switch" => IsDone("create-backup") /\ ~host.producing
         /\ s = "runtime-switch" => IsDone("source-switch") /\ ~host.producing
         /\ s \in Range(Migrations) => IsDone("runtime-switch") /\ ~host.producing
         /\ s \in {"install-automation", "publish-snapshot"} =>
               IsDone("source-switch") /\ IsDone("runtime-switch") /\ \A m \in Range(Migrations) : IsDone(m)
         /\ s = "publish-snapshot" => IsDone("install-automation")
<1>1. tool.cmd # None /\ ~Finished /\ Program[tool.cmd][tool.pos] = s
  BY DEF At
<1>2. tool.cmd = "apply" /\ saved.phase = "applying"
  BY <1>1, ToolTyped DEF ReleaseInv, Placed, ToolFits, Phase
<1>3. PICK n \in Nat : n = Len(Migrations)
  BY ApplyPlaces
<1>4. tool.pos \in 1 .. Len(Program["apply"]) /\ tool.pos \in Nat
  BY <1>1, <1>2, ToolTyped DEF ReleaseInv
<1>5. /\ s = "source-switch" => tool.pos = 6
      /\ s = "runtime-switch" => tool.pos = 7
      /\ s \in Range(Migrations) => tool.pos \in 8 .. 7 + n
      /\ s = "install-automation" => tool.pos = 8 + n
      /\ s = "publish-snapshot" => tool.pos = 10 + n
  BY <1>1, <1>2, <1>3, <1>4, ApplyAt
<1>6. tool.pos > 2 /\ tool.pos <= 7 + n => ~host.producing
  BY <1>2, <1>3 DEF Stands
<1>7. /\ tool.pos >= 5 => IsDone("create-backup")
      /\ tool.pos >= 7 => IsDone("source-switch")
      /\ tool.pos >= 8 => IsDone("runtime-switch")
      /\ tool.pos >= 8 + n => \A m \in Range(Migrations) : IsDone(m)
      /\ tool.pos >= 9 + n => IsDone("install-automation")
  BY <1>2, <1>3, AppliedBefore
<1>8. /\ s = "source-switch" => IsDone("create-backup") /\ ~host.producing
      /\ s = "runtime-switch" => IsDone("source-switch") /\ ~host.producing
  BY <1>4, <1>5, <1>6, <1>7
<1>9. s \in Range(Migrations) => IsDone("runtime-switch") /\ ~host.producing
  <2>1. s \in Range(Migrations) => tool.pos >= 8 /\ tool.pos > 2 /\ tool.pos <= 7 + n
    BY <1>4, <1>5
  <2>2. QED
    BY <2>1, <1>6, <1>7
<1>10. s \in {"install-automation", "publish-snapshot"} =>
               IsDone("source-switch") /\ IsDone("runtime-switch") /\ \A m \in Range(Migrations) : IsDone(m)
  <2>1. s \in {"install-automation", "publish-snapshot"} =>
           tool.pos >= 7 /\ tool.pos >= 8 /\ tool.pos >= 8 + n
    BY <1>4, <1>5
  <2>2. QED
    BY <2>1, <1>7
<1>11. s = "publish-snapshot" => IsDone("install-automation")
  <2>1. s = "publish-snapshot" => tool.pos >= 9 + n
    BY <1>4, <1>5
  <2>2. QED
    BY <2>1, <1>7
<1>12. QED
  BY <1>2, <1>8, <1>9, <1>10, <1>11

LEMMA AppliedAll ==
  ASSUME ReleaseInv, Stands, tool.cmd = "apply", Finished
  PROVE  \A s \in ForwardSteps : IsDone(s)
<1>1. PICK n \in Nat : n = Len(Migrations)
  BY ApplyPlaces
<1>2. tool.pos \in Nat /\ tool.pos > 10 + n
  BY <1>1, ToolTyped, ApplyPlaces DEF ReleaseInv, Finished
<1>3. /\ tool.pos >= 5 /\ tool.pos >= 7 /\ tool.pos >= 8 /\ tool.pos >= 8 + n /\ tool.pos >= 9 + n
      /\ tool.pos >= 11 + n
  BY <1>2
<1>4. QED
  BY <1>1, <1>3, AppliedBefore DEF ForwardSteps

LEMMA RolledBackBefore ==
  ASSUME ReleaseInv, Stands, tool.cmd = "rollback"
  PROVE  /\ tool.pos > 3 => IsDone("restore-source")
         /\ tool.pos > 4 => IsDone("restore-artifacts")
         /\ tool.pos > 5 => IsDone("restore-runtimes")
         /\ tool.pos > 6 => IsDone("restore-database")
         /\ tool.pos > 8 => IsDone("restore-units")
         /\ tool.pos > 9 => \A s \in BackSteps : IsDone(s)
<1>1. \A q \in 1 .. 9 : q < tool.pos => IsDone(Program["rollback"][q])
  BY DEF Stands, PassedBy
<1>2. /\ Program["rollback"][3] = "restore-source" /\ Program["rollback"][4] = "restore-artifacts"
      /\ Program["rollback"][5] = "restore-runtimes"
      /\ Program["rollback"][6] = "restore-database" /\ Program["rollback"][8] = "restore-units"
      /\ Program["rollback"][9] = "rollback-snapshot"
  BY DEF Program
<1>3. tool.pos \in Nat
  BY ToolTyped DEF ReleaseInv
<1>4. /\ tool.pos > 3 => IsDone("restore-source")
      /\ tool.pos > 4 => IsDone("restore-artifacts")
      /\ tool.pos > 5 => IsDone("restore-runtimes")
      /\ tool.pos > 6 => IsDone("restore-database")
      /\ tool.pos > 8 => IsDone("restore-units")
      /\ tool.pos > 9 => IsDone("rollback-snapshot")
  BY <1>1, <1>2, <1>3
<1>5. QED
  BY <1>3, <1>4 DEF BackSteps

\* What a step of a rollback rests on.
LEMMA StepOfRollback ==
  ASSUME ReleaseInv, Stands, NEW s \in BackSteps, At(s)
  PROVE  /\ tool.cmd = "rollback" /\ saved.phase = "rolling-back" /\ tool.pos \in 1 .. 12
         /\ IsDone("create-backup")
         /\ s # "restore-source" => IsDone("restore-source")
         /\ s = "restore-source" => ~host.autopush
         /\ s \in {"restore-source", "restore-artifacts", "restore-runtimes", "restore-database"} =>
               ~host.producing
         /\ s \in {"restore-units", "rollback-snapshot"} => IsDone("restore-database")
<1>1. tool.cmd # None /\ ~Finished /\ Program[tool.cmd][tool.pos] = s
  BY DEF At
<1>2. s \notin Range(Migrations)
  BY MigrationNames DEF BackSteps, OwnSteps
<1>3. tool.cmd = "rollback" /\ tool.pos \in 1 .. 12
  <2>1. tool.cmd \in Commands /\ tool.pos \in 1 .. Len(Program[tool.cmd])
    BY <1>1, ToolTyped DEF ReleaseInv
  <2>2. CASE tool.cmd = "apply"
    BY <1>1, <1>2, <2>1, <2>2, ApplyList DEF ApplySteps, BackSteps
  <2>3. CASE tool.cmd \in {"verify", "abort", "resume"}
    <3>1. tool.pos \in 1 .. 3
      <4>1. /\ Len(Program["verify"]) = 3 /\ Len(Program["abort"]) = 3
            /\ Len(Program["resume"]) = 3
        BY DEF Program
      <4>2. QED
        BY <2>1, <2>3, <4>1
    <3>2. PICK p \in {1, 2, 3} : p = tool.pos
      BY <3>1
    <3>3. s = Program[tool.cmd][p]
      BY <1>1, <3>2
    <3>4. Program["verify"][p] \notin BackSteps
      BY DEF Program, BackSteps
    <3>5. Program["abort"][p] \notin BackSteps
      BY DEF Program, BackSteps
    <3>6. Program["resume"][p] \notin BackSteps
      BY DEF Program, BackSteps
    <3>7. QED
      BY <2>3, <3>3, <3>4, <3>5, <3>6
  <2>4. tool.cmd = "rollback"
    BY <2>1, <2>2, <2>3, CommandNames
  <2>5. QED
    BY <2>1, <2>4, Lengths
<1>4. saved.phase = "rolling-back" /\ IsDone("create-backup")
  BY <1>3 DEF ReleaseInv, ToolFits, Phase, IsDone, None
<1>5. /\ s = "restore-source" => tool.pos = 3
      /\ s = "restore-artifacts" => tool.pos = 4
      /\ s = "restore-runtimes" => tool.pos = 5
      /\ s = "restore-database" => tool.pos = 6
      /\ s = "restore-units" => tool.pos = 8
      /\ s = "rollback-snapshot" => tool.pos = 9
  BY <1>1, <1>3 DEF Program
<1>6. /\ tool.pos = 3 => ~host.autopush
      /\ tool.pos \in 3 .. 6 => ~host.producing
  BY <1>3 DEF Stands, ReleaseInv, ToolFits, From
<1>7. QED
  BY <1>3, <1>4, <1>5, <1>6, RolledBackBefore DEF BackSteps

-----------------------------------------------------------------------------
(* How the tool moves.                                                      *)

\* What a step may not do to the host while a command relies on it.
Steadily ==
  /\ host'.producing => host.producing
  /\ host'.autopush => host.autopush
  /\ host.attached => host'.attached

LEMMA ActedStay ==
  ASSUME tool' = tool, receipts' = receipts
  PROVE  \A s : HasActed(s)' <=> HasActed(s)
BY DEF HasActed, IsDone, At, Finished

LEMMA ActedNot ==
  ASSUME tool'.stage # "acted"
  PROVE  \A s : HasActed(s)' <=> IsDone(s)'
BY DEF HasActed

LEMMA ActedHere ==
  ASSUME ReleaseInv, NEW s, Acting(s), Reach("acted")
  PROVE  \A r : /\ At(r)' <=> r = s
                /\ At(r) <=> r = s
                /\ HasActed(r)' <=> IsDone(r)' \/ r = s
                /\ HasActed(r) <=> IsDone(r)
<1>1. tool.cmd # None /\ ~Finished /\ Step = s /\ tool.stage = "act"
  BY ActingAt
<1>2. tool'.cmd = tool.cmd /\ tool'.pos = tool.pos /\ tool'.stage = "acted"
  BY ToolMoves DEF ReleaseInv
<1>3. \A r : (At(r)' <=> r = s) /\ (At(r) <=> r = s)
  BY <1>1, <1>2 DEF At, Finished, Step
<1>4. QED
  BY <1>1, <1>2, <1>3 DEF HasActed

LEMMA StandsStop == ASSUME tool' = Idle PROVE Stands'
<1>1. tool'.cmd = None /\ \A s : ~At(s)'
  BY DEF Idle, At
<1>2. QED
  BY <1>1 DEF Stands, None

LEMMA StandsStay ==
  ASSUME Stands, tool' = tool, receipts' = receipts, Steadily
  PROVE  Stands'
<1>1. /\ \A s : At(s)' <=> At(s)
      /\ \A s : IsDone(s)' <=> IsDone(s)
      /\ \A q : PassedBy(q)' <=> PassedBy(q)
  BY DEF At, Finished, IsDone, PassedBy
<1>2. QED
  BY <1>1 DEF Stands, Steadily

LEMMA StandsActed ==
  ASSUME ReleaseInv, Stands, NEW s, Acting(s), Reach("acted"), receipts' = receipts,
         host'.producing => host.producing \/ s \in {"install-automation"} \cup Activations,
         host'.autopush => host.autopush \/ s \in Activations,
         host.attached => host'.attached \/ s = "restore-source",
         s \in QuiesceSteps => ~host'.producing /\ ~host'.autopush
  PROVE  Stands'
<1>1. tool.cmd # None /\ ~Finished /\ Step = s /\ tool.stage = "act"
  BY ActingAt
<1>2. tool'.cmd = tool.cmd /\ tool'.pos = tool.pos /\ tool'.stage = "acted"
  BY ToolMoves DEF ReleaseInv
<1>3. \A r : (At(r)' <=> r = s) /\ (At(r) <=> r = s)
  BY ActedHere
<1>4. /\ \A r : IsDone(r)' <=> IsDone(r)
      /\ \A q : PassedBy(q)' <=> PassedBy(q)
  BY <1>1, <1>2 DEF IsDone, PassedBy
<1>5. /\ tool.cmd \in Commands /\ tool.pos \in 1 .. Len(Program[tool.cmd]) /\ tool.pos \in Nat
      /\ Placed(tool.cmd, tool.pos, s) /\ Program[tool.cmd][tool.pos] = s
  BY <1>1, ToolTyped DEF ReleaseInv, Step
<1>6. \A r \in Steps \ QuiesceSteps :
        At(r)' /\ tool'.stage \in {"act", "acted"} => receipts'[r] = "running"
  BY <1>1, <1>2, <1>3 DEF Stands
<1>7. tool.cmd = "apply" /\ tool.pos <= 7 + Len(Migrations) /\ tool.pos >= 2 => ~host'.producing
  <2>1. SUFFICES ASSUME tool.cmd = "apply", tool.pos <= 7 + Len(Migrations), tool.pos >= 2
                 PROVE  ~host'.producing
    OBVIOUS
  <2>2. CASE tool.pos = 2
    BY <2>1, <2>2, <1>5, ApplyAt DEF QuiesceSteps
  <2>3. CASE tool.pos > 2
    <3>1. ~host.producing
      BY <2>1, <2>3 DEF Stands
    <3>2. s \notin Activations
      BY <2>1, <1>5 DEF Placed
    <3>3. s # "install-automation"
      <4>1. PICK n \in Nat : n = Len(Migrations)
        BY ApplyPlaces
      <4>2. tool.pos # 8 + n
        BY <2>1, <1>5, <4>1
      <4>3. QED
        BY <2>1, <1>5, <4>1, <4>2, ApplyAt
    <3>4. QED
      BY <3>1, <3>2, <3>3
  <2>4. QED
    BY <2>1, <2>2, <2>3, <1>5
<1>8. tool.cmd = "rollback" /\ tool.pos <= 3 => ~host'.autopush
  <2>1. SUFFICES ASSUME tool.cmd = "rollback", tool.pos <= 3 PROVE ~host'.autopush
    OBVIOUS
  <2>2. CASE tool.pos = 1
    BY <2>1, <2>2, <1>5 DEF Placed, QuiesceSteps
  <2>3. CASE tool.pos > 1
    <3>1. ~host.autopush
      BY <2>1, <2>3 DEF Stands
    <3>2. s \notin Activations
      BY <2>1, <1>5 DEF Placed
    <3>3. QED
      BY <3>1, <3>2
  <2>4. QED
    BY <2>2, <2>3, <1>5
<1>9. tool.cmd = "resume" => host'.attached
  BY <1>5 DEF Stands, Placed
<1>10. tool.pos > 2 \/ tool.pos = 2 => tool.pos >= 2
  BY <1>5
<1>11. QED
  BY <1>2, <1>4, <1>6, <1>7, <1>8, <1>9, <1>10 DEF Stands

LEMMA StandsStage ==
  ASSUME ReleaseInv, Stands, AtStep, NEW st \in {"act", "save"}, Reach(st), Steadily,
         \A r \in Steps \ {Step} : receipts'[r] = receipts[r],
         IsDone(Step) => receipts'[Step] = "complete" \/ Step \in FreshSteps,
         st = "save" => receipts'[Step] = "complete" /\ (tool.stage = "acted" \/ Step \notin QuiesceSteps),
         st = "act" => receipts'[Step] = "running" \/ Step \in QuiesceSteps,
         tool.stage # "save"
  PROVE  Stands'
<1>1. /\ tool.cmd \in Commands /\ tool.cmd # None /\ Step \in Steps
      /\ tool'.cmd = tool.cmd /\ tool'.pos = tool.pos /\ tool'.stage = st
      /\ Placed(tool.cmd, tool.pos, Step)
  BY StageAt
<1>2. /\ tool.pos \in 1 .. Len(Program[tool.cmd]) /\ tool.pos \in Nat
      /\ Program[tool.cmd][tool.pos] = Step /\ ~Finished
  BY ToolTyped DEF ReleaseInv, Step, AtStep, AtOneOf
<1>3. \A r : At(r)' <=> r = Step
  BY <1>1, <1>2 DEF At, Finished, Step
<1>4. ASSUME NEW r \in Steps, IsDone(r), r \notin FreshSteps PROVE IsDone(r)'
  BY <1>4 DEF IsDone
<1>5. \A r \in Steps \ QuiesceSteps :
        At(r)' /\ tool'.stage \in {"act", "acted"} => receipts'[r] = "running"
  BY <1>1, <1>3
<1>6. ASSUME NEW q \in Nat, PassedBy(q)' PROVE PassedBy(q) \/ (q = tool.pos /\ receipts'[Step] = "complete")
  BY <1>1, <1>6 DEF PassedBy
<1>7. ASSUME tool.cmd = "apply", NEW q \in 1 .. Len(Program["apply"]), PassedBy(q)'
      PROVE  IsDone(Program["apply"][q])'
  <2>1. Program["apply"][q] \in Steps \ FreshSteps
    <3>1. Placed("apply", q, Program["apply"][q]) /\ "apply" \in Commands
      BY CommandNames, Places
    <3>2. QED
      BY <3>1 DEF Placed, FreshSteps
  <2>2. CASE PassedBy(q)
    BY <1>4, <1>7, <2>1, <2>2 DEF Stands
  <2>3. CASE q = tool.pos /\ receipts'[Step] = "complete"
    BY <1>2, <1>7, <2>3 DEF IsDone
  <2>4. q \in Nat
    OBVIOUS
  <2>5. QED
    BY <1>6, <1>7, <2>2, <2>3, <2>4
<1>8. ASSUME tool.cmd = "rollback", NEW q \in 1 .. 9, PassedBy(q)'
      PROVE  IsDone(Program["rollback"][q])'
  <2>1. Program["rollback"][q] \in Steps \ FreshSteps
    <3>1. q \in 1 .. Len(Program["rollback"]) /\ "rollback" \in Commands
      <4>1. Len(Program["rollback"]) = 12 /\ "rollback" \in Commands
        BY CommandNames, Lengths
      <4>2. QED
        BY <4>1
    <3>2. Placed("rollback", q, Program["rollback"][q])
      BY <3>1, Places
    <3>3. QED
      BY <3>2 DEF Placed, FreshSteps
  <2>2. CASE PassedBy(q)
    BY <1>4, <1>8, <2>1, <2>2 DEF Stands
  <2>3. CASE q = tool.pos /\ receipts'[Step] = "complete"
    BY <1>2, <1>8, <2>3 DEF IsDone
  <2>4. q \in Nat
    OBVIOUS
  <2>5. QED
    BY <1>6, <1>8, <2>2, <2>3, <2>4
<1>9. ASSUME tool.cmd = "apply", tool.pos <= 7 + Len(Migrations),
             tool.pos > 2 \/ (tool.pos = 2 /\ st \in {"acted", "save"})
      PROVE  ~host'.producing
  <2>1. tool.pos = 2 => Step \in QuiesceSteps
    BY <1>2, <1>9, ApplyAt DEF QuiesceSteps
  <2>2. QED
    BY <1>9, <2>1 DEF Stands, Steadily
<1>10. ASSUME tool.cmd = "rollback", tool.pos <= 3, tool.pos > 1 \/ st \in {"acted", "save"}
       PROVE  ~host'.autopush
  <2>1. tool.pos = 1 => Step \in QuiesceSteps
    BY <1>1, <1>10 DEF QuiesceSteps, Placed
  <2>2. tool.pos > 1 \/ tool.pos = 1
    BY <1>2
  <2>3. QED
    BY <1>10, <2>1, <2>2 DEF Stands, Steadily
<1>11. tool.cmd = "resume" => host'.attached
  BY DEF Stands, Steadily
<1>12. QED
  BY <1>1, <1>5, <1>7, <1>8, <1>9, <1>10, <1>11 DEF Stands

LEMMA StandsAdvance ==
  ASSUME ReleaseInv, Stands, tool.cmd # None, ~Finished, Advance, receipts' = receipts, Steadily,
         tool.stage = "save" \/ At("attempt")
  PROVE  Stands'
<1>1. /\ tool.cmd \in Commands /\ tool'.cmd = tool.cmd /\ tool'.pos = tool.pos + 1
      /\ tool'.stage = "begin" /\ tool.pos \in Nat
  BY AdvancedTo
<1>2. Placed(tool.cmd, tool.pos, Program[tool.cmd][tool.pos]) /\ tool.pos \in 1 .. Len(Program[tool.cmd])
  BY ToolTyped DEF ReleaseInv
<1>3. At("attempt") => tool.cmd # "apply" /\ (tool.cmd = "rollback" => tool.pos = 10)
  BY <1>2 DEF At, Placed
<1>4. \A r : IsDone(r)' <=> IsDone(r)
  BY DEF IsDone
<1>5. ASSUME NEW q \in Nat, PassedBy(q)', q < tool.pos \/ ~At("attempt") PROVE PassedBy(q)
  BY <1>1, <1>5 DEF PassedBy
<1>6. tool.cmd = "apply" =>
        \A q \in 1 .. Len(Program["apply"]) : PassedBy(q)' => IsDone(Program["apply"][q])'
  BY <1>1, <1>3, <1>4, <1>5 DEF Stands
<1>7. tool.cmd = "rollback" =>
        \A q \in 1 .. 9 : PassedBy(q)' => IsDone(Program["rollback"][q])'
  BY <1>1, <1>3, <1>4, <1>5 DEF Stands
<1>8. PICK p \in Nat : p = tool.pos /\ p >= 1
  BY <1>1, <1>2
<1>9. PICK n \in Nat : n = Len(Migrations)
  BY ApplyPlaces
<1>10. ASSUME tool.cmd = "apply", p + 1 <= 7 + n, p + 1 > 2 PROVE ~host'.producing
  BY <1>3, <1>8, <1>9, <1>10 DEF Stands, Steadily
<1>11. ASSUME tool.cmd = "rollback", p + 1 <= 3 PROVE ~host'.autopush
  BY <1>3, <1>8, <1>11 DEF Stands, Steadily
<1>12. tool.cmd = "resume" => host'.attached
  BY DEF Stands, Steadily
<1>13. \A r \in Steps \ QuiesceSteps :
        At(r)' /\ tool'.stage \in {"act", "acted"} => receipts'[r] = "running"
  BY <1>1
<1>14. /\ tool'.cmd = "apply" =>
            \A q \in 1 .. Len(Program["apply"]) : PassedBy(q)' => IsDone(Program["apply"][q])'
       /\ tool'.cmd = "rollback" =>
            \A q \in 1 .. 9 : PassedBy(q)' => IsDone(Program["rollback"][q])'
       /\ tool'.cmd = "resume" => host'.attached
  BY <1>1, <1>6, <1>7, <1>12
<1>15. /\ tool'.cmd = "apply" /\ tool'.pos <= 7 + Len(Migrations)
             /\ (tool'.pos > 2 \/ (tool'.pos = 2 /\ tool'.stage \in {"acted", "save"})) =>
             ~host'.producing
       /\ tool'.cmd = "rollback" /\ tool'.pos <= 3
             /\ (tool'.pos > 1 \/ tool'.stage \in {"acted", "save"}) => ~host'.autopush
  BY <1>1, <1>8, <1>9, <1>10, <1>11
<1>16. QED
  BY <1>13, <1>14, <1>15 DEF Stands

LEMMA StandsStart ==
  ASSUME ReleaseInv, NEW c \in Commands, Start(c), receipts' = receipts, c = "resume" => host'.attached
  PROVE  Stands'
<1>1. tool'.cmd = c /\ tool'.pos = 1 /\ tool'.stage = "begin"
  BY ToolMoves DEF ReleaseInv
<1>2. \A q \in Nat \ {0} : ~PassedBy(q)'
  BY <1>1 DEF PassedBy
<1>3. QED
  BY <1>1, <1>2 DEF Stands

-----------------------------------------------------------------------------
(* Steps that leave the release alone.                                      *)

\* The host's release, and what of it a step may change.
SameRelease(h, g) ==
  /\ g.head = h.head /\ g.attached = h.attached /\ g.generated = h.generated
  /\ g.live = h.live /\ g.db.applied = h.db.applied /\ g.units = h.units

LEMMA LinkedFields ==
  ASSUME NEW h \in Host, NEW l \in Links, NEW v
  PROVE  LET g == Linked(h, l, v) IN
         /\ g.head = h.head /\ g.attached = h.attached /\ g.generated = h.generated
         /\ g.db = h.db /\ g.units = h.units /\ g.identity = h.identity
         /\ g.producing = h.producing /\ g.autopush = h.autopush
         /\ g.live[l] = v /\ \A k \in Links \ {l} : g.live[k] = h.live[k]
<1>1. PICK f : f = [h.live EXCEPT ![l] = v]
  OBVIOUS
<1>2. f[l] = v /\ \A k \in Links \ {l} : f[k] = h.live[k]
  BY <1>1, HostFields
<1>3. Linked(h, l, v) = [h EXCEPT !.live = f]
  BY <1>1 DEF Linked
<1>4. QED
  BY <1>2, <1>3 DEF Host

LEMMA IdentifiedFields ==
  ASSUME NEW h \in Host, NEW l, NEW v
  PROVE  LET g == Identified(h, l, v) IN
         SameRelease(h, g) /\ g.producing = h.producing /\ g.autopush = h.autopush
<1>1. PICK f : f = [h.identity EXCEPT ![l] = v]
  OBVIOUS
<1>2. Identified(h, l, v) = [h EXCEPT !.identity = f]
  BY <1>1 DEF Identified
<1>3. QED
  BY <1>2 DEF Host, SameRelease

LEMMA DatabaseFieldsAfter ==
  ASSUME NEW h \in Host, NEW x
  PROVE  /\ LET g == Migrated(h, x) IN
            /\ g.head = h.head /\ g.attached = h.attached /\ g.generated = h.generated
            /\ g.live = h.live /\ g.units = h.units
            /\ g.producing = h.producing /\ g.autopush = h.autopush
            /\ g.db.applied = h.db.applied \cup {x}
         /\ LET g == Wrote(h, x) IN
            SameRelease(h, g) /\ g.producing = h.producing /\ g.autopush = h.autopush
<1>1. h.db \in Database
  BY HostFields
<1>2. PICK a, w : a = h.db.applied \cup {x} /\ w = h.db.writes \cup {x}
  OBVIOUS
<1>3. PICK d, e : d = [h.db EXCEPT !.applied = a] /\ e = [h.db EXCEPT !.writes = w]
  OBVIOUS
<1>4. d.applied = a /\ e.applied = h.db.applied
  <2>1. PICK y \in Database : y = h.db
    BY <1>1
  <2>2. [y EXCEPT !.applied = a].applied = a /\ [y EXCEPT !.writes = w].applied = y.applied
    BY DEF Database
  <2>3. QED
    BY <1>3, <2>1, <2>2
<1>5. Migrated(h, x) = [h EXCEPT !.db = d] /\ Wrote(h, x) = [h EXCEPT !.db = e]
  BY <1>2, <1>3 DEF Migrated, Wrote
<1>6. QED
  BY <1>2, <1>4, <1>5 DEF Host, SameRelease

Tracked == ForwardSteps \cup BackSteps

LEMMA TrackedSteps ==
  /\ Tracked \subseteq Steps /\ Tracked \cap (FreshSteps \cup QuiesceSteps) = {}
  /\ ForwardSteps \cap BackSteps = {} /\ Range(Migrations) \subseteq ForwardSteps
  /\ Range(Migrations) \cap (FreshSteps \cup QuiesceSteps \cup BackSteps) = {}
  /\ {"create-backup", "source-switch", "runtime-switch", "install-automation",
      "publish-snapshot"} \cap Range(Migrations) = {}
BY MigrationNames, ActivationNames
   DEF Tracked, ForwardSteps, BackSteps, Steps, OwnSteps, FreshSteps, SemanticSteps, QuiesceSteps

\* The receipts say the same of every tracked step: tried or not, complete or not.
SameStatus ==
  \A s \in Tracked : (IsDone(s)' <=> IsDone(s)) /\ (Untried(s)' <=> Untried(s))
SameVault ==
  vault'.latest = vault.latest /\ vault'.published = vault.published /\ vault'.backup = vault.backup

LEMMA OrderKept == ASSUME Ordered, SameStatus PROVE Ordered'
BY DEF Ordered, SameStatus, Tracked, ForwardSteps, BackSteps

LEMMA PhaseKept == ASSUME PhaseTrue, SameStatus, saved'.phase = saved.phase PROVE PhaseTrue'
BY DEF PhaseTrue, SameStatus, Tracked, ForwardSteps, BackSteps, Untouched, Untried

World == ForwardTrue /\ BackTrue /\ Ordered /\ PhaseTrue /\ Accounted /\ ProducersOnOneRelease

\* A step that leaves the release, the copies and the receipts as they are.
LEMMA WorldSame ==
  ASSUME HostInv, SameRelease(host, host'), SameVault, SameStatus,
         host'.producing => host.producing, host'.autopush => host.autopush,
         saved'.phase = saved.phase, saved'.recorded = saved.recorded,
         saved.runtimes \subseteq saved'.runtimes,
         receipts["install-automation"] \notin {None, "complete"} =>
            receipts'["install-automation"] \notin {None, "complete"},
         \A s \in Tracked : HasActed(s)' => HasActed(s)
  PROVE  World'
<1> USE DEF HostInv, Tracked, ForwardSteps, BackSteps, SameRelease, SameVault
<1>1. Ordered' /\ PhaseTrue'
  BY OrderKept, PhaseKept
<1>2. ForwardTrue'
  <2>1. SUFFICES ASSUME saved.phase \notin RollbackPhases PROVE ForwardTrue'
    BY DEF ForwardTrue
  <2>2. QED
    BY <2>1 DEF ForwardTrue, SameStatus, AllLinks, LatestHas
<1>3. BackTrue'
  BY DEF BackTrue, SameStatus, AllLinks, LatestHas
<1>4. Accounted'
  BY DEF Accounted
<1>5. ProducersOnOneRelease'
  BY DEF ProducersOnOneRelease, OriginalRelease, ApprovedRelease
<1>6. QED
  BY <1>1, <1>2, <1>3, <1>4, <1>5 DEF World

LEMMA HostSame == ASSUME host' = host PROVE SameRelease(host, host') /\ Steadily
BY DEF SameRelease, Steadily

LEMMA StatusSame == ASSUME receipts' = receipts PROVE SameStatus
BY DEF SameStatus, IsDone, Untried

LEMMA QuietFields ==
  ASSUME NEW h \in Host
  PROVE  SameRelease(h, Quiet(h)) /\ ~Quiet(h).producing /\ ~Quiet(h).autopush
BY DEF Quiet, Host, SameRelease

\* The action of a step that is not tracked.
LEMMA HostAct ==
  ASSUME ReleaseInv, HostInv, NEW s, Acting(s), s \notin Tracked, Reach("acted"),
         receipts' = receipts, saved' = saved, SameVault, SameRelease(host, host'), Steadily,
         s \in QuiesceSteps => ~host'.producing /\ ~host'.autopush
  PROVE  HostInv'
<1>1. \A r \in Tracked : HasActed(r)' => HasActed(r)
  BY ActedHere DEF IsDone
<1>2. World'
  BY <1>1, StatusSame, WorldSame DEF Steadily
<1>3. Stands'
  BY StandsActed DEF HostInv, Steadily
<1>4. QED
  BY <1>2, <1>3 DEF HostInv, World

LEMMA HostUntracked ==
  ASSUME ReleaseInv, HostInv,
         \/ CaptureInventory \/ PredeployAdapterCheck \/ CaptureArtifacts \/ SemanticVerify
         \/ VerifyArtifacts \/ CaptureIncident \/ Quiesce
  PROVE  HostInv'
<1> DEFINE Elsewhere == {"capture-inventory", "predeploy-adapter-check", "capture-artifacts",
                         "verify-restored-artifacts", "capture-incident"}
                        \cup SemanticSteps \cup QuiesceSteps
<1>1. Elsewhere \cap Tracked = {}
  BY MigrationNames
     DEF Tracked, ForwardSteps, BackSteps, OwnSteps, SemanticSteps, QuiesceSteps
<1>2. /\ \E s \in Elsewhere : Acting(s) /\ (s \in QuiesceSteps => host' = Quiet(host))
      /\ Reach("acted") /\ receipts' = receipts /\ saved' = saved
      /\ host' = host \/ host' = Quiet(host)
      /\ \/ vault' = vault
         \/ vault' = [vault EXCEPT !.image = "listed"]
         \/ vault' = [vault EXCEPT !.incident = {host.db}]
  <2>1. CASE CaptureInventory
    BY <2>1 DEF CaptureInventory, Observed, QuiesceSteps
  <2>2. CASE PredeployAdapterCheck
    BY <2>2 DEF PredeployAdapterCheck, Observed, QuiesceSteps
  <2>3. CASE CaptureArtifacts
    BY <2>3 DEF CaptureArtifacts, QuiesceSteps
  <2>4. CASE SemanticVerify
    BY <2>4 DEF SemanticVerify, QuiesceSteps, SemanticSteps
  <2>5. CASE VerifyArtifacts
    BY <2>5 DEF VerifyArtifacts, QuiesceSteps
  <2>6. CASE CaptureIncident
    BY <2>6 DEF CaptureIncident, QuiesceSteps
  <2>7. CASE Quiesce
    BY <2>7 DEF Quiesce
  <2>8. QED
    BY <2>1, <2>2, <2>3, <2>4, <2>5, <2>6, <2>7
<1>3. SameVault
  BY <1>2, Typed DEF SameVault, Vault
<1>4. SameRelease(host, host') /\ Steadily /\ (host' = Quiet(host) => ~host'.producing /\ ~host'.autopush)
  <2>1. CASE host' = host
    BY <2>1, HostSame, Typed, QuietFields
  <2>2. CASE host' = Quiet(host)
    BY <2>2, Typed, QuietFields DEF Steadily, SameRelease
  <2>3. QED
    BY <1>2, <2>1, <2>2
<1> HIDE DEF Elsewhere
<1>5. PICK s \in Elsewhere : Acting(s) /\ (s \in QuiesceSteps => host' = Quiet(host))
  BY <1>2
<1>6. s \notin Tracked
  BY <1>1
<1>7. QED
  BY <1>2, <1>3, <1>4, <1>5, <1>6, HostAct

LEMMA HostAttempt == ASSUME ReleaseInv, HostInv, PrepareActivationAttempt PROVE HostInv'
<1>1. /\ At("attempt") /\ Advance /\ (host' = Quiet(host) \/ host' = host)
      /\ UNCHANGED <<saved, receipts, bound, vault, written, faults>>
  BY DEF PrepareActivationAttempt
<1>2. SameRelease(host, host') /\ Steadily
  BY <1>1, HostSame, Typed, QuietFields DEF Steadily, SameRelease
<1>3. tool.cmd # None /\ ~Finished
  BY <1>1 DEF At
<1>4. tool'.stage = "begin"
  BY <1>1, <1>3, AdvancedTo
<1>5. \A r \in Tracked : HasActed(r)' => HasActed(r)
  BY <1>1, <1>4, ActedNot DEF HasActed, IsDone
<1>6. World'
  BY <1>1, <1>2, <1>5, StatusSame, WorldSame DEF SameVault, Steadily
<1>7. Stands'
  BY <1>1, <1>2, <1>3, StandsAdvance DEF HostInv
<1>8. QED
  BY <1>6, <1>7 DEF HostInv, World

LEMMA HostWritten == ASSUME ReleaseInv, HostInv, ProducerWrites PROVE HostInv'
<1>1. host' = Wrote(host, written + 1) /\ UNCHANGED <<saved, receipts, bound, tool, vault, faults>>
  BY DEF ProducerWrites
<1>2. SameRelease(host, host') /\ host'.producing = host.producing /\ host'.autopush = host.autopush
  BY <1>1, Typed, DatabaseFieldsAfter
<1>3. Steadily
  BY <1>2 DEF Steadily, SameRelease
<1>4. World'
  BY <1>1, <1>2, ActedStay, StatusSame, WorldSame DEF SameVault
<1>5. Stands'
  BY <1>1, <1>3, StandsStay DEF HostInv
<1>6. QED
  BY <1>4, <1>5 DEF HostInv, World

LEMMA HostSaved == ASSUME ReleaseInv, HostInv, Save PROVE HostInv'
<1>1. /\ tool.cmd # None /\ ~Finished /\ tool.stage = "save" /\ Advance
      /\ UNCHANGED <<receipts, bound, host, vault, written, faults>>
  BY DEF Save
<1>2. \/ saved' = [saved EXCEPT !.inventory = TRUE, !.manifest = FALSE]
      \/ saved' = [saved EXCEPT !.backup = TRUE]
      \/ saved' = [saved EXCEPT !.manifest = TRUE]
      \/ saved' = [saved EXCEPT !.runtimes = Links]
      \/ saved' = saved
  BY DEF Save
<1>3. /\ saved'.phase = saved.phase /\ saved'.recorded = saved.recorded
      /\ saved.runtimes \subseteq saved'.runtimes
  BY <1>2, Typed DEF StateFile
<1>4. tool'.stage = "begin"
  BY <1>1, AdvancedTo
<1>5. \A r \in Tracked : HasActed(r)' => HasActed(r)
  BY <1>1, <1>4, ActedNot DEF HasActed, IsDone
<1>6. World'
  BY <1>1, <1>3, <1>5, HostSame, StatusSame, WorldSame DEF SameVault, Steadily
<1>7. Stands'
  BY <1>1, HostSame, StandsAdvance DEF HostInv
<1>8. QED
  BY <1>6, <1>7 DEF HostInv, World

LEMMA HostSkipped == ASSUME ReleaseInv, HostInv, Skip PROVE HostInv'
<1>1. /\ AtStep /\ tool.stage = "begin" /\ Skips(Step) /\ Reach("save")
      /\ UNCHANGED <<saved, receipts, bound, host, vault, written, faults>>
  BY DEF Skip
<1>2. tool'.stage = "save" /\ receipts'[Step] = "complete" /\ Step \notin QuiesceSteps
  BY <1>1, StageAt DEF Skips
<1>3. \A r \in Tracked : HasActed(r)' => HasActed(r)
  BY <1>1, <1>2, ActedNot DEF HasActed, IsDone
<1>4. World'
  BY <1>1, <1>3, HostSame, StatusSame, WorldSame DEF SameVault, Steadily
<1>5. Stands'
  BY <1>1, <1>2, HostSame, StandsStage DEF HostInv
<1>6. QED
  BY <1>4, <1>5 DEF HostInv, World

\* Stopped with the release as it was.
LEMMA HostStop ==
  ASSUME ReleaseInv, HostInv, Stop, SameStatus, SameVault, SameRelease(host, host'),
         host'.producing => host.producing, host'.autopush => host.autopush,
         saved'.phase = saved.phase, saved'.recorded = saved.recorded,
         saved'.runtimes = saved.runtimes,
         receipts["install-automation"] \notin {None, "complete"} =>
            receipts'["install-automation"] \notin {None, "complete"}
  PROVE  HostInv'
<1>1. tool' = Idle /\ tool'.stage = "begin"
  BY DEF Stop, Idle
<1>2. \A r \in Tracked : HasActed(r)' => HasActed(r)
  BY <1>1, ActedNot DEF HasActed, SameStatus
<1>3. World'
  BY <1>2, WorldSame
<1>4. Stands'
  BY <1>1, StandsStop
<1>5. QED
  BY <1>3, <1>4 DEF HostInv, World

LEMMA HostRefused == ASSUME ReleaseInv, HostInv, Refuse PROVE HostInv'
<1>1. Stop /\ UNCHANGED <<saved, receipts, bound, host, vault, written, faults>>
  BY DEF Refuse
<1>2. QED
  BY <1>1, HostSame, StatusSame, HostStop DEF SameVault, Steadily

-----------------------------------------------------------------------------
(* Which release the receipts describe.                                     *)

LEMMA ApprovedWhenDone ==
  ASSUME ReleaseInv, HostInv, saved.phase \notin RollbackPhases,
         IsDone("source-switch"), IsDone("runtime-switch"), \A m \in Range(Migrations) : IsDone(m)
  PROVE  ApprovedRelease
<1>1. /\ host.head = "approved" /\ host.generated = "kept" /\ AllLinks("selected")
      /\ \A m \in Range(Migrations) : m \in host.db.applied
  BY DEF HostInv, ForwardTrue, HasActed
<1>2. host.db.applied \subseteq Range(Migrations)
  BY Typed, HostFields, DatabaseFields
<1>3. QED
  BY <1>1, <1>2 DEF ApprovedRelease, AllLinks

LEMMA OriginalWhenUntouched ==
  ASSUME ReleaseInv, HostInv, Untouched, saved.phase \notin RollbackPhases
  PROVE  OriginalRelease /\ host.units = {} /\ vault.backup = {} /\ host.attached
<1>1. /\ Untried("create-backup") /\ Untried("source-switch") /\ Untried("runtime-switch")
      /\ Untried("install-automation") /\ \A m \in Range(Migrations) : Untried(m)
  BY DEF Untouched, Untried
<1>2. /\ host.head = "original" /\ host.generated = "kept" /\ AllLinks("prior")
      /\ host.units = {} /\ vault.backup = {} /\ host.attached
      /\ \A m \in Range(Migrations) : m \notin host.db.applied
  BY <1>1 DEF HostInv, ForwardTrue
<1>3. host.db.applied \subseteq Range(Migrations)
  BY Typed, HostFields, DatabaseFields
<1>4. QED
  BY <1>2, <1>3 DEF OriginalRelease, AllLinks

LEMMA OriginalWhenBack ==
  ASSUME HostInv, \A s \in BackSteps : IsDone(s)
  PROVE  /\ OriginalRelease /\ LatestHas({})
         /\ host.units \cap saved.recorded = {}
         /\ host.units = {} \/ receipts["install-automation"] \notin {None, "complete"}
<1>1. \A s \in BackSteps : HasActed(s)
  BY DEF HasActed
<1>2. QED
  BY <1>1 DEF HostInv, BackTrue, BackSteps, OriginalRelease, AllLinks

-----------------------------------------------------------------------------
(* The steps of apply.                                                      *)

LEMMA ForwardAct ==
  ASSUME ReleaseInv, HostInv, NEW s \in ForwardSteps, Acting(s), receipts' = receipts,
         saved'.phase = saved.phase, Reach("acted") \/ tool' = tool,
         vault'.published["rollback"] = vault.published["rollback"]
  PROVE  /\ BackTrue' /\ Ordered' /\ PhaseTrue'
         /\ At(s) /\ saved.phase \notin RollbackPhases /\ receipts[s] = "running"
         /\ \A r : IsDone(r)' <=> IsDone(r)
         /\ \A r : Untried(r)' <=> Untried(r)
         /\ \A r : HasActed(r)' => IsDone(r) \/ r = s
         /\ tool' = tool => \A r : HasActed(r)' => IsDone(r)
         /\ \A r : HasActed(r) <=> IsDone(r)
<1>1. At(s) /\ tool.stage = "act" /\ saved.phase = "applying"
  BY StepOfApply DEF Acting, HostInv, ForwardSteps
<1>2. saved.phase \notin RollbackPhases
  BY <1>1 DEF RollbackPhases
<1>3. receipts[s] = "running"
  BY <1>1, TrackedSteps DEF HostInv, Stands, Tracked
<1>4. (\A r : IsDone(r)' <=> IsDone(r)) /\ (\A r : Untried(r)' <=> Untried(r))
  BY DEF IsDone, Untried
<1>5. \A r : HasActed(r) <=> IsDone(r)
  BY <1>1 DEF HasActed
<1>6. CASE tool' = tool
  <2>1. \A r : HasActed(r)' => IsDone(r)
    BY <1>5, <1>6, ActedStay
  <2>2. BackTrue'
    <3>1. \A r \in BackSteps : ~IsDone(r)
      BY <1>2 DEF HostInv, ForwardTrue, Untried, IsDone, None
    <3>2. QED
      BY <1>2, <2>1, <3>1 DEF HostInv, ForwardTrue, BackTrue, BackSteps, None
  <2>3. QED
    BY <1>1, <1>2, <1>3, <1>4, <1>5, <2>1, <2>2, StatusSame, OrderKept, PhaseKept DEF HostInv
<1>7. CASE Reach("acted")
  <2>1. \A r : HasActed(r)' => IsDone(r) \/ r = s
    BY <1>4, <1>7, ActedHere
  <2>2. \A r \in BackSteps : r # s /\ ~IsDone(r)
    BY <1>2, TrackedSteps DEF HostInv, ForwardTrue, Untried, IsDone, None
  <2>3. BackTrue'
    BY <1>2, <2>1, <2>2 DEF HostInv, ForwardTrue, BackTrue, BackSteps, None
  <2>4. tool' # tool
    <3>1. tool'.stage = "acted"
      BY <1>7, ToolMoves DEF ReleaseInv
    <3>2. QED
      BY <1>1, <3>1
  <2>5. QED
    BY <1>1, <1>2, <1>3, <1>4, <1>5, <2>1, <2>3, <2>4, StatusSame, OrderKept, PhaseKept DEF HostInv
<1>8. QED
  BY <1>6, <1>7

LEMMA HostBackup == ASSUME ReleaseInv, HostInv, CreateBackup PROVE HostInv'
<1>1. /\ Acting("create-backup") /\ Reach("acted")
      /\ vault' = IF vault.backup = {} THEN [vault EXCEPT !.backup = {host.db}] ELSE vault
      /\ UNCHANGED <<saved, receipts, bound, host, written, faults>>
  BY DEF CreateBackup
<1>2. /\ vault'.latest = vault.latest /\ vault'.published = vault.published
      /\ vault'.backup = vault.backup \/ vault'.backup = {host.db}
  BY <1>1, Typed DEF Vault
<1> DEFINE s == "create-backup"
<1>3. /\ BackTrue' /\ Ordered' /\ PhaseTrue'
      /\ saved.phase \notin RollbackPhases /\ receipts[s] = "running"
      /\ \A r : IsDone(r)' <=> IsDone(r)
      /\ \A r : Untried(r)' <=> Untried(r)
      /\ \A r : HasActed(r)' => IsDone(r) \/ r = s
      /\ \A r : HasActed(r) <=> IsDone(r)
  BY <1>1, <1>2, ForwardAct DEF ForwardSteps
<1>4. host.db.applied = {}
  <2>1. Untried("source-switch") /\ Untried("runtime-switch") /\ \A m \in Range(Migrations) : Untried(m)
    BY <1>3 DEF HostInv, Ordered, IsDone, Untried, None
  <2>2. \A m \in Range(Migrations) : m \notin host.db.applied
    BY <1>3, <2>1 DEF HostInv, ForwardTrue
  <2>3. QED
    BY <2>2, Typed, HostFields, DatabaseFields
<1>5. Accounted'
  BY <1>1, <1>2, <1>4 DEF HostInv, Accounted
<1>6. ForwardTrue'
  <2>1. s \notin Range(Migrations) /\ ~Untried(s)
    BY <1>3, TrackedSteps DEF Untried, None
  <2>2. QED
    BY <1>1, <1>2, <1>3, <2>1 DEF HostInv, ForwardTrue, AllLinks, LatestHas, BackSteps
<1>7. ProducersOnOneRelease'
  BY <1>1 DEF HostInv, ProducersOnOneRelease, OriginalRelease, ApprovedRelease
<1>8. Stands'
  BY <1>1, StandsActed DEF HostInv, QuiesceSteps
<1>9. QED
  BY <1>3, <1>5, <1>6, <1>7, <1>8 DEF HostInv

LEMMA HostSource == ASSUME ReleaseInv, HostInv, SwitchSource PROVE HostInv'
<1>1. /\ Acting("source-switch") /\ Reach("acted")
      /\ host' = [host EXCEPT !.head = "approved", !.generated = "kept"]
      /\ UNCHANGED <<saved, receipts, bound, vault, written, faults>>
  BY DEF SwitchSource
<1>2. /\ host'.head = "approved" /\ host'.generated = "kept" /\ host'.attached = host.attached
      /\ host'.live = host.live /\ host'.db = host.db /\ host'.units = host.units
      /\ host'.producing = host.producing /\ host'.autopush = host.autopush
  BY <1>1, Typed DEF Host
<1> DEFINE s == "source-switch"
<1>3. /\ BackTrue' /\ Ordered' /\ PhaseTrue'
      /\ At(s) /\ saved.phase \notin RollbackPhases /\ receipts[s] = "running"
      /\ \A r : IsDone(r)' <=> IsDone(r)
      /\ \A r : Untried(r)' <=> Untried(r)
      /\ \A r : HasActed(r)' => IsDone(r) \/ r = s
      /\ \A r : HasActed(r) <=> IsDone(r)
  BY <1>1, ForwardAct DEF ForwardSteps
<1>4. ~host.producing
  BY <1>3, StepOfApply DEF HostInv
<1>5. Accounted'
  BY <1>1, <1>2 DEF HostInv, Accounted
<1>6. ForwardTrue'
  <2>1. s \notin Range(Migrations) /\ ~Untried(s)
    BY <1>3, TrackedSteps DEF Untried, None
  <2>2. QED
    BY <1>1, <1>2, <1>3, <2>1 DEF HostInv, ForwardTrue, AllLinks, LatestHas, BackSteps
<1>7. ProducersOnOneRelease'
  BY <1>2, <1>4 DEF HostInv, ProducersOnOneRelease
<1>8. Stands'
  BY <1>1, <1>2, StandsActed DEF HostInv, QuiesceSteps
<1>9. QED
  BY <1>3, <1>5, <1>6, <1>7, <1>8 DEF HostInv

LEMMA HostRuntimes == ASSUME ReleaseInv, HostInv, SwitchRuntime PROVE HostInv'
<1> DEFINE s == "runtime-switch"
<1>1. /\ Acting(s) /\ UNCHANGED <<receipts, bound, vault, written, faults>>
  BY DEF SwitchRuntime
<1>2. CASE Unswitched = {}
  <2>1. Reach("acted") /\ UNCHANGED <<saved, host>>
    BY <1>2 DEF SwitchRuntime
  <2>2. AllLinks("selected")
    BY <1>2 DEF Unswitched, AllLinks
  <2>3. /\ BackTrue' /\ Ordered' /\ PhaseTrue'
        /\ saved.phase \notin RollbackPhases /\ receipts[s] = "running"
        /\ \A r : IsDone(r)' <=> IsDone(r)
        /\ \A r : Untried(r)' <=> Untried(r)
        /\ \A r : HasActed(r)' => IsDone(r) \/ r = s
        /\ \A r : HasActed(r) <=> IsDone(r)
    BY <1>1, <2>1, ForwardAct DEF ForwardSteps
  <2>4. Accounted'
    BY <1>1, <2>1 DEF HostInv, Accounted
  <2>5. ForwardTrue'
    <3>1. s \notin Range(Migrations) /\ ~Untried(s)
      BY <2>3, TrackedSteps DEF Untried, None
    <3>2. QED
      BY <1>1, <2>1, <2>2, <2>3, <3>1 DEF HostInv, ForwardTrue, AllLinks, LatestHas, BackSteps
  <2>6. ProducersOnOneRelease'
    BY <2>1 DEF HostInv, ProducersOnOneRelease, OriginalRelease, ApprovedRelease
  <2>7. Stands'
    BY <1>1, <2>1, StandsActed DEF HostInv, QuiesceSteps
  <2>8. QED
    BY <2>3, <2>4, <2>5, <2>6, <2>7 DEF HostInv
<1>3. CASE Unswitched # {}
  <2> DEFINE l == First(Unswitched)
  <2>1. l \in Links
    BY <1>3, FirstOf DEF Unswitched
  <2>2. tool' = tool
    BY <1>3 DEF SwitchRuntime
  <2>3. \/ host' = Identified(host, l, "written") /\ saved' = saved
        \/ saved' = [saved EXCEPT !.runtimes = @ \cup {l}] /\ host' = host
        \/ host' = Linked(host, l, "selected") /\ saved' = saved /\ l \in saved.runtimes
    BY <1>3 DEF SwitchRuntime
  <2> HIDE DEF l
  <2>4. /\ saved'.phase = saved.phase /\ saved'.recorded = saved.recorded
        /\ saved.runtimes \subseteq saved'.runtimes
    <3>1. CASE saved' = saved
      BY <3>1
    <3>2. CASE saved' = [saved EXCEPT !.runtimes = @ \cup {l}]
      <4>1. PICK R : R = saved.runtimes \cup {l}
        OBVIOUS
      <4>2. saved' = [saved EXCEPT !.runtimes = R]
        BY <3>2, <4>1
      <4>3. QED
        BY <4>1, <4>2, Typed DEF StateFile
    <3>3. QED
      BY <2>3, <3>1, <3>2
  <2>5. /\ host'.head = host.head /\ host'.attached = host.attached
        /\ host'.generated = host.generated /\ host'.db.applied = host.db.applied
        /\ host'.units = host.units
        /\ host'.producing = host.producing /\ host'.autopush = host.autopush
        /\ \A k \in Links : host'.live[k] = host.live[k] \/ k \in saved.runtimes
    <3>1. CASE host' = Identified(host, l, "written")
      BY <3>1, Typed, IdentifiedFields DEF SameRelease
    <3>2. CASE host' = host
      BY <3>2
    <3>3. CASE host' = Linked(host, l, "selected") /\ l \in saved.runtimes
      BY <2>1, <3>3, Typed, LinkedFields
    <3>4. QED
      BY <2>3, <3>1, <3>2, <3>3
  <2>6. /\ BackTrue' /\ Ordered' /\ PhaseTrue'
        /\ At(s) /\ saved.phase \notin RollbackPhases /\ receipts[s] = "running"
        /\ \A r : IsDone(r)' <=> IsDone(r)
        /\ \A r : Untried(r)' <=> Untried(r)
        /\ \A r : HasActed(r)' => IsDone(r)
        /\ \A r : HasActed(r) <=> IsDone(r)
    BY <1>1, <2>2, <2>4, ForwardAct DEF ForwardSteps
  <2>7. ~host.producing
    BY <2>6, StepOfApply DEF HostInv
  <2>8. Accounted'
    BY <1>1, <2>4, <2>5 DEF HostInv, Accounted
  <2>9. ForwardTrue'
    <3>1. s \notin Range(Migrations) /\ ~Untried(s) /\ ~IsDone(s)
      BY <2>6, TrackedSteps DEF Untried, IsDone, None
    <3>2. QED
      BY <1>1, <2>4, <2>5, <2>6, <3>1 DEF HostInv, ForwardTrue, AllLinks, LatestHas, BackSteps
  <2>10. ProducersOnOneRelease'
    BY <2>5, <2>7 DEF HostInv, ProducersOnOneRelease
  <2>11. Stands'
    BY <1>1, <2>2, <2>5, StandsStay DEF HostInv, Steadily
  <2>12. QED
    BY <2>6, <2>8, <2>9, <2>10, <2>11 DEF HostInv
<1>4. QED
  BY <1>2, <1>3

LEMMA HostMigrated == ASSUME ReleaseInv, HostInv, ApplyMigration PROVE HostInv'
<1>1. PICK s \in Range(Migrations) : Acting(s) /\ host' = Migrated(host, s)
  BY DEF ApplyMigration
<1>2. Reach("acted") /\ UNCHANGED <<saved, receipts, bound, vault, written, faults>>
  BY DEF ApplyMigration
<1>3. /\ host'.head = host.head /\ host'.attached = host.attached
      /\ host'.generated = host.generated /\ host'.live = host.live /\ host'.units = host.units
      /\ host'.producing = host.producing /\ host'.autopush = host.autopush
      /\ host'.db.applied = host.db.applied \cup {s}
  BY <1>1, Typed, DatabaseFieldsAfter
<1>4. s \in ForwardSteps
  BY DEF ForwardSteps
<1>5. /\ BackTrue' /\ Ordered' /\ PhaseTrue'
      /\ At(s) /\ saved.phase \notin RollbackPhases /\ receipts[s] = "running"
      /\ \A r : IsDone(r)' <=> IsDone(r)
      /\ \A r : Untried(r)' <=> Untried(r)
      /\ \A r : HasActed(r)' => IsDone(r) \/ r = s
      /\ \A r : HasActed(r) <=> IsDone(r)
  BY <1>1, <1>2, <1>4, ForwardAct
<1>6. ~host.producing
  BY <1>5, StepOfApply DEF HostInv
<1>7. Accounted'
  BY <1>2, <1>3 DEF HostInv, Accounted
<1>8. ForwardTrue'
  <2>1. /\ s \notin {"create-backup", "source-switch", "runtime-switch", "install-automation",
                     "publish-snapshot"} /\ ~Untried(s)
    BY <1>5, TrackedSteps DEF Untried, None
  <2>2. \A m \in Range(Migrations) : /\ Untried(m)' => m \notin host'.db.applied
                                     /\ HasActed(m)' => m \in host'.db.applied
    BY <1>3, <1>5, <2>1 DEF HostInv, ForwardTrue
  <2>3. QED
    BY <1>2, <1>3, <1>5, <2>1, <2>2 DEF HostInv, ForwardTrue, AllLinks, LatestHas, BackSteps
<1>9. ProducersOnOneRelease'
  BY <1>3, <1>6 DEF HostInv, ProducersOnOneRelease
<1>10. Stands'
  <2>1. s \notin QuiesceSteps
    BY TrackedSteps
  <2>2. QED
    BY <1>1, <1>2, <1>3, <2>1, StandsActed DEF HostInv
<1>11. QED
  BY <1>5, <1>7, <1>8, <1>9, <1>10 DEF HostInv

LEMMA HostAutomation == ASSUME ReleaseInv, HostInv, InstallAutomation PROVE HostInv'
<1> DEFINE s == "install-automation"
<1>1. /\ Acting(s) /\ Reach("acted")
      /\ host' = [host EXCEPT !.units = Units, !.producing = TRUE]
      /\ saved' = [saved EXCEPT !.recorded = Units]
      /\ UNCHANGED <<receipts, bound, vault, written, faults>>
  BY DEF InstallAutomation, RecordedAfter
<1>2. /\ saved'.phase = saved.phase /\ saved'.runtimes = saved.runtimes /\ saved'.recorded = Units
  BY <1>1, Typed DEF StateFile
<1>3. /\ host'.head = host.head /\ host'.attached = host.attached
      /\ host'.generated = host.generated /\ host'.live = host.live /\ host'.db = host.db
      /\ host'.units = Units /\ host'.autopush = host.autopush
  BY <1>1, Typed DEF Host
<1>4. /\ BackTrue' /\ Ordered' /\ PhaseTrue'
      /\ At(s) /\ saved.phase \notin RollbackPhases /\ receipts[s] = "running"
      /\ \A r : IsDone(r)' <=> IsDone(r)
      /\ \A r : Untried(r)' <=> Untried(r)
      /\ \A r : HasActed(r)' => IsDone(r) \/ r = s
      /\ \A r : HasActed(r) <=> IsDone(r)
  BY <1>1, <1>2, ForwardAct DEF ForwardSteps
<1>5. ApprovedRelease
  BY <1>4, StepOfApply, ApprovedWhenDone DEF HostInv
<1>6. Accounted'
  BY <1>1, <1>2, <1>3 DEF HostInv, Accounted
<1>7. ForwardTrue'
  <2>1. s \notin Range(Migrations) /\ ~Untried(s)
    BY <1>4, TrackedSteps DEF Untried, None
  <2>2. QED
    BY <1>1, <1>2, <1>3, <1>4, <2>1 DEF HostInv, ForwardTrue, AllLinks, LatestHas, BackSteps
<1>8. ProducersOnOneRelease'
  BY <1>3, <1>5 DEF HostInv, ProducersOnOneRelease, ApprovedRelease
<1>9. Stands'
  BY <1>1, <1>3, StandsActed DEF HostInv, QuiesceSteps
<1>10. QED
  BY <1>4, <1>6, <1>7, <1>8, <1>9 DEF HostInv

\* A published snapshot: the pointer and the copy behind it.
LEMMA PublishedFields ==
  ASSUME NEW u \in Vault, NEW p \in {"apply", "rollback"}, NEW st
  PROVE  /\ Published(u, p, st).latest = u.latest /\ Published(u, p, st).backup = u.backup
         /\ Published(u, p, st).published[p] = st
         /\ \A q \in {"apply", "rollback"} \ {p} : Published(u, p, st).published[q] = u.published[q]
<1>1. PICK f : f = [u.published EXCEPT ![p] = st]
  OBVIOUS
<1>2. f[p] = st /\ \A q \in {"apply", "rollback"} \ {p} : f[q] = u.published[q]
  BY <1>1, VaultFields
<1>3. Published(u, p, st) = [u EXCEPT !.published = f]
  BY <1>1 DEF Published
<1>4. /\ [u EXCEPT !.published = f].latest = u.latest /\ [u EXCEPT !.published = f].backup = u.backup
      /\ [u EXCEPT !.published = f].published = f
  BY DEF Vault
<1>5. QED
  BY <1>2, <1>3, <1>4

LEMMA HostPublished ==
  ASSUME ReleaseInv, HostInv, PublishSnapshot, Acting("publish-snapshot")
  PROVE  HostInv'
<1> DEFINE s == "publish-snapshot"
<1>1. /\ vault' = Published([vault EXCEPT !.latest = {host.db}], "apply", "whole")
      /\ Reach("acted") /\ UNCHANGED <<saved, receipts, bound, host, written, faults>>
  BY DEF PublishSnapshot, Acting, At, Purpose
<1>2. /\ vault'.latest = {host.db} /\ vault'.backup = vault.backup
      /\ vault'.published["rollback"] = vault.published["rollback"]
  <2>1. PICK u : u = [vault EXCEPT !.latest = {host.db}]
    OBVIOUS
  <2>2. {host.db} \in Image
    BY Typed, HostFields, ImageOf
  <2>3. u \in Vault /\ u.latest = {host.db} /\ u.backup = vault.backup /\ u.published = vault.published
    BY <2>1, <2>2, Typed DEF Vault
  <2>4. vault' = Published(u, "apply", "whole")
    BY <1>1, <2>1
  <2>5. QED
    BY <2>3, <2>4, PublishedFields
<1>3. /\ BackTrue' /\ Ordered' /\ PhaseTrue'
      /\ At(s) /\ saved.phase \notin RollbackPhases /\ receipts[s] = "running"
      /\ \A r : IsDone(r)' <=> IsDone(r)
      /\ \A r : Untried(r)' <=> Untried(r)
      /\ \A r : HasActed(r)' => IsDone(r) \/ r = s
      /\ \A r : HasActed(r) <=> IsDone(r)
  BY <1>1, <1>2, ForwardAct DEF ForwardSteps
<1>4. ApprovedRelease
  BY <1>3, StepOfApply, ApprovedWhenDone DEF HostInv
<1>5. LatestHas(Range(Migrations))'
  <2>1. \E d \in vault'.latest : d.applied = Range(Migrations)
    BY <1>2, <1>4 DEF ApprovedRelease
  <2>2. QED
    BY <2>1 DEF LatestHas
<1>6. Accounted'
  BY <1>1, <1>2 DEF HostInv, Accounted
<1>7. ForwardTrue'
  <2>1. s \notin Range(Migrations) /\ ~Untried(s)
    BY <1>3, TrackedSteps DEF Untried, None
  <2>2. QED
    BY <1>1, <1>2, <1>3, <1>5, <2>1 DEF HostInv, ForwardTrue, AllLinks, BackSteps
<1>8. ProducersOnOneRelease'
  BY <1>1 DEF HostInv, ProducersOnOneRelease, OriginalRelease, ApprovedRelease
<1>9. Stands'
  BY <1>1, StandsActed DEF HostInv, QuiesceSteps
<1>10. QED
  BY <1>3, <1>6, <1>7, <1>8, <1>9 DEF HostInv

-----------------------------------------------------------------------------
(* The steps of a rollback.                                                 *)

LEMMA BackAct ==
  ASSUME ReleaseInv, HostInv, NEW s \in BackSteps, Acting(s), receipts' = receipts,
         saved'.phase = saved.phase, Reach("acted") \/ tool' = tool
  PROVE  /\ ForwardTrue' /\ Ordered' /\ PhaseTrue'
         /\ At(s) /\ receipts[s] = "running"
         /\ \A r : IsDone(r)' <=> IsDone(r)
         /\ \A r : HasActed(r)' => IsDone(r) \/ r = s
         /\ tool' = tool => \A r : HasActed(r)' => IsDone(r)
         /\ \A r : HasActed(r) <=> IsDone(r)
<1>1. At(s) /\ tool.stage = "act" /\ saved.phase = "rolling-back"
  BY StepOfRollback DEF Acting, HostInv
<1>2. ForwardTrue'
  BY <1>1 DEF RollbackPhases, ForwardTrue
<1>3. receipts[s] = "running"
  BY <1>1, TrackedSteps DEF HostInv, Stands, Tracked
<1>4. \A r : IsDone(r)' <=> IsDone(r)
  BY DEF IsDone
<1>5. \A r : HasActed(r) <=> IsDone(r)
  BY <1>1 DEF HasActed
<1>6. Ordered' /\ PhaseTrue'
  BY StatusSame, OrderKept, PhaseKept DEF HostInv
<1>7. CASE tool' = tool
  <2>1. \A r : HasActed(r)' => IsDone(r)
    BY <1>5, <1>7, ActedStay
  <2>2. QED
    BY <1>1, <1>2, <1>3, <1>4, <1>5, <1>6, <2>1
<1>8. CASE Reach("acted")
  <2>1. \A r : HasActed(r)' => IsDone(r) \/ r = s
    BY <1>4, <1>8, ActedHere
  <2>2. tool' # tool
    <3>1. tool'.stage = "acted"
      BY <1>8, ToolMoves DEF ReleaseInv
    <3>2. QED
      BY <1>1, <3>1
  <2>3. QED
    BY <1>1, <1>2, <1>3, <1>4, <1>5, <1>6, <2>1, <2>2
<1>9. QED
  BY <1>7, <1>8

LEMMA HostSourceBack == ASSUME ReleaseInv, HostInv, RestoreSource PROVE HostInv'
<1> DEFINE s == "restore-source"
<1>1. /\ Acting(s) /\ Reach("acted")
      /\ \/ host.head = "original" /\ host' = host
         \/ host' = [host EXCEPT !.head = "original", !.attached = FALSE, !.generated = "reset"]
      /\ UNCHANGED <<saved, receipts, bound, vault, written, faults>>
  BY DEF RestoreSource
<1>2. /\ host'.head = "original" /\ host'.live = host.live /\ host'.db = host.db
      /\ host'.units = host.units
      /\ host'.producing = host.producing /\ host'.autopush = host.autopush
  BY <1>1, Typed DEF Host
<1>3. /\ ForwardTrue' /\ Ordered' /\ PhaseTrue' /\ At(s) /\ receipts[s] = "running"
      /\ \A r : HasActed(r)' => IsDone(r) \/ r = s
      /\ \A r : IsDone(r)' <=> IsDone(r)
      /\ \A r : HasActed(r) <=> IsDone(r)
  BY <1>1, BackAct DEF BackSteps
<1>4. ~host.producing /\ ~host.autopush
  BY <1>3, StepOfRollback DEF HostInv, BackSteps
<1>5. ~IsDone("restore-artifacts")
  BY <1>3 DEF HostInv, Ordered, IsDone, Untried, None
<1>6. BackTrue'
  BY <1>1, <1>2, <1>3, <1>5 DEF HostInv, BackTrue, AllLinks, LatestHas
<1>7. Accounted'
  BY <1>1, <1>2 DEF HostInv, Accounted
<1>8. ProducersOnOneRelease'
  BY <1>2, <1>4 DEF ProducersOnOneRelease
<1>9. Stands'
  BY <1>1, <1>2, StandsActed DEF HostInv, QuiesceSteps
<1>10. QED
  BY <1>3, <1>6, <1>7, <1>8, <1>9 DEF HostInv

LEMMA HostArtifactsBack == ASSUME ReleaseInv, HostInv, RestoreArtifacts PROVE HostInv'
<1> DEFINE s == "restore-artifacts"
<1>1. /\ Acting(s) /\ Reach("acted") /\ host' = [host EXCEPT !.generated = "kept"]
      /\ UNCHANGED <<saved, receipts, bound, vault, written, faults>>
  BY DEF RestoreArtifacts
<1>2. /\ host'.head = host.head /\ host'.attached = host.attached /\ host'.generated = "kept"
      /\ host'.live = host.live /\ host'.db = host.db /\ host'.units = host.units
      /\ host'.producing = host.producing /\ host'.autopush = host.autopush
  BY <1>1, Typed DEF Host
<1>3. /\ ForwardTrue' /\ Ordered' /\ PhaseTrue' /\ At(s) /\ receipts[s] = "running"
      /\ \A r : HasActed(r)' => IsDone(r) \/ r = s
      /\ \A r : IsDone(r)' <=> IsDone(r)
      /\ \A r : HasActed(r) <=> IsDone(r)
  BY <1>1, BackAct DEF BackSteps
<1>4. ~host.producing
  BY <1>3, StepOfRollback DEF HostInv, BackSteps
<1>5. BackTrue'
  BY <1>1, <1>2, <1>3 DEF HostInv, BackTrue, AllLinks, LatestHas
<1>6. Accounted'
  BY <1>1, <1>2 DEF HostInv, Accounted
<1>7. ProducersOnOneRelease'
  BY <1>2, <1>4 DEF HostInv, ProducersOnOneRelease
<1>8. Stands'
  BY <1>1, <1>2, StandsActed DEF HostInv, QuiesceSteps
<1>9. QED
  BY <1>3, <1>5, <1>6, <1>7, <1>8 DEF HostInv

LEMMA HostRuntimesBack == ASSUME ReleaseInv, HostInv, RestoreRuntimes PROVE HostInv'
<1> DEFINE s == "restore-runtimes"
<1>1. Acting(s) /\ UNCHANGED <<receipts, bound, vault, written, faults>>
  BY DEF RestoreRuntimes
<1>2. CASE Hydrated = saved.runtimes /\ Unrestored = {}
  <2>1. Reach("acted") /\ UNCHANGED <<saved, host>>
    BY <1>2 DEF RestoreRuntimes
  <2>2. AllLinks("prior")
    BY <1>2 DEF Unrestored, AllLinks, HostInv, Accounted
  <2>3. /\ ForwardTrue' /\ Ordered' /\ PhaseTrue'
        /\ \A r : HasActed(r)' => IsDone(r) \/ r = s
        /\ \A r : IsDone(r)' <=> IsDone(r)
        /\ \A r : HasActed(r) <=> IsDone(r)
    BY <1>1, <2>1, BackAct DEF BackSteps
  <2>4. BackTrue'
    BY <1>1, <2>1, <2>2, <2>3 DEF HostInv, BackTrue, AllLinks, LatestHas
  <2>5. Accounted'
    BY <1>1, <2>1 DEF HostInv, Accounted
  <2>6. ProducersOnOneRelease'
    BY <2>1 DEF HostInv, ProducersOnOneRelease, OriginalRelease, ApprovedRelease
  <2>7. Stands'
    BY <1>1, <2>1, StandsActed DEF HostInv, QuiesceSteps
  <2>8. QED
    BY <2>3, <2>4, <2>5, <2>6, <2>7 DEF HostInv
<1>3. CASE ~(Hydrated = saved.runtimes /\ Unrestored = {})
  <2>1. /\ tool' = tool
        /\ \/ saved' = [saved EXCEPT !.runtimes = Hydrated] /\ host' = host
           \/ /\ Unrestored # {} /\ host' = Linked(host, First(Unrestored), "prior")
              /\ saved' = saved
    BY <1>3 DEF RestoreRuntimes
  <2>2. /\ saved'.phase = saved.phase /\ saved'.recorded = saved.recorded
        /\ saved.runtimes \subseteq saved'.runtimes
    <3>1. CASE saved' = [saved EXCEPT !.runtimes = Hydrated]
      <4>1. saved.runtimes \subseteq Hydrated
        BY DEF Hydrated
      <4>2. QED
        BY <3>1, <4>1, Typed DEF StateFile
    <3>2. CASE saved' = saved
      BY <3>2
    <3>3. QED
      BY <2>1, <3>1, <3>2
  <2>3. /\ host'.head = host.head /\ host'.attached = host.attached
        /\ host'.generated = host.generated /\ host'.db = host.db /\ host'.units = host.units
        /\ host'.producing = host.producing /\ host'.autopush = host.autopush
        /\ \A k \in Links : host'.live[k] = host.live[k] \/ host'.live[k] = "prior"
    <3>1. CASE host' = host
      BY <3>1
    <3>2. CASE Unrestored # {} /\ host' = Linked(host, First(Unrestored), "prior")
      <4>1. First(Unrestored) \in Links
        <5>1. Unrestored \in SUBSET Links
          BY Typed, StateFileChanges DEF Unrestored
        <5>2. QED
          BY <3>2, <5>1, FirstOf
      <4>2. PICK l \in Links : l = First(Unrestored)
        BY <4>1
      <4>3. host' = Linked(host, l, "prior")
        BY <3>2, <4>2
      <4>4. QED
        BY <4>3, Typed, LinkedFields
    <3>3. QED
      BY <2>1, <3>1, <3>2
  <2>4. /\ ForwardTrue' /\ Ordered' /\ PhaseTrue' /\ At(s) /\ receipts[s] = "running"
        /\ \A r : HasActed(r)' => IsDone(r)
        /\ \A r : IsDone(r)' <=> IsDone(r)
        /\ \A r : HasActed(r) <=> IsDone(r)
    BY <1>1, <2>1, <2>2, BackAct DEF BackSteps
  <2>5. ~host.producing
    BY <2>4, StepOfRollback DEF HostInv, BackSteps
  <2>6. BackTrue'
    <3>1. ~HasActed(s)'
      BY <2>4 DEF IsDone
    <3>2. QED
      BY <1>1, <2>2, <2>3, <2>4, <3>1 DEF HostInv, BackTrue, LatestHas
  <2>7. Accounted'
    BY <1>1, <2>2, <2>3 DEF HostInv, Accounted
  <2>8. ProducersOnOneRelease'
    BY <2>3, <2>5 DEF HostInv, ProducersOnOneRelease
  <2>9. Stands'
    BY <1>1, <2>1, <2>3, StandsStay DEF HostInv, Steadily
  <2>10. QED
    BY <2>4, <2>6, <2>7, <2>8, <2>9 DEF HostInv
<1>4. QED
  BY <1>2, <1>3

LEMMA HostDatabaseBack == ASSUME ReleaseInv, HostInv, RestoreDatabase PROVE HostInv'
<1> DEFINE s == "restore-database"
<1>1. /\ Acting(s) /\ Reach("acted")
      /\ vault' = Published([vault EXCEPT !.latest = {}], "apply", None)
      /\ UNCHANGED <<saved, receipts, bound, written, faults>>
  BY DEF RestoreDatabase
<1>2. PICK d \in vault.backup : host' = [host EXCEPT !.db = d]
  BY DEF RestoreDatabase
<1>3. d.applied = {}
  BY DEF HostInv, Accounted
<1>4. /\ host'.head = host.head /\ host'.attached = host.attached
      /\ host'.generated = host.generated /\ host'.live = host.live /\ host'.db = d
      /\ host'.units = host.units
      /\ host'.producing = host.producing /\ host'.autopush = host.autopush
  BY <1>2, Typed DEF Host
<1>5. /\ vault'.backup = vault.backup /\ vault'.published["rollback"] = vault.published["rollback"]
  <2>1. PICK u : u = [vault EXCEPT !.latest = {}]
    OBVIOUS
  <2>2. u \in Vault /\ u.backup = vault.backup /\ u.published = vault.published
    BY <2>1, Typed, ImageOf DEF Vault
  <2>3. vault' = Published(u, "apply", None)
    BY <1>1, <2>1
  <2>4. QED
    BY <2>2, <2>3, PublishedFields
<1>6. /\ ForwardTrue' /\ Ordered' /\ PhaseTrue' /\ At(s) /\ receipts[s] = "running"
      /\ \A r : HasActed(r)' => IsDone(r) \/ r = s
      /\ \A r : IsDone(r)' <=> IsDone(r)
      /\ \A r : HasActed(r) <=> IsDone(r)
  BY <1>1, BackAct DEF BackSteps
<1>7. ~host.producing
  BY <1>6, StepOfRollback DEF HostInv, BackSteps
<1>8. ~IsDone("rollback-snapshot") /\ vault.published["rollback"] = None
  BY <1>6 DEF HostInv, Ordered, BackTrue, IsDone, Untried, None
<1>9. BackTrue'
  BY <1>1, <1>3, <1>4, <1>5, <1>6, <1>8 DEF HostInv, BackTrue, AllLinks, None
<1>10. Accounted'
  BY <1>1, <1>4, <1>5 DEF HostInv, Accounted
<1>11. ProducersOnOneRelease'
  BY <1>4, <1>7 DEF HostInv, ProducersOnOneRelease
<1>12. Stands'
  BY <1>1, <1>4, StandsActed DEF HostInv, QuiesceSteps
<1>13. QED
  BY <1>6, <1>9, <1>10, <1>11, <1>12 DEF HostInv

LEMMA HostUnitsBack == ASSUME ReleaseInv, HostInv, RestoreUnits PROVE HostInv'
<1> DEFINE s == "restore-units"
<1>1. /\ Acting(s) /\ Reach("acted")
      /\ host' = [host EXCEPT !.units = host.units \ saved.recorded]
      /\ UNCHANGED <<saved, receipts, bound, vault, written, faults>>
  BY DEF RestoreUnits
<1>2. /\ host'.head = host.head /\ host'.attached = host.attached
      /\ host'.generated = host.generated /\ host'.live = host.live /\ host'.db = host.db
      /\ host'.producing = host.producing /\ host'.autopush = host.autopush
      /\ host'.units = host.units \ saved.recorded
  BY <1>1, Typed, HostFields DEF Host
<1>3. /\ ForwardTrue' /\ Ordered' /\ PhaseTrue'
      /\ \A r : HasActed(r)' => IsDone(r) \/ r = s
      /\ \A r : IsDone(r)' <=> IsDone(r)
      /\ \A r : HasActed(r) <=> IsDone(r)
  BY <1>1, BackAct DEF BackSteps
<1>4. /\ host'.units \cap saved.recorded = {}
      /\ host'.units = {} \/ receipts["install-automation"] \notin {None, "complete"}
  BY <1>2 DEF HostInv, Accounted
<1>5. BackTrue'
  BY <1>1, <1>2, <1>3, <1>4 DEF HostInv, BackTrue, AllLinks, LatestHas
<1>6. Accounted'
  BY <1>1, <1>2, <1>4 DEF HostInv, Accounted
<1>7. ProducersOnOneRelease'
  BY <1>2 DEF HostInv, ProducersOnOneRelease, OriginalRelease, ApprovedRelease
<1>8. Stands'
  BY <1>1, <1>2, StandsActed DEF HostInv, QuiesceSteps
<1>9. QED
  BY <1>3, <1>5, <1>6, <1>7, <1>8 DEF HostInv

LEMMA HostRepublished ==
  ASSUME ReleaseInv, HostInv, PublishSnapshot, Acting("rollback-snapshot")
  PROVE  HostInv'
<1> DEFINE s == "rollback-snapshot"
<1>1. /\ vault' = Published([vault EXCEPT !.latest = {host.db}], "rollback", "whole")
      /\ Reach("acted") /\ UNCHANGED <<saved, receipts, bound, host, written, faults>>
  BY DEF PublishSnapshot, Acting, At, Purpose
<1>2. vault'.latest = {host.db} /\ vault'.backup = vault.backup
  <2>1. PICK u : u = [vault EXCEPT !.latest = {host.db}]
    OBVIOUS
  <2>2. {host.db} \in Image
    BY Typed, HostFields, ImageOf
  <2>3. u \in Vault /\ u.latest = {host.db} /\ u.backup = vault.backup
    BY <2>1, <2>2, Typed DEF Vault
  <2>4. vault' = Published(u, "rollback", "whole")
    BY <1>1, <2>1
  <2>5. QED
    BY <2>3, <2>4, PublishedFields
<1>3. /\ ForwardTrue' /\ Ordered' /\ PhaseTrue' /\ At(s)
      /\ \A r : HasActed(r)' => IsDone(r) \/ r = s
      /\ \A r : IsDone(r)' <=> IsDone(r)
      /\ \A r : HasActed(r) <=> IsDone(r)
  BY <1>1, BackAct DEF BackSteps
<1>4. IsDone("restore-database") /\ host.db.applied = {}
  BY <1>3, StepOfRollback DEF HostInv, BackSteps, BackTrue
<1>5. LatestHas({})'
  <2>1. \E d \in vault'.latest : d.applied = {}
    BY <1>2, <1>4
  <2>2. QED
    BY <2>1 DEF LatestHas
<1>6. BackTrue'
  BY <1>1, <1>3, <1>4, <1>5 DEF HostInv, BackTrue, AllLinks
<1>7. Accounted'
  BY <1>1, <1>2 DEF HostInv, Accounted
<1>8. ProducersOnOneRelease'
  BY <1>1 DEF HostInv, ProducersOnOneRelease, OriginalRelease, ApprovedRelease
<1>9. Stands'
  BY <1>1, StandsActed DEF HostInv, QuiesceSteps
<1>10. QED
  BY <1>3, <1>6, <1>7, <1>8, <1>9 DEF HostInv

\* Producers start again over one release, whichever command starts them.
LEMMA HostReleased == ASSUME ReleaseInv, HostInv, ReleaseProducers PROVE HostInv'
<1>1. PICK s \in Activations : Acting(s)
  BY DEF ReleaseProducers
<1>2. /\ Reach("acted")
      /\ host' = [host EXCEPT !.producing = TRUE, !.autopush = WithAutopush]
      /\ UNCHANGED <<saved, receipts, bound, vault, written, faults>>
  BY DEF ReleaseProducers
<1>3. /\ SameRelease(host, host') /\ host'.producing = TRUE
      /\ host'.autopush => tool.cmd # "rollback"
  BY <1>2, Typed DEF Host, SameRelease, WithAutopush
<1>4. /\ tool.cmd \in Commands /\ tool.cmd # "apply" /\ saved.phase = Phase[tool.cmd]
      /\ tool.cmd = "rollback" => tool.pos = 12
  BY <1>1, <1>2, ActedAt DEF Placed, ReleaseInv, ToolFits, None
<1>5. (OriginalRelease \/ ApprovedRelease) /\ (tool.cmd # "rollback" => host.attached)
  <2>1. CASE tool.cmd = "verify"
    <3>1. saved.phase = "verifying"
      BY <1>4, <2>1 DEF Phase
    <3>2. saved.phase \notin RollbackPhases /\ \A r \in ForwardSteps : IsDone(r)
      BY <3>1 DEF RollbackPhases, HostInv, PhaseTrue
    <3>3. IsDone("source-switch") /\ IsDone("runtime-switch") /\ \A m \in Range(Migrations) : IsDone(m)
      BY <3>2 DEF ForwardSteps
    <3>4. host.attached
      BY <3>2 DEF HostInv, ForwardTrue
    <3>5. QED
      BY <3>2, <3>3, <3>4, ApprovedWhenDone
  <2>2. CASE tool.cmd = "abort"
    <3>1. saved.phase = "aborting"
      BY <1>4, <2>2 DEF Phase
    <3>2. saved.phase \notin RollbackPhases /\ Untouched
      BY <3>1 DEF RollbackPhases, HostInv, PhaseTrue
    <3>3. QED
      BY <3>2, OriginalWhenUntouched
  <2>3. CASE tool.cmd = "rollback"
    BY <1>4, <2>3, RolledBackBefore, OriginalWhenBack DEF HostInv
  <2>4. CASE tool.cmd = "resume"
    <3>1. saved.phase = "resuming"
      BY <1>4, <2>4 DEF Phase
    <3>2. \A r \in BackSteps : IsDone(r)
      BY <3>1 DEF RollbackPhases, HostInv, PhaseTrue
    <3>3. QED
      BY <2>4, <3>2, OriginalWhenBack DEF HostInv, Stands
  <2>5. QED
    BY <1>4, <2>1, <2>2, <2>3, <2>4, CommandNames
<1>6. \A r \in Tracked : HasActed(r)' <=> HasActed(r)
  <2>1. s \notin Tracked
    BY TrackedSteps DEF FreshSteps
  <2>2. QED
    BY <1>1, <1>2, <2>1, ActedHere DEF IsDone
<1>7. Ordered' /\ PhaseTrue'
  BY <1>2, StatusSame, OrderKept, PhaseKept DEF HostInv
<1>8. ForwardTrue'
  BY <1>2, <1>3, <1>6
     DEF HostInv, ForwardTrue, SameRelease, AllLinks, LatestHas, Untried, Tracked, ForwardSteps
<1>9. BackTrue'
  BY <1>2, <1>3, <1>6
     DEF HostInv, BackTrue, SameRelease, AllLinks, LatestHas, IsDone, Tracked, BackSteps
<1>10. Accounted'
  BY <1>2, <1>3 DEF HostInv, Accounted, SameRelease
<1>11. ProducersOnOneRelease'
  BY <1>3, <1>5 DEF ProducersOnOneRelease, OriginalRelease, ApprovedRelease, SameRelease
<1>12. Stands'
  <2>1. s \notin QuiesceSteps
    BY ActivationNames DEF QuiesceSteps
  <2>2. QED
    BY <1>1, <1>2, <1>3, <2>1, StandsActed DEF HostInv, SameRelease
<1>13. QED
  BY <1>7, <1>8, <1>9, <1>10, <1>11, <1>12 DEF HostInv

-----------------------------------------------------------------------------
(* The receipts around a step.                                              *)

LEMMA OrderGrown ==
  ASSUME Ordered, \A s \in Tracked : (Untried(s)' <=> Untried(s)) /\ (IsDone(s) => IsDone(s)')
  PROVE  Ordered'
BY DEF Ordered, Tracked, ForwardSteps, BackSteps

LEMMA PhaseGrown ==
  ASSUME PhaseTrue, saved'.phase = saved.phase,
         \A s \in Tracked : (Untried(s)' <=> Untried(s)) /\ (IsDone(s) => IsDone(s)')
  PROVE  PhaseTrue'
BY DEF PhaseTrue, Tracked, ForwardSteps, BackSteps, Untouched, Untried

\* The receipt of a step that acted says what is already true of the host.
LEMMA HostCompleted == ASSUME ReleaseInv, HostInv, Complete PROVE HostInv'
<1>1. /\ AtStep /\ tool.stage = "acted" /\ Reach("save")
      /\ receipts' = [receipts EXCEPT ![Step] = "complete"]
      /\ UNCHANGED <<saved, bound, host, vault, written, faults>>
  BY DEF Complete
<1>2. /\ Step \in Steps /\ tool'.stage = "save" /\ receipts'[Step] = "complete"
      /\ \A r \in Steps \ {Step} : receipts'[r] = receipts[r]
  BY <1>1, Typed, StageAt DEF Statuses
<1>3. \A r : At(r) <=> r = Step
  BY <1>1 DEF At, AtStep, AtOneOf, Step
<1>4. Step \in Tracked => receipts[Step] = "running"
  BY <1>1, <1>3, TrackedSteps DEF HostInv, Stands
<1>5. \A r \in Tracked : /\ Untried(r)' <=> Untried(r)
                         /\ IsDone(r) => IsDone(r)'
                         /\ HasActed(r)' <=> HasActed(r)
  <2>1. ASSUME NEW r \in Tracked, r # Step
        PROVE  (Untried(r)' <=> Untried(r)) /\ (IsDone(r)' <=> IsDone(r)) /\ (HasActed(r)' <=> HasActed(r))
    BY <1>2, <1>3, <2>1, ActedNot, TrackedSteps DEF Untried, IsDone, HasActed
  <2>2. ASSUME NEW r \in Tracked, r = Step
        PROVE  ~Untried(r)' /\ ~Untried(r) /\ IsDone(r)' /\ HasActed(r)' /\ HasActed(r)
    BY <1>1, <1>2, <1>3, <1>4, <2>2, ActedNot DEF Untried, IsDone, HasActed, None
  <2>3. QED
    BY <2>1, <2>2
<1>6. Ordered' /\ PhaseTrue'
  BY <1>1, <1>5, OrderGrown, PhaseGrown DEF HostInv
<1>7. ForwardTrue'
  BY <1>1, <1>5 DEF HostInv, ForwardTrue, AllLinks, LatestHas, Tracked, ForwardSteps, BackSteps
<1>8. Step = "install-automation" => saved.phase \notin RollbackPhases
  BY <1>3, StepOfApply DEF HostInv, RollbackPhases
<1>9. receipts["install-automation"] \notin {None, "complete"} /\ Step # "install-automation" =>
        receipts'["install-automation"] \notin {None, "complete"}
  BY <1>2, TrackedSteps DEF Tracked, ForwardSteps
<1>10. BackTrue'
  <2>1. Step = "install-automation" => ~HasActed("restore-units")
    BY <1>3, <1>8 DEF HostInv, ForwardTrue, BackSteps, HasActed, IsDone, Untried, None
  <2>2. QED
    BY <1>1, <1>5, <1>9, <2>1 DEF HostInv, BackTrue, AllLinks, LatestHas, Tracked, BackSteps
<1>11. Accounted'
  <2>1. Step = "install-automation" => host.units \subseteq saved.recorded
    BY <1>1, <1>3, <1>8 DEF HostInv, ForwardTrue, HasActed
  <2>2. QED
    BY <1>1, <1>9, <2>1 DEF HostInv, Accounted
<1>12. ProducersOnOneRelease'
  BY <1>1 DEF HostInv, ProducersOnOneRelease, OriginalRelease, ApprovedRelease
<1>13. Stands'
  BY <1>1, <1>2, HostSame, StandsStage DEF HostInv
<1>14. QED
  BY <1>6, <1>7, <1>10, <1>11, <1>12, <1>13 DEF HostInv

LEMMA HostBegun == ASSUME ReleaseInv, HostInv, Begin PROVE HostInv'
<1>1. /\ AtStep /\ tool.stage = "begin" /\ ~Skips(Step) /\ Reach("act")
      /\ receipts' = IF Step \in QuiesceSteps /\ receipts[Step] = "complete"
                     THEN receipts ELSE [receipts EXCEPT ![Step] = "running"]
      /\ saved' = saved
           \/ (Step = "install-automation" /\ saved' = [saved EXCEPT !.recorded = host.units])
      /\ UNCHANGED <<host, vault, written, faults>>
  BY DEF Begin
<1>s. /\ saved'.phase = saved.phase /\ saved'.runtimes = saved.runtimes
      /\ Step # "install-automation" => saved'.recorded = saved.recorded
  BY <1>1, Typed DEF StateFile
<1>2. /\ Step \in Steps /\ tool'.stage = "act"
      /\ \A r \in Steps \ {Step} : receipts'[r] = receipts[r]
      /\ receipts'[Step] = "running" \/ (Step \in QuiesceSteps /\ receipts'[Step] = "complete")
  BY <1>1, Typed, StageAt DEF Statuses
<1>3. \A r : At(r) <=> r = Step
  BY <1>1 DEF At, AtStep, AtOneOf, Step
<1>4. Step \in Tracked => ~IsDone(Step) /\ receipts'[Step] = "running"
  BY <1>1, <1>2, TrackedSteps DEF Skips, IsDone
<1>5. \A r \in Tracked : /\ Untried(r)' => Untried(r)
                         /\ Untried(r) /\ r # Step => Untried(r)'
                         /\ IsDone(r)' <=> IsDone(r)
                         /\ HasActed(r)' <=> IsDone(r)
                         /\ HasActed(r) <=> IsDone(r)
  <2>1. ASSUME NEW r \in Tracked, r # Step
        PROVE  /\ Untried(r)' <=> Untried(r)
               /\ IsDone(r)' <=> IsDone(r)
               /\ HasActed(r)' <=> IsDone(r)
               /\ HasActed(r) <=> IsDone(r)
    BY <1>2, <1>3, <2>1, ActedNot, TrackedSteps DEF Untried, IsDone, HasActed
  <2>2. ASSUME NEW r \in Tracked, r = Step
        PROVE  ~Untried(r)' /\ ~IsDone(r)' /\ ~IsDone(r) /\ ~HasActed(r)' /\ ~HasActed(r)
    <3>1. r \in Tracked /\ ~IsDone(r) /\ receipts'[r] = "running"
      BY <1>4, <2>2
    <3>2. ~Untried(r)' /\ ~IsDone(r)'
      BY <3>1 DEF Untried, IsDone, None
    <3>3. ~HasActed(r)' /\ ~HasActed(r)
      BY <1>1, <1>2, <3>1, <3>2, ActedNot DEF HasActed
    <3>4. QED
      BY <3>1, <3>2, <3>3
  <2>3. QED
    BY <2>1, <2>2
<1>6. Step \in ForwardSteps =>
        /\ saved.phase = "applying"
        /\ Step = "source-switch" => IsDone("create-backup")
        /\ Step = "runtime-switch" => IsDone("source-switch")
        /\ Step \in Range(Migrations) => IsDone("runtime-switch")
        /\ Step = "install-automation" =>
              IsDone("runtime-switch") /\ \A m \in Range(Migrations) : IsDone(m)
        /\ Step = "publish-snapshot" => IsDone("install-automation")
  BY <1>3, StepOfApply DEF HostInv, ForwardSteps
<1>7. Step \in BackSteps =>
        /\ saved.phase = "rolling-back"
        /\ Step # "restore-source" => IsDone("restore-source")
        /\ Step \in {"restore-units", "rollback-snapshot"} => IsDone("restore-database")
  BY <1>3, StepOfRollback DEF HostInv
<1>8. Ordered'
  <2>1. \A r \in Tracked : ~Untried(r)' => ~Untried(r) \/ r = Step
    BY <1>5
  <2> USE DEF Tracked, ForwardSteps, BackSteps
  <2>2. /\ ~Untried("source-switch")' => IsDone("create-backup")'
        /\ ~Untried("runtime-switch")' => IsDone("source-switch")'
        /\ \A m \in Range(Migrations) : ~Untried(m)' => IsDone("runtime-switch")'
    BY <1>5, <1>6, <2>1 DEF HostInv, Ordered
  <2>3. /\ ~Untried("install-automation")' =>
             IsDone("runtime-switch")' /\ \A m \in Range(Migrations) : IsDone(m)'
        /\ ~Untried("publish-snapshot")' => IsDone("install-automation")'
    BY <1>5, <1>6, <2>1 DEF HostInv, Ordered
  <2>4. /\ ~Untried("restore-artifacts")' => IsDone("restore-source")'
        /\ ~Untried("rollback-snapshot")' => IsDone("restore-database")'
    BY <1>5, <1>7, <2>1 DEF HostInv, Ordered
  <2>5. QED
    BY <2>2, <2>3, <2>4 DEF Ordered
<1>9. PhaseTrue'
  <2>1. saved.phase \in {"aborting", "aborted"} => Untouched'
    <3>1. saved.phase \in {"aborting", "aborted"} =>
             Untouched /\ Step \notin ForwardSteps
      BY <1>6 DEF HostInv, PhaseTrue
    <3>2. QED
      BY <1>5, <3>1 DEF Untouched, Untried, Tracked, ForwardSteps
  <2>2. QED
    BY <1>s, <1>5, <2>1 DEF HostInv, PhaseTrue, Tracked, ForwardSteps, BackSteps
<1>10. ForwardTrue'
  <2>1. SUFFICES ASSUME saved.phase \notin RollbackPhases PROVE ForwardTrue'
    BY <1>s DEF ForwardTrue
  <2>2. \A r \in BackSteps : Untried(r)'
    BY <1>5, <1>7, <2>1 DEF HostInv, ForwardTrue, RollbackPhases, Tracked
  <2>3. HasActed("install-automation")' =>
          HasActed("install-automation") /\ saved'.recorded = saved.recorded
    BY <1>s, <1>4, <1>5 DEF Tracked, ForwardSteps
  <2>4. QED
    BY <1>1, <1>s, <1>5, <2>1, <2>2, <2>3
       DEF HostInv, ForwardTrue, AllLinks, LatestHas, Tracked, ForwardSteps
<1>11. receipts["install-automation"] \notin {None, "complete"} =>
         receipts'["install-automation"] \notin {None, "complete"}
  BY <1>2, <1>4, TrackedSteps DEF Tracked, ForwardSteps, None
<1>12. BackTrue'
  <2>1. Step = "install-automation" => ~IsDone("restore-units")
    BY <1>6 DEF HostInv, ForwardTrue, ForwardSteps, BackSteps, RollbackPhases, IsDone, Untried, None
  <2>2. QED
    BY <1>1, <1>s, <1>5, <1>11, <2>1
       DEF HostInv, BackTrue, AllLinks, LatestHas, Tracked, BackSteps
<1>13. Accounted'
  <2>1. Step = "install-automation" => receipts'["install-automation"] \notin {None, "complete"}
    BY <1>4 DEF Tracked, ForwardSteps, None
  <2>2. QED
    BY <1>1, <1>s, <1>11, <2>1 DEF HostInv, Accounted
<1>14. ProducersOnOneRelease'
  BY <1>1 DEF HostInv, ProducersOnOneRelease, OriginalRelease, ApprovedRelease
<1>15. Stands'
  <2>1. IsDone(Step) => receipts'[Step] = "complete" \/ Step \in FreshSteps
    BY <1>1 DEF Skips, IsDone
  <2>2. QED
    BY <1>1, <1>2, <2>1, HostSame, StandsStage DEF HostInv
<1>16. QED
  BY <1>8, <1>9, <1>10, <1>12, <1>13, <1>14, <1>15 DEF HostInv

\* An effect found on the host is the effect the receipt stands for.
LEMMA HostAdopted == ASSUME ReleaseInv, HostInv, Adopt PROVE HostInv'
<1>1. /\ AtStep /\ tool.stage = "begin" /\ Adopts(Step) /\ Reach("save")
      /\ receipts' = [receipts EXCEPT ![Step] = "complete"]
      /\ host' = IF Step = "source-switch" THEN [host EXCEPT !.generated = "kept"] ELSE host
      /\ vault' = IF Step = "capture-artifacts" THEN [vault EXCEPT !.image = "listed"] ELSE vault
      /\ UNCHANGED <<saved, bound, written, faults>>
  BY DEF Adopt
<1>2. /\ Step \in Steps /\ tool'.stage = "save" /\ receipts'[Step] = "complete"
      /\ \A r \in Steps \ {Step} : receipts'[r] = receipts[r]
      /\ receipts[Step] \in {"running", "failed"} /\ Step \in Reconcilable /\ Reconciled(Step)
  BY <1>1, Typed, StageAt DEF Statuses, Adopts
<1>3. \A r : At(r) <=> r = Step
  BY <1>1 DEF At, AtStep, AtOneOf, Step
<1>4. \A r \in Tracked : /\ Untried(r)' <=> Untried(r)
                         /\ IsDone(r) => IsDone(r)'
                         /\ HasActed(r)' => IsDone(r) \/ r = Step
                         /\ HasActed(r) <=> IsDone(r)
  <2>1. ASSUME NEW r \in Tracked, r # Step
        PROVE  /\ Untried(r)' <=> Untried(r)
               /\ IsDone(r)' <=> IsDone(r)
               /\ HasActed(r)' <=> IsDone(r)
               /\ HasActed(r) <=> IsDone(r)
    BY <1>2, <1>3, <2>1, ActedNot, TrackedSteps DEF Untried, IsDone, HasActed
  <2>2. ASSUME NEW r \in Tracked, r = Step
        PROVE  ~Untried(r)' /\ ~Untried(r) /\ ~IsDone(r) /\ ~HasActed(r)
    BY <1>1, <1>2, <2>2 DEF Untried, IsDone, HasActed, None
  <2>3. QED
    BY <2>1, <2>2
<1>5. /\ host'.head = host.head /\ host'.attached = host.attached
      /\ host'.live = host.live /\ host'.db = host.db /\ host'.units = host.units
      /\ host'.producing = host.producing /\ host'.autopush = host.autopush
      /\ Step = "source-switch" => host'.generated = "kept"
      /\ host'.generated = "kept" \/ host'.generated = host.generated
  BY <1>1, Typed DEF Host
<1>6. SameVault
  BY <1>1, Typed DEF SameVault, Vault
<1>7. Ordered' /\ PhaseTrue'
  BY <1>1, <1>4, OrderGrown, PhaseGrown DEF HostInv
<1>8. /\ Step = "source-switch" => host.head = "approved"
      /\ Step = "runtime-switch" => AllLinks("selected")
      /\ Step \in Range(Migrations) => Step \in host.db.applied
      /\ Step = "publish-snapshot" => vault.published["apply"] = "whole"
      /\ Step = "rollback-snapshot" => vault.published["rollback"] = "whole"
  <2>1. {"source-switch", "runtime-switch", "publish-snapshot", "rollback-snapshot",
         "capture-artifacts", "capture-incident"} \cap Range(Migrations) = {}
    BY MigrationNames DEF OwnSteps
  <2>2. QED
    BY <1>2, <2>1 DEF Reconciled, SwitchedAll, AllLinks, Purpose
<1>9. Step \notin {"create-backup", "install-automation", "restore-source", "restore-artifacts",
                   "restore-runtimes", "restore-database", "restore-units"}
  <2>1. {"create-backup", "install-automation", "restore-source", "restore-artifacts",
         "restore-runtimes", "restore-database", "restore-units"} \cap Range(Migrations) = {}
    BY MigrationNames DEF OwnSteps
  <2>2. QED
    BY <1>2, <2>1 DEF Reconcilable
<1>10. ForwardTrue'
  <2>1. SUFFICES ASSUME saved.phase \notin RollbackPhases PROVE ForwardTrue'
    BY <1>1 DEF ForwardTrue
  <2> USE DEF Tracked, ForwardSteps, BackSteps
  <2>2. LatestHas(Range(Migrations)) => LatestHas(Range(Migrations))'
    BY <1>6 DEF SameVault, LatestHas
  <2>3. /\ host'.attached /\ host'.head # "reconciled"
        /\ \A s \in BackSteps : Untried(s)'
        /\ vault'.published["rollback"] = None
        /\ Untried("create-backup")' => vault'.backup = {}
    BY <1>4, <1>5, <1>6, <2>1 DEF HostInv, ForwardTrue, SameVault
  <2>4. /\ Untried("source-switch")' => host'.head = "original" /\ host'.generated = "kept"
        /\ HasActed("source-switch")' => host'.head = "approved" /\ host'.generated = "kept"
        /\ Untried("runtime-switch")' => AllLinks("prior")'
        /\ HasActed("runtime-switch")' => AllLinks("selected")'
    BY <1>4, <1>5, <1>8, <2>1 DEF HostInv, ForwardTrue, AllLinks
  <2>5. \A m \in Range(Migrations) : /\ Untried(m)' => m \notin host'.db.applied
                                     /\ HasActed(m)' => m \in host'.db.applied
    BY <1>4, <1>5, <1>8, <2>1 DEF HostInv, ForwardTrue
  <2>6. /\ Untried("install-automation")' => host'.units = {}
        /\ HasActed("install-automation")' => host'.units = Units /\ saved'.recorded = Units
    BY <1>1, <1>4, <1>5, <1>9, <2>1 DEF HostInv, ForwardTrue
  <2>7. /\ HasActed("publish-snapshot")' => LatestHas(Range(Migrations))'
        /\ vault'.published["apply"] = "whole" => LatestHas(Range(Migrations))'
    BY <1>4, <1>6, <1>8, <2>1, <2>2 DEF HostInv, ForwardTrue, SameVault
  <2>8. QED
    BY <2>3, <2>4, <2>5, <2>6, <2>7 DEF ForwardTrue
<1>11. receipts'["install-automation"] = receipts["install-automation"]
  BY <1>2, <1>9, TrackedSteps DEF Tracked, ForwardSteps
<1>12. BackTrue'
  <2> USE DEF Tracked, BackSteps
  <2>1. LatestHas({}) => LatestHas({})'
    BY <1>6 DEF SameVault, LatestHas
  <2>2. QED
    BY <1>1, <1>4, <1>5, <1>6, <1>8, <1>9, <1>11, <2>1 DEF HostInv, BackTrue, AllLinks, SameVault
<1>13. Accounted'
  BY <1>1, <1>5, <1>6, <1>11 DEF HostInv, Accounted, SameVault
<1>14. ProducersOnOneRelease'
  BY <1>5 DEF HostInv, ProducersOnOneRelease, OriginalRelease, ApprovedRelease
<1>15. Stands'
  <2>1. Step \notin QuiesceSteps
    <3>1. QuiesceSteps \cap Range(Migrations) = {}
      BY TrackedSteps
    <3>2. QED
      BY <1>2, <3>1 DEF Reconcilable, QuiesceSteps
  <2>2. Steadily
    BY <1>5 DEF Steadily
  <2>3. QED
    BY <1>1, <1>2, <2>1, <2>2, StandsStage DEF HostInv
<1>16. QED
  BY <1>7, <1>10, <1>12, <1>13, <1>14, <1>15 DEF HostInv

-----------------------------------------------------------------------------
(* The operator's commands.                                                 *)

\* A new phase while the host stays as it is and nothing has half acted.
LEMMA HostPhase ==
  ASSUME HostInv, NEW x, saved' = [saved EXCEPT !.phase = x], saved \in StateFile,
         tool'.stage = "begin", Stands',
         UNCHANGED <<receipts, host, vault>>,
         x \notin RollbackPhases => saved.phase \notin RollbackPhases,
         x \in {"applied", "verifying", "verified"} => \A s \in ForwardSteps : IsDone(s),
         x \in {"aborting", "aborted"} => Untouched,
         x \in RollbackPhases => IsDone("create-backup"),
         x \in RollbackPhases \ {"rolling-back"} => \A s \in BackSteps : IsDone(s)
  PROVE  HostInv'
<1>1. saved'.phase = x /\ saved'.runtimes = saved.runtimes /\ saved'.recorded = saved.recorded
  BY DEF StateFile
<1>2. /\ \A s : Untried(s)' <=> Untried(s)
      /\ \A s : IsDone(s)' <=> IsDone(s)
      /\ \A s : HasActed(s)' => HasActed(s)
  BY DEF Untried, IsDone, HasActed
<1>3. ForwardTrue'
  BY <1>1, <1>2 DEF HostInv, ForwardTrue, AllLinks, LatestHas
<1>4. BackTrue'
  BY <1>1, <1>2 DEF HostInv, BackTrue, AllLinks, LatestHas
<1>5. Ordered'
  BY <1>2 DEF HostInv, Ordered
<1>6. PhaseTrue'
  <2>1. Untouched' <=> Untouched
    BY DEF Untouched
  <2>2. QED
    BY <1>1, <1>2, <2>1 DEF PhaseTrue
<1>7. Accounted' /\ ProducersOnOneRelease'
  BY <1>1 DEF HostInv, Accounted, ProducersOnOneRelease, OriginalRelease, ApprovedRelease
<1>8. QED
  BY <1>3, <1>4, <1>5, <1>6, <1>7 DEF HostInv

LEMMA HostEntered ==
  ASSUME ReleaseInv, HostInv, NEW c \in Commands, NEW x, tool = Idle, Enter(c, x),
         x \notin RollbackPhases => saved.phase \notin RollbackPhases,
         x \in {"applied", "verifying", "verified"} => \A s \in ForwardSteps : IsDone(s),
         x \in {"aborting", "aborted"} => Untouched,
         x \in RollbackPhases => IsDone("create-backup"),
         x \in RollbackPhases \ {"rolling-back"} => \A s \in BackSteps : IsDone(s),
         c = "resume" => host.attached
  PROVE  HostInv'
<1>1. /\ saved' = [saved EXCEPT !.phase = x] /\ Start(c)
      /\ UNCHANGED <<receipts, bound, host, vault, written, faults>>
  BY DEF Enter
<1>2. tool'.stage = "begin"
  BY <1>1 DEF Idle, Start
<1>3. Stands'
  BY <1>1, StandsStart
<1>4. QED
  BY <1>1, <1>2, <1>3, Typed, HostPhase

LEMMA HostCommanded ==
  ASSUME ReleaseInv, HostInv, Apply \/ Verify \/ Abort \/ Rollback \/ Resume
  PROVE  HostInv'
<1> USE CommandNames
<1>1. CASE Apply
  BY <1>1, HostEntered DEF Apply, RollbackPhases
<1>2. CASE Verify
  <2>1. tool = Idle /\ saved.phase \in VerifyPhases /\ Enter("verify", "verifying")
    BY <1>2 DEF Verify
  <2>2. saved.phase \notin RollbackPhases /\ \A s \in ForwardSteps : IsDone(s)
    BY <2>1 DEF VerifyPhases, RollbackPhases, HostInv, PhaseTrue
  <2>3. QED
    BY <2>1, <2>2, HostEntered DEF RollbackPhases
<1>3. CASE Abort
  <2>1. tool = Idle /\ Untouched /\ Enter("abort", "aborting")
    BY <1>3 DEF Abort
  <2>2. saved.phase \notin RollbackPhases
    BY <2>1 DEF HostInv, PhaseTrue, IsDone, Untouched, None
  <2>3. QED
    BY <2>1, <2>2, HostEntered DEF RollbackPhases
<1>4. CASE Rollback
  BY <1>4, HostEntered DEF Rollback, RollbackPhases, IsDone
<1>5. CASE Resume
  <2>1. tool = Idle /\ saved.phase \in {"rolled-back", "resuming"} /\ host.attached
        /\ Enter("resume", "resuming")
    BY <1>5 DEF Resume
  <2>2. IsDone("create-backup") /\ \A s \in BackSteps : IsDone(s)
    BY <2>1 DEF RollbackPhases, HostInv, PhaseTrue
  <2>3. QED
    BY <2>1, <2>2, HostEntered DEF RollbackPhases
<1>6. QED
  BY <1>1, <1>2, <1>3, <1>4, <1>5

LEMMA HostPrepared == ASSUME ReleaseInv, HostInv, Prepare PROVE HostInv'
<1>1. PICK x \in {"prepared", "preparing"} : saved' = [saved EXCEPT !.phase = x]
  BY DEF Prepare
<1>2. /\ tool = Idle /\ tool' = Idle /\ saved.phase = None
      /\ UNCHANGED <<receipts, bound, host, vault, written, faults>>
  BY DEF Prepare
<1>3. tool'.stage = "begin" /\ Stands'
  BY <1>2, StandsStop DEF Idle
<1>4. x \notin RollbackPhases /\ saved.phase \notin RollbackPhases
      /\ x \notin {"applied", "verifying", "verified", "aborting", "aborted"}
  BY <1>2 DEF RollbackPhases, None
<1>5. QED
  BY <1>1, <1>2, <1>3, <1>4, Typed, HostPhase

LEMMA HostPaused == ASSUME ReleaseInv, HostInv, Pause PROVE HostInv'
<1>1. PICK s \in Steps, x \in {"awaiting-migration-approval", "awaiting-optional-units"} :
         /\ At(s) /\ saved' = [saved EXCEPT !.phase = x]
         /\ s \in NeedApproval \/ s = "publish-snapshot"
  BY DEF Pause
<1>2. Stop /\ tool.stage = "begin" /\ UNCHANGED <<receipts, bound, host, vault, written>>
  BY DEF Pause
<1>3. s \in Range(Migrations) \cup {"publish-snapshot"}
  BY <1>1, ReleaseAssumption
<1>4. saved.phase = "applying"
  BY <1>1, <1>3, StepOfApply DEF HostInv
<1>5. tool'.stage = "begin" /\ Stands'
  BY <1>2, StandsStop DEF Stop, Idle
<1>6. x \notin RollbackPhases /\ saved.phase \notin RollbackPhases
      /\ x \notin {"applied", "verifying", "verified", "aborting", "aborted"}
  BY <1>4 DEF RollbackPhases
<1>7. QED
  BY <1>1, <1>2, <1>5, <1>6, Typed, HostPhase

\* The final phase is saved when the last step has its receipt.
LEMMA HostFinished == ASSUME ReleaseInv, HostInv, Finish PROVE HostInv'
<1> DEFINE final == CASE tool.cmd = "apply" -> "applied"
                      [] tool.cmd = "verify" -> "verified"
                      [] tool.cmd = "abort" -> "aborted"
                      [] tool.cmd = "rollback" -> "rolled-back"
                      [] tool.cmd = "resume" -> "resumed"
<1>1. /\ tool.cmd # None /\ Finished /\ Stop /\ saved' = [saved EXCEPT !.phase = final]
      /\ UNCHANGED <<receipts, bound, host, vault, written, faults>>
  BY DEF Finish
<1>2. tool.cmd \in Commands /\ saved.phase = Phase[tool.cmd]
  BY <1>1, ToolTyped DEF ReleaseInv, ToolFits
<1>3. /\ tool.cmd = "apply" => final = "applied" /\ saved.phase = "applying"
      /\ tool.cmd = "verify" => final = "verified" /\ saved.phase = "verifying"
      /\ tool.cmd = "abort" => final = "aborted" /\ saved.phase = "aborting"
      /\ tool.cmd = "rollback" => final = "rolled-back" /\ saved.phase = "rolling-back"
      /\ tool.cmd = "resume" => final = "resumed" /\ saved.phase = "resuming"
  BY <1>2 DEF Phase
<1> HIDE DEF final
<1>4. tool'.stage = "begin" /\ Stands'
  BY <1>1, StandsStop DEF Stop, Idle
<1>5. CASE tool.cmd = "apply"
  <2>1. \A s \in ForwardSteps : IsDone(s)
    BY <1>1, <1>5, AppliedAll DEF HostInv
  <2>2. saved.phase \notin RollbackPhases /\ final = "applied"
    BY <1>3, <1>5 DEF RollbackPhases
  <2>3. QED
    BY <1>1, <1>4, <2>1, <2>2, Typed, HostPhase DEF RollbackPhases
<1>6. CASE tool.cmd = "verify"
  <2>1. saved.phase \notin RollbackPhases /\ final = "verified" /\ saved.phase = "verifying"
    BY <1>3, <1>6 DEF RollbackPhases
  <2>2. \A s \in ForwardSteps : IsDone(s)
    BY <2>1 DEF HostInv, PhaseTrue
  <2>3. QED
    BY <1>1, <1>4, <2>1, <2>2, Typed, HostPhase DEF RollbackPhases
<1>7. CASE tool.cmd = "abort"
  <2>1. saved.phase \notin RollbackPhases /\ final = "aborted" /\ saved.phase = "aborting"
    BY <1>3, <1>7 DEF RollbackPhases
  <2>2. Untouched
    BY <2>1 DEF HostInv, PhaseTrue
  <2>3. QED
    BY <1>1, <1>4, <2>1, <2>2, Typed, HostPhase DEF RollbackPhases
<1>8. CASE tool.cmd = "rollback"
  <2>1. saved.phase = "rolling-back" /\ final = "rolled-back"
    BY <1>3, <1>8
  <2>2. tool.pos > 9
    <3>1. tool.pos > 12 /\ tool.pos \in Nat
      BY <1>1, <1>2, <1>8, Lengths, ToolTyped DEF Finished, ReleaseInv
    <3>2. QED
      BY <3>1
  <2>3. \A s \in BackSteps : IsDone(s)
    BY <1>8, <2>2, RolledBackBefore DEF HostInv
  <2>4. IsDone("create-backup")
    BY <2>1 DEF HostInv, PhaseTrue, RollbackPhases
  <2>5. QED
    BY <1>1, <1>4, <2>1, <2>3, <2>4, Typed, HostPhase DEF RollbackPhases
<1>9. CASE tool.cmd = "resume"
  <2>1. saved.phase = "resuming" /\ final = "resumed"
    BY <1>3, <1>9
  <2>2. IsDone("create-backup") /\ \A s \in BackSteps : IsDone(s)
    BY <2>1 DEF HostInv, PhaseTrue, RollbackPhases
  <2>3. QED
    BY <1>1, <1>4, <2>1, <2>2, Typed, HostPhase DEF RollbackPhases
<1>10. QED
  BY <1>2, <1>5, <1>6, <1>7, <1>8, <1>9, CommandNames

\* Reconciling moves a checkout that no longer carries the approved release.
LEMMA HostReconciled == ASSUME ReleaseInv, HostInv, OperatorReconciles PROVE HostInv'
<1>1. PICK v \in {"original", "reconciled"} : host' = [host EXCEPT !.head = v, !.attached = TRUE]
  BY DEF OperatorReconciles
<1>2. /\ saved.phase \in {"rolled-back", "resuming"} /\ tool = Idle
      /\ UNCHANGED <<saved, receipts, bound, tool, vault, written, faults>>
  BY DEF OperatorReconciles
<1>3. /\ host'.head # "approved" /\ host'.attached /\ host'.generated = host.generated
      /\ host'.live = host.live /\ host'.db = host.db /\ host'.units = host.units
      /\ host'.producing = host.producing /\ host'.autopush = host.autopush
  BY <1>1, Typed DEF Host
<1>4. /\ \A s : Untried(s)' <=> Untried(s)
      /\ \A s : IsDone(s)' <=> IsDone(s)
      /\ \A s : HasActed(s)' <=> HasActed(s)
  BY <1>2, ActedStay DEF Untried, IsDone
<1>5. OriginalRelease
  <2>1. \A s \in BackSteps : IsDone(s)
    BY <1>2 DEF HostInv, PhaseTrue, RollbackPhases
  <2>2. QED
    BY <2>1, OriginalWhenBack
<1>6. ForwardTrue'
  BY <1>2 DEF ForwardTrue, RollbackPhases
<1>7. BackTrue'
  BY <1>2, <1>3, <1>4 DEF HostInv, BackTrue, AllLinks, LatestHas
<1>8. Ordered' /\ PhaseTrue'
  BY <1>2, StatusSame, OrderKept, PhaseKept DEF HostInv
<1>9. Accounted'
  BY <1>2, <1>3 DEF HostInv, Accounted
<1>10. ProducersOnOneRelease'
  BY <1>3, <1>5 DEF ProducersOnOneRelease, OriginalRelease
<1>11. Stands'
  BY <1>2, StandsStop
<1>12. QED
  BY <1>6, <1>7, <1>8, <1>9, <1>10, <1>11 DEF HostInv

-----------------------------------------------------------------------------
(* Interruptions and the host.                                              *)

\* What a step that is cut off may have done to the host and the copies.
Damaged(g, v) ==
  /\ g.attached = host.attached /\ (g.autopush => host.autopush)
  /\ g.head = host.head \/ (Acting("source-switch") /\ g.head = "approved")
  /\ g.generated = host.generated
       \/ Acting("source-switch") \/ Acting("restore-source") \/ Acting("restore-artifacts")
  /\ \A l \in Links :
        g.live[l] = host.live[l]
          \/ (l \in saved.runtimes /\ (Acting("runtime-switch") \/ Acting("restore-runtimes")))
  /\ g.db.applied = host.db.applied \/ (Acting("restore-database") /\ g.db.applied = {})
  /\ g.units = host.units \/ Acting("install-automation")
  /\ g.producing => host.producing \/ Acting("install-automation")
  /\ v.latest = vault.latest /\ v.backup = vault.backup
  /\ v.published["apply"] = vault.published["apply"] \/ v.published["apply"] = "torn"
  /\ v.published["rollback"] = vault.published["rollback"]
       \/ (Acting("rollback-snapshot") /\ v.published["rollback"] = "torn")

LEMMA DamageDone ==
  ASSUME ReleaseInv, HostInv, NEW e \in {Clean} \cup Torn
  PROVE  Damaged(e.host, e.vault) /\ e.host \in Host
<1>1. e.host \in Host
  BY TornEffects DEF CutShort, KeptIdentities
<1>2. SUFFICES Damaged(e.host, e.vault)
  BY <1>1
<1> USE Typed
<1>3. CASE e = Clean
  BY <1>3 DEF Clean, Damaged
<1>4. CASE e \in Torn /\ Acting("capture-artifacts")
  <2>1. PICK x : e = [host |-> host, vault |-> [vault EXCEPT !.image = x]]
    <3>1. e = [host |-> host, vault |-> [vault EXCEPT !.image = IF @ = None THEN "unlisted" ELSE @]]
      BY <1>4 DEF Torn, Acting, At
    <3>2. PICK y : y = IF vault.image = None THEN "unlisted" ELSE vault.image
      OBVIOUS
    <3>3. e = [host |-> host, vault |-> [vault EXCEPT !.image = y]]
      BY <3>1, <3>2
    <3>4. QED
      BY <3>3
  <2>2. PICK v : v = [vault EXCEPT !.image = x]
    OBVIOUS
  <2>3. v.latest = vault.latest /\ v.backup = vault.backup /\ v.published = vault.published
    BY <2>2 DEF Vault
  <2>4. e.host = host /\ e.vault = v
    BY <2>1, <2>2
  <2>5. QED
    BY <2>3, <2>4 DEF Damaged
<1>5. CASE e \in Torn /\ Acting("source-switch")
  <2>1. PICK x \in {host.head, "approved"} :
          e = [host |-> [host EXCEPT !.head = x, !.generated = "reset"], vault |-> vault]
    BY <1>5 DEF Torn, Acting, At
  <2>2. PICK g : g = [host EXCEPT !.head = x, !.generated = "reset"]
    OBVIOUS
  <2>3. /\ g.attached = host.attached /\ g.autopush = host.autopush /\ g.head = x
        /\ g.live = host.live /\ g.db = host.db /\ g.units = host.units /\ g.producing = host.producing
    BY <2>2 DEF Host
  <2>4. e.host = g /\ e.vault = vault
    BY <2>1, <2>2
  <2>5. QED
    BY <1>5, <2>3, <2>4 DEF Damaged
<1>6. CASE e \in Torn /\ Acting("runtime-switch") /\ Unswitched # {}
  <2> DEFINE l == First(Unswitched)
  <2>1. l \in Links
    BY <1>6, FirstOf DEF Unswitched
  <2>2. \/ e = [host |-> Identified(host, l, "incomplete"), vault |-> vault]
        \/ l \in saved.runtimes /\ e = [host |-> Linked(host, l, "gone"), vault |-> vault]
    BY <1>6 DEF Torn, Acting, At
  <2> HIDE DEF l
  <2>3. CASE e = [host |-> Identified(host, l, "incomplete"), vault |-> vault]
    <3>1. PICK g : g = Identified(host, l, "incomplete")
      OBVIOUS
    <3>2. SameRelease(host, g) /\ g.producing = host.producing /\ g.autopush = host.autopush
      BY <3>1, IdentifiedFields
    <3>3. e.host = g /\ e.vault = vault
      BY <2>3, <3>1
    <3>4. QED
      BY <3>2, <3>3 DEF Damaged, SameRelease
  <2>4. CASE l \in saved.runtimes /\ e = [host |-> Linked(host, l, "gone"), vault |-> vault]
    <3>1. PICK g : g = Linked(host, l, "gone")
      OBVIOUS
    <3>2. /\ g.head = host.head /\ g.attached = host.attached /\ g.generated = host.generated
          /\ g.db = host.db /\ g.units = host.units
          /\ g.producing = host.producing /\ g.autopush = host.autopush
          /\ \A k \in Links \ {l} : g.live[k] = host.live[k]
      BY <2>1, <3>1, LinkedFields
    <3>3. e.host = g /\ e.vault = vault
      BY <2>4, <3>1
    <3>4. QED
      BY <1>6, <2>4, <3>2, <3>3 DEF Damaged
  <2>5. QED
    BY <2>2, <2>3, <2>4
<1>7. CASE e \in Torn /\ Acting("install-automation")
  <2>1. PICK U \in SUBSET Units :
          e = [host |-> [host EXCEPT !.units = U, !.producing = TRUE], vault |-> vault]
    BY <1>7 DEF Torn, Acting, At
  <2>2. PICK g : g = [host EXCEPT !.units = U, !.producing = TRUE]
    OBVIOUS
  <2>3. /\ g.attached = host.attached /\ g.autopush = host.autopush /\ g.head = host.head
        /\ g.generated = host.generated /\ g.live = host.live /\ g.db = host.db
    BY <2>2 DEF Host
  <2>4. e.host = g /\ e.vault = vault
    BY <2>1, <2>2
  <2>5. QED
    BY <1>7, <2>3, <2>4 DEF Damaged
<1>8. CASE e \in Torn /\ Acting("publish-snapshot")
  <2>1. e = [host |-> host, vault |-> Published(vault, "apply", "torn")]
    BY <1>8 DEF Torn, Acting, At
  <2>2. PICK v : v = Published(vault, "apply", "torn")
    OBVIOUS
  <2>3. /\ v.latest = vault.latest /\ v.backup = vault.backup /\ v.published["apply"] = "torn"
        /\ v.published["rollback"] = vault.published["rollback"]
    BY <2>2, PublishedFields
  <2>4. e.host = host /\ e.vault = v
    BY <2>1, <2>2
  <2>5. QED
    BY <2>3, <2>4 DEF Damaged
<1>9. CASE e \in Torn /\ Acting("rollback-snapshot")
  <2>1. e = [host |-> host, vault |-> Published(vault, "rollback", "torn")]
    BY <1>9 DEF Torn, Acting, At
  <2>2. PICK v : v = Published(vault, "rollback", "torn")
    OBVIOUS
  <2>3. /\ v.latest = vault.latest /\ v.backup = vault.backup /\ v.published["rollback"] = "torn"
        /\ v.published["apply"] = vault.published["apply"]
    BY <2>2, PublishedFields
  <2>4. e.host = host /\ e.vault = v
    BY <2>1, <2>2
  <2>5. QED
    BY <1>9, <2>3, <2>4 DEF Damaged
<1>10. CASE e \in Torn /\ (Acting("restore-source") \/ Acting("restore-artifacts"))
  <2>1. e = [host |-> [host EXCEPT !.generated = "reset"], vault |-> vault]
    BY <1>10 DEF Torn, Acting, At
  <2>2. PICK g : g = [host EXCEPT !.generated = "reset"]
    OBVIOUS
  <2>3. /\ g.attached = host.attached /\ g.autopush = host.autopush /\ g.head = host.head
        /\ g.live = host.live /\ g.db = host.db /\ g.units = host.units /\ g.producing = host.producing
    BY <2>2 DEF Host
  <2>4. e.host = g /\ e.vault = vault
    BY <2>1, <2>2
  <2>5. QED
    BY <1>10, <2>3, <2>4 DEF Damaged
<1>11. CASE e \in Torn /\ Acting("restore-runtimes")
  <2> DEFINE l == First(Unrestored)
  <2>1. Unrestored # {} /\ e = [host |-> Linked(host, l, "gone"), vault |-> vault]
    BY <1>11 DEF Torn, Acting, At
  <2>2. l \in Links /\ l \in saved.runtimes
    <3>1. Unrestored \in SUBSET Links
      BY StateFileChanges DEF Unrestored
    <3>2. QED
      BY <2>1, <3>1, FirstOf DEF Unrestored
  <2> HIDE DEF l
  <2>3. PICK g : g = Linked(host, l, "gone")
    OBVIOUS
  <2>4. /\ g.head = host.head /\ g.attached = host.attached /\ g.generated = host.generated
        /\ g.db = host.db /\ g.units = host.units
        /\ g.producing = host.producing /\ g.autopush = host.autopush
        /\ \A k \in Links \ {l} : g.live[k] = host.live[k]
    BY <2>2, <2>3, LinkedFields
  <2>5. e.host = g /\ e.vault = vault
    BY <2>1, <2>3
  <2>6. QED
    BY <1>11, <2>2, <2>4, <2>5 DEF Damaged
<1>12. CASE e \in Torn /\ Acting("restore-database")
  <2>1. PICK d \in vault.backup : e = [host |-> [host EXCEPT !.db = d], vault |-> vault]
    BY <1>12 DEF Torn, Acting, At
  <2>2. d.applied = {}
    BY DEF HostInv, Accounted
  <2>3. PICK g : g = [host EXCEPT !.db = d]
    OBVIOUS
  <2>4. /\ g.attached = host.attached /\ g.autopush = host.autopush /\ g.head = host.head
        /\ g.generated = host.generated /\ g.live = host.live /\ g.db = d
        /\ g.units = host.units /\ g.producing = host.producing
    BY <2>3 DEF Host
  <2>5. e.host = g /\ e.vault = vault
    BY <2>1, <2>3
  <2>6. QED
    BY <1>12, <2>2, <2>4, <2>5 DEF Damaged
<1>13. e \in Torn =>
         \/ Acting("capture-artifacts") \/ Acting("source-switch")
         \/ Acting("runtime-switch") /\ Unswitched # {}
         \/ Acting("install-automation") \/ Acting("publish-snapshot")
         \/ Acting("rollback-snapshot") \/ Acting("restore-source")
         \/ Acting("restore-artifacts") \/ Acting("restore-runtimes")
         \/ Acting("restore-database")
  BY DEF Torn
<1>14. QED
  BY <1>3, <1>4, <1>5, <1>6, <1>7, <1>8, <1>9, <1>10, <1>11, <1>12, <1>13

\* Where a tracked step acts: its receipt is running, and nothing produces
\* while the release changes.
LEMMA ActingSteps ==
  ASSUME ReleaseInv, HostInv
  PROVE  /\ \A s \in Tracked : Acting(s) => receipts[s] = "running" /\ ~IsDone(s) /\ ~Untried(s)
         /\ \A s \in ForwardSteps : Acting(s) => saved.phase \notin RollbackPhases
         /\ \A s \in BackSteps : Acting(s) => saved.phase \in RollbackPhases
         /\ Acting("source-switch") \/ Acting("runtime-switch") \/ Acting("restore-source")
              \/ Acting("restore-artifacts") \/ Acting("restore-runtimes")
              \/ Acting("restore-database") => ~host.producing
         /\ Acting("rollback-snapshot") => IsDone("restore-database")
         /\ Acting("install-automation") => ApprovedRelease
         /\ saved.phase \notin RollbackPhases => \A s \in BackSteps : Untried(s) /\ ~IsDone(s)
<1>1. \A s \in Tracked : Acting(s) => receipts[s] = "running" /\ ~IsDone(s) /\ ~Untried(s)
  BY TrackedSteps DEF Acting, HostInv, Stands, IsDone, Untried, None
<1>2. ASSUME NEW s \in ForwardSteps, Acting(s)
      PROVE  /\ saved.phase \notin RollbackPhases
             /\ s \in {"source-switch", "runtime-switch"} => ~host.producing
             /\ s = "install-automation" => ApprovedRelease
  <2>1. /\ saved.phase = "applying"
        /\ s \in {"source-switch", "runtime-switch"} => ~host.producing
        /\ s = "install-automation" =>
             IsDone("source-switch") /\ IsDone("runtime-switch") /\ \A m \in Range(Migrations) : IsDone(m)
    BY <1>2, StepOfApply DEF Acting, HostInv, ForwardSteps
  <2>2. saved.phase \notin RollbackPhases
    BY <2>1 DEF RollbackPhases
  <2>3. QED
    BY <2>1, <2>2, ApprovedWhenDone
<1>3. ASSUME NEW s \in BackSteps, Acting(s)
      PROVE  /\ saved.phase \in RollbackPhases
             /\ s \in {"restore-source", "restore-artifacts", "restore-runtimes", "restore-database"} =>
                  ~host.producing
             /\ s = "rollback-snapshot" => IsDone("restore-database")
  BY <1>3, StepOfRollback DEF Acting, HostInv, RollbackPhases
<1>4. saved.phase \notin RollbackPhases => \A s \in BackSteps : Untried(s) /\ ~IsDone(s)
  BY DEF HostInv, ForwardTrue, Untried, IsDone, None
<1>5. QED
  BY <1>1, <1>2, <1>3, <1>4 DEF ForwardSteps, BackSteps

\* A command that is cut off leaves nothing that its receipts deny, and
\* producers only over a whole release.
LEMMA HostCutOff ==
  ASSUME ReleaseInv, HostInv, Stop, SameStatus, Damaged(host', vault'),
         saved'.phase = saved.phase, saved'.runtimes = saved.runtimes,
         ~Acting("install-automation") =>
            /\ saved'.recorded = saved.recorded
            /\ receipts'["install-automation"] = receipts["install-automation"],
         Acting("install-automation") =>
            receipts'["install-automation"] \notin {None, "complete"}
  PROVE  HostInv'
<1>1. \A s \in Tracked : (IsDone(s)' <=> IsDone(s)) /\ (Untried(s)' <=> Untried(s))
  BY DEF SameStatus
<1>2. \A s \in Tracked : (HasActed(s)' <=> IsDone(s)) /\ (IsDone(s) => HasActed(s))
  <2>1. tool'.stage = "begin"
    BY DEF Stop, Idle
  <2>2. QED
    BY <1>1, <2>1, ActedNot DEF HasActed
<1>3. Ordered' /\ PhaseTrue'
  BY OrderKept, PhaseKept DEF HostInv
<1>4. /\ \A s \in Tracked : Acting(s) => receipts[s] = "running" /\ ~IsDone(s) /\ ~Untried(s)
      /\ \A s \in ForwardSteps : Acting(s) => saved.phase \notin RollbackPhases
      /\ \A s \in BackSteps : Acting(s) => saved.phase \in RollbackPhases
      /\ Acting("source-switch") \/ Acting("runtime-switch") \/ Acting("restore-source")
           \/ Acting("restore-artifacts") \/ Acting("restore-runtimes")
           \/ Acting("restore-database") => ~host.producing
      /\ Acting("rollback-snapshot") => IsDone("restore-database")
      /\ Acting("install-automation") => ApprovedRelease
      /\ saved.phase \notin RollbackPhases => \A s \in BackSteps : Untried(s) /\ ~IsDone(s)
  BY ActingSteps
<1>5. LatestHas({})' <=> LatestHas({})
  BY DEF Damaged, LatestHas
<1>6. LatestHas(Range(Migrations))' <=> LatestHas(Range(Migrations))
  BY DEF Damaged, LatestHas
<1>7. ForwardTrue'
  <2>1. SUFFICES ASSUME saved.phase \notin RollbackPhases PROVE ForwardTrue'
    BY DEF ForwardTrue
  <2> USE DEF Tracked, ForwardSteps, BackSteps
  <2>2. /\ host'.attached /\ host'.head # "reconciled"
        /\ \A s \in BackSteps : Untried(s)'
        /\ vault'.published["rollback"] = None
        /\ Untried("create-backup")' => vault'.backup = {}
    BY <1>1, <1>4, <2>1 DEF HostInv, ForwardTrue, Damaged
  <2>3. /\ Untried("source-switch")' => host'.head = "original" /\ host'.generated = "kept"
        /\ HasActed("source-switch")' => host'.head = "approved" /\ host'.generated = "kept"
    BY <1>1, <1>2, <1>4, <2>1 DEF HostInv, ForwardTrue, Damaged
  <2>4. /\ Untried("runtime-switch")' => AllLinks("prior")'
        /\ HasActed("runtime-switch")' => AllLinks("selected")'
    BY <1>1, <1>2, <1>4, <2>1 DEF HostInv, ForwardTrue, Damaged, AllLinks
  <2>5. \A m \in Range(Migrations) : /\ Untried(m)' => m \notin host'.db.applied
                                     /\ HasActed(m)' => m \in host'.db.applied
    BY <1>1, <1>2, <1>4, <2>1 DEF HostInv, ForwardTrue, Damaged
  <2>6. /\ Untried("install-automation")' => host'.units = {}
        /\ HasActed("install-automation")' => host'.units = Units /\ saved'.recorded = Units
    BY <1>1, <1>2, <1>4, <2>1 DEF HostInv, ForwardTrue, Damaged
  <2>7. /\ HasActed("publish-snapshot")' => LatestHas(Range(Migrations))'
        /\ vault'.published["apply"] = "whole" => LatestHas(Range(Migrations))'
    BY <1>2, <1>6, <2>1 DEF HostInv, ForwardTrue, Damaged
  <2>8. QED
    BY <2>2, <2>3, <2>4, <2>5, <2>6, <2>7 DEF ForwardTrue
<1>8. BackTrue'
  <2> USE DEF Tracked, ForwardSteps, BackSteps
  <2>1. /\ HasActed("restore-source")' => host'.head # "approved"
        /\ HasActed("restore-runtimes")' => AllLinks("prior")'
        /\ HasActed("restore-database")' => host'.db.applied = {}
    BY <1>2, <1>4 DEF HostInv, BackTrue, Damaged, AllLinks
  <2>2. HasActed("restore-artifacts")' => host'.generated = "kept"
    <3>1. SUFFICES ASSUME IsDone("restore-artifacts") PROVE host'.generated = "kept"
      BY <1>2
    <3>2. IsDone("restore-source")
      BY <3>1 DEF HostInv, Ordered, Untried, IsDone, None
    <3>3. ~Acting("restore-source") /\ ~Acting("restore-artifacts") /\ ~Acting("source-switch")
      BY <1>4, <3>1, <3>2
    <3>4. QED
      BY <1>2, <3>1, <3>3 DEF HostInv, BackTrue, Damaged
  <2>3. HasActed("restore-units")' =>
          /\ host'.units \cap saved'.recorded = {}
          /\ host'.units = {} \/ receipts'["install-automation"] \notin {None, "complete"}
    BY <1>2, <1>4 DEF HostInv, BackTrue, Damaged
  <2>4. /\ HasActed("rollback-snapshot")' => LatestHas({})'
        /\ vault'.published["rollback"] = "whole" => LatestHas({})'
        /\ vault'.published["rollback"] # None => IsDone("restore-database")'
    BY <1>1, <1>2, <1>4, <1>5 DEF HostInv, BackTrue, Damaged
  <2>5. QED
    BY <2>1, <2>2, <2>3, <2>4 DEF BackTrue
<1>9. Accounted'
  <2>1. host'.units \subseteq saved'.recorded \/ receipts'["install-automation"] \notin {None, "complete"}
    BY DEF HostInv, Accounted, Damaged
  <2>2. \A l \in Links : host'.live[l] # "prior" => l \in saved'.runtimes
    BY DEF HostInv, Accounted, Damaged
  <2>3. QED
    BY <2>1, <2>2 DEF HostInv, Accounted, Damaged
<1>10. ProducersOnOneRelease'
  <2>1. host'.autopush => host'.attached
    BY DEF HostInv, ProducersOnOneRelease, Damaged
  <2>2. SUFFICES ASSUME host'.producing PROVE OriginalRelease' \/ ApprovedRelease'
    BY <2>1 DEF ProducersOnOneRelease
  <2>3. OriginalRelease \/ ApprovedRelease
    BY <1>4, <2>2 DEF HostInv, ProducersOnOneRelease, Damaged
  <2>4. ~(Acting("source-switch") \/ Acting("runtime-switch") \/ Acting("restore-source")
           \/ Acting("restore-artifacts") \/ Acting("restore-runtimes")
           \/ Acting("restore-database"))
    <3>1. CASE host.producing
      BY <1>4, <3>1
    <3>2. CASE Acting("install-automation")
      BY <3>2 DEF Acting, At
    <3>3. QED
      BY <2>2, <3>1, <3>2 DEF Damaged
  <2>5. /\ host'.head = host.head /\ host'.generated = host.generated
        /\ host'.db.applied = host.db.applied /\ \A l \in Links : host'.live[l] = host.live[l]
    BY <2>4 DEF Damaged
  <2>6. QED
    BY <2>3, <2>5 DEF OriginalRelease, ApprovedRelease
<1>11. Stands'
  BY StandsStop DEF Stop
<1>12. QED
  BY <1>3, <1>7, <1>8, <1>9, <1>10, <1>11 DEF HostInv

LEMMA HostCrashed == ASSUME ReleaseInv, HostInv, Crash PROVE HostInv'
<1>1. PICK e \in {Clean} \cup Torn : host' = e.host /\ vault' = e.vault
  BY DEF Crash
<1>2. /\ Stop /\ UNCHANGED <<saved, receipts, bound, written>>
  BY DEF Crash
<1>3. Damaged(host', vault')
  BY <1>1, DamageDone
<1>4. Acting("install-automation") => receipts'["install-automation"] \notin {None, "complete"}
  BY <1>2, ActingSteps DEF Tracked, ForwardSteps, None
<1>5. QED
  BY <1>2, <1>3, <1>4, StatusSame, HostCutOff

LEMMA HostFailed == ASSUME ReleaseInv, HostInv, Fails PROVE HostInv'
<1>1. PICK e \in Raised : vault' = e.vault /\ host' \in Compensation(e.host)
  BY DEF Fails
<1>2. /\ Stop
      /\ saved' = saved
           \/ (Acting("install-automation") /\ saved' = [saved EXCEPT !.recorded = host'.units])
      /\ receipts' = [s \in Steps |->
             IF receipts[s] = "complete" THEN "complete"
             ELSE CASE Acting(s) -> "failed"
               [] At("install-automation") /\ s = "requiesce" ->
                      IF host'.producing THEN "failed" ELSE "complete"
               [] OTHER -> receipts[s]]
  BY DEF Fails
<1>3. Damaged(host', vault')
  <2>1. e \in {Clean} \cup Torn
    BY <1>1 DEF Raised
  <2>2. Damaged(e.host, e.vault) /\ e.host \in Host
    BY <2>1, DamageDone
  <2>3. CASE host' = e.host
    BY <1>1, <2>2, <2>3
  <2>4. CASE host' = Quiet(e.host)
    <3>1. SameRelease(e.host, host') /\ ~host'.producing /\ ~host'.autopush
      BY <2>2, <2>4, QuietFields
    <3>2. QED
      BY <1>1, <2>2, <3>1 DEF Damaged, SameRelease
  <2>5. QED
    BY <1>1, <2>3, <2>4 DEF Compensation
<1>4. saved'.phase = saved.phase /\ saved'.runtimes = saved.runtimes
      /\ (~Acting("install-automation") => saved'.recorded = saved.recorded)
  BY <1>2, Typed DEF StateFile
<1>5. ASSUME NEW s \in Tracked
      PROVE  receipts'[s] = IF receipts[s] # "complete" /\ Acting(s) THEN "failed" ELSE receipts[s]
  <2>1. s \in Steps /\ s # "requiesce"
    BY TrackedSteps DEF QuiesceSteps
  <2>2. CASE receipts[s] = "complete"
    BY <1>2, <2>1, <2>2
  <2>3. CASE receipts[s] # "complete" /\ Acting(s)
    BY <1>2, <2>1, <2>3
  <2>4. CASE receipts[s] # "complete" /\ ~Acting(s)
    BY <1>2, <2>1, <2>4
  <2>5. QED
    BY <2>2, <2>3, <2>4
<1>6. SameStatus
  BY <1>5, ActingSteps DEF SameStatus, IsDone, Untried, None
<1>7. ~Acting("install-automation") =>
        receipts'["install-automation"] = receipts["install-automation"]
  BY <1>5 DEF Tracked, ForwardSteps
<1>8. Acting("install-automation") => receipts'["install-automation"] \notin {None, "complete"}
  BY <1>5, ActingSteps DEF Tracked, ForwardSteps, IsDone, None
<1>9. QED
  BY <1>2, <1>3, <1>4, <1>6, <1>7, <1>8, HostCutOff

LEMMA HostChecked == ASSUME ReleaseInv, HostInv, CheckFails PROVE HostInv'
<1>1. /\ Stop /\ UNCHANGED <<saved, bound, host, vault, written, faults>>
      /\ receipts' = [s \in Steps |-> IF Acting(s) THEN "failed" ELSE receipts[s]]
  BY DEF CheckFails
<1>2. \A s \in Tracked : receipts'[s] = IF Acting(s) THEN "failed" ELSE receipts[s]
  BY <1>1, TrackedSteps
<1>3. SameStatus
  BY <1>2, ActingSteps DEF SameStatus, IsDone, Untried, None
<1>4. ~Acting("install-automation")
  <2>1. PICK s : Acting(s) /\ s # "install-automation"
    BY DEF CheckFails, SemanticSteps
  <2>2. QED
    BY <2>1 DEF Acting, At
<1>5. receipts'["install-automation"] = receipts["install-automation"]
  BY <1>2, <1>4 DEF Tracked, ForwardSteps
<1>6. QED
  BY <1>1, <1>3, <1>5, HostSame, HostStop DEF SameVault, Steadily

-----------------------------------------------------------------------------
(* The host and the specification.                                          *)

LEMMA HostInit == Init => HostInv
<1> SUFFICES ASSUME Init PROVE HostInv
  OBVIOUS
<1>1. ReleaseInv
  BY ReleaseInit
<1>2. /\ saved.phase = None /\ tool = Idle /\ tool.stage = "begin" /\ tool.cmd = None
  BY DEF Init, Idle
<1>3. /\ host.head = "original" /\ host.attached = TRUE /\ host.generated = "kept"
      /\ host.db.applied = {} /\ host.units = {}
      /\ \A l \in Links : host.live[l] = "prior"
  BY DEF Init
<1>4. /\ vault.backup = {} /\ vault.published["apply"] = None /\ vault.published["rollback"] = None
  BY DEF Init
<1>5. \A s \in Tracked : Untried(s) /\ ~IsDone(s) /\ ~HasActed(s)
  BY <1>2, TrackedSteps DEF Init, Untried, IsDone, HasActed, None
<1> USE DEF Tracked, ForwardSteps, BackSteps
<1>6. ForwardTrue
  BY <1>3, <1>4, <1>5 DEF ForwardTrue, AllLinks, None
<1>7. BackTrue
  BY <1>4, <1>5 DEF BackTrue, None
<1>8. Ordered
  BY <1>5 DEF Ordered
<1>9. PhaseTrue
  BY <1>2 DEF PhaseTrue, RollbackPhases, None
<1>10. Accounted
  BY <1>3, <1>4 DEF Accounted
<1>11. Stands
  BY <1>2 DEF Stands, At, None
<1>12. ProducersOnOneRelease
  BY <1>3 DEF ProducersOnOneRelease, OriginalRelease
<1>13. QED
  BY <1>6, <1>7, <1>8, <1>9, <1>10, <1>11, <1>12 DEF HostInv

LEMMA HostStep == ReleaseInv /\ HostInv /\ [Next]_vars => HostInv'
<1> SUFFICES ASSUME ReleaseInv, HostInv, [Next]_vars PROVE HostInv'
  OBVIOUS
<1>1. CASE StepAction
  <2>1. CASE PublishSnapshot
    BY <2>1, HostPublished, HostRepublished DEF PublishSnapshot
  <2>2. QED
    BY <1>1, <2>1, HostUntracked, HostBackup, HostSource, HostRuntimes, HostMigrated,
       HostAutomation, HostReleased, HostAttempt, HostSourceBack, HostArtifactsBack,
       HostRuntimesBack, HostDatabaseBack, HostUnitsBack
       DEF StepAction
<1>2. CASE ToolStep
  BY <1>1, <1>2, HostSkipped, HostAdopted, HostRefused, HostBegun, HostCompleted, HostSaved,
     HostFinished, HostChecked
     DEF ToolStep
<1>3. CASE OperatorStep
  BY <1>3, HostPrepared, HostCommanded, HostReconciled DEF OperatorStep
<1>4. CASE UNCHANGED vars
  <2>1. UNCHANGED <<saved, receipts, tool, host, vault>>
    BY <1>4 DEF vars
  <2>2. World'
    BY <2>1, ActedStay, HostSame, StatusSame, WorldSame DEF SameVault
  <2>3. Stands'
    BY <2>1, HostSame, StandsStay DEF HostInv
  <2>4. QED
    BY <2>2, <2>3 DEF HostInv, World
<1>5. QED
  BY <1>2, <1>3, <1>4, HostPaused, HostCrashed, HostFailed, HostWritten DEF Next

\* The receipts are true of the host: whatever command is cut off where, a
\* complete receipt stands for its effect, a step without one has left none, no
\* step is begun before those it rests on, and the phase in the state file is
\* that of the receipts.  The unit files that differ from the original ones are
\* recorded, unless an installation was begun and never completed: killed, or
\* failed with its recording (_record_automation_mutations raises).
THEOREM HostSound == Spec => []HostInv
<1>1. Init => ReleaseInv /\ HostInv
  BY ReleaseInit, HostInit
<1>2. ReleaseInv /\ HostInv /\ [Next]_vars => (ReleaseInv /\ HostInv)'
  BY ReleaseStep, HostStep
<1>3. QED
  BY <1>1, <1>2, PTL DEF Spec

\* Producers never run over a mixture of two releases, and autopush never on the
\* detached commit a rollback leaves: release_deploy.py moves the checkout, the
\* links and the database only with the producers stopped, and starts them only
\* where the receipts show a whole release, after any crash, failure or retry.
THEOREM ProducersSafe == Spec => []ProducersOnOneRelease
<1>1. HostInv => ProducersOnOneRelease
  BY DEF HostInv
<1>2. QED
  BY <1>1, HostSound, PTL

\* The final phases tell the truth: "aborted", "verified" and "rolled-back" are
\* saved only over the host they describe, and it stays so while they stand.  Of
\* the unit files a rollback puts back those that were recorded, which are all
\* unless an installation was begun and never completed.
THEOREM OutcomesTrue == Spec => []OutcomeTrue
<1>1. ReleaseInv /\ HostInv => OutcomeTrue
  <2>1. SUFFICES ASSUME ReleaseInv, HostInv PROVE OutcomeTrue
    OBVIOUS
  <2>2. ASSUME saved.phase = "aborted"
        PROVE  OriginalRelease /\ host.units = {} /\ vault.backup = {}
    <3>1. Untouched /\ saved.phase \notin RollbackPhases
      BY <2>1, <2>2 DEF HostInv, PhaseTrue, RollbackPhases
    <3>2. QED
      BY <2>1, <3>1, OriginalWhenUntouched
  <2>3. ASSUME saved.phase = "verified"
        PROVE  /\ ApprovedRelease /\ host.units = Units
               /\ \E d \in vault.latest : d.applied = Range(Migrations)
    <3>1. saved.phase \notin RollbackPhases /\ \A s \in ForwardSteps : IsDone(s)
      BY <2>1, <2>3 DEF HostInv, PhaseTrue, RollbackPhases
    <3>2. /\ IsDone("source-switch") /\ IsDone("runtime-switch")
          /\ \A m \in Range(Migrations) : IsDone(m)
          /\ HasActed("install-automation") /\ HasActed("publish-snapshot")
      BY <3>1 DEF ForwardSteps, HasActed
    <3>3. ApprovedRelease
      BY <2>1, <3>1, <3>2, ApprovedWhenDone
    <3>4. host.units = Units /\ LatestHas(Range(Migrations))
      BY <2>1, <3>1, <3>2 DEF HostInv, ForwardTrue
    <3>5. QED
      BY <3>3, <3>4 DEF LatestHas
  <2>4. ASSUME saved.phase = "rolled-back"
        PROVE  /\ OriginalRelease /\ \E d \in vault.latest : d.applied = {}
               /\ host.units \cap saved.recorded = {}
               /\ host.units = {} \/ receipts["install-automation"] \notin {None, "complete"}
    <3>1. \A s \in BackSteps : IsDone(s)
      BY <2>1, <2>4 DEF HostInv, PhaseTrue, RollbackPhases
    <3>2. QED
      BY <2>1, <3>1, OriginalWhenBack DEF LatestHas
  <2>5. QED
    BY <2>2, <2>3, <2>4 DEF OutcomeTrue
<1>2. QED
  BY <1>1, ReleaseSound, HostSound, PTL
=============================================================================
