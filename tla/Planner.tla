------------------------------ MODULE Planner -------------------------------
(***************************************************************************)
(* What an import does to a database: migrator/plan.go, with the parts of  *)
(* scanner.go, version.go and execution.go it is built from.  Everything   *)
(* here is a function of its arguments; Migration runs the plans.          *)
(*                                                                         *)
(* A file is a folder, a version and a timestamp (the number in front of   *)
(* its name).  repo is the set of files in the import directory: in an     *)
(* up_down folder a file stands for its up and its down script, which the  *)
(* scanner requires to come in pairs; in a change folder there is no down  *)
(* script.  db is the DatabaseModel: the files the database records as     *)
(* executed.  Semantic versions are their rank, so no two are Equal.       *)
(*                                                                         *)
(* A plan is not a sequence: Plan sorts by version and timestamp, but      *)
(* sort.Slice leaves files of two folders with one timestamp in any order. *)
(***************************************************************************)
EXTENDS Integers

CONSTANTS
    Versions,     \* the versions of the schema
    Timestamps,   \* the numbers of the files
    Schema,       \* the name of the schema folder
    Extra,        \* the names of the other folders
    ChangeOnly,   \* the folders of migration type "change"
    SchemaBatch,  \* "schema", the implicit batch
    Batches,      \* the folders of every other batch
    Kept,         \* schema versions with a .keep_version_folder file
    NoTarget      \* the nil *TargetVersion

Folders    == Extra \cup {Schema}
BatchNames == DOMAIN Batches \cup {SchemaBatch}
Files      == [folder : Folders, version : Versions, ts : Timestamps]

\* Revision 0 stands for all revisions.
Targets == [version : Versions, revision : Timestamps \cup {0}] \cup {NoTarget}

ASSUME NumbersAssumption ==
    Versions \subseteq Nat /\ Timestamps \subseteq Nat \ {0}
ASSUME FoldersAssumption ==
    /\ Schema \notin Extra
    /\ ChangeOnly \subseteq Folders
    /\ SchemaBatch \notin DOMAIN Batches
    /\ \A b \in DOMAIN Batches : Batches[b] \subseteq Extra
    /\ Kept \subseteq Versions
ASSUME TargetAssumption ==
    NoTarget \notin [version : Versions, revision : Timestamps \cup {0}]

BatchFolders(b) == IF b = SchemaBatch THEN {} ELSE Batches[b]
PlanFolders(b)  == BatchFolders(b) \cup {Schema}

-----------------------------------------------------------------------------
(* The scanner.                                                            *)

\* A schema version is scanned when it has files, or is kept without any.
LocalVersions(repo) ==
    {v \in Versions : v \in Kept \/ \E f \in repo : f.folder = Schema /\ f.version = v}

\* Every extra folder is opened, whatever the batch.
ScanError(repo) ==
    \E f \in repo : f.folder \in Extra /\ f.version \notin LocalVersions(repo)

-----------------------------------------------------------------------------
(* The database model.                                                     *)
HasAnyVersion(db) == db # {}

ContainsHigherVersion(db, folder, version) ==
    \E f \in db : f.folder = folder /\ version < f.version

GetFileTimestamps(db, folder, version) ==
    {f.ts : f \in {g \in db : g.folder = folder /\ g.version = version}}

-----------------------------------------------------------------------------
(* The plan of one folder of one version.                                  *)

\* Mutant of PlanUpgrade: the target revision is excluded.
PlanUpgradeBefore(scripts, executed, commit) ==
    {f \in scripts : (commit = 0 \/ f.ts < commit) /\ f.ts \notin executed}

\* Mutant of PlanUpgrade: what is executed already is planned again.
PlanUpgradeAgain(scripts, executed, commit) ==
    {f \in scripts : commit = 0 \/ f.ts <= commit}

PlanUpgrade(scripts, executed, commit) ==
    {f \in scripts : (commit = 0 \/ f.ts <= commit) /\ f.ts \notin executed}

\* Mutant of PlanDowngrade: the target revision is taken back too.
PlanDowngradeFrom(scripts, executed, commit) ==
    {f \in scripts : commit # 0 /\ f.ts >= commit /\ f.ts \in executed}

\* Commit 0 is turned into the largest integer: nothing is above it.
PlanDowngrade(scripts, executed, commit) ==
    {f \in scripts : commit # 0 /\ f.ts > commit /\ f.ts \in executed}

NothingToRun == [up |-> {}, down |-> {}]

PlanFolder(folder, version, repo, db, target) ==
    LET up   == {f \in repo : f.folder = folder /\ f.version = version}
        down == IF folder \in ChangeOnly THEN {} ELSE up
        done == GetFileTimestamps(db, folder, version)
    IN  IF target = NoTarget \/ version < target.version
        THEN IF ContainsHigherVersion(db, folder, version)
             THEN NothingToRun
             ELSE [up |-> PlanUpgrade(up, done, 0), down |-> {}]
        ELSE IF version = target.version
        THEN [up   |-> PlanUpgrade(up, done, target.revision),
              down |-> PlanDowngrade(down, done, target.revision)]
        ELSE [up |-> {}, down |-> PlanDowngrade(down, done, -1)]

-----------------------------------------------------------------------------
(* The plan.  snaps is the set of snapshot files; a snapshot is the batch  *)
(* and the version in its name and the files whose effect it contains.     *)

\* The target is above every local version.
TargetMissing(repo, target) ==
    /\ LocalVersions(repo) # {}
    /\ target # NoTarget
    /\ \A v \in LocalVersions(repo) : v < target.version

\* Mutant of Usable: a snapshot of the target version serves any revision.
UsableAtRevision(s, repo, db, target, batch) ==
    /\ ~HasAnyVersion(db)
    /\ s.batch = batch
    /\ s.version \in LocalVersions(repo)
    /\ target = NoTarget \/ s.version <= target.version

Usable(s, repo, db, target, batch) ==
    /\ ~HasAnyVersion(db)
    /\ s.batch = batch
    /\ s.version \in LocalVersions(repo)
    /\ \/ target = NoTarget
       \/ s.version < target.version
       \/ s.version = target.version /\ target.revision = 0

\* The last usable snapshot replaces all that was planned before it.
StartSnapshot(repo, snaps, db, target, batch) ==
    {s \in snaps :
        /\ Usable(s, repo, db, target, batch)
        /\ \A r \in snaps : Usable(r, repo, db, target, batch) => r.version <= s.version}

Plan(repo, snaps, db, target, batch) ==
    LET start    == StartSnapshot(repo, snaps, db, target, batch)
        versions == {v \in LocalVersions(repo) : \A s \in start : s.version < v}
        run(folder, v) == PlanFolder(folder, v, repo, db, target)
        parts    == {run(folder, v) : folder \in PlanFolders(batch), v \in versions}
    IN  [start |-> start,
         up    |-> UNION {p.up : p \in parts},
         down  |-> UNION {p.down : p \in parts}]

EmptyPlan == [start |-> {}, up |-> {}, down |-> {}]

\* The files that a snapshot of batch b and version v is to contain.
Covered(repo, b, v) == {f \in repo : f.folder \in PlanFolders(b) /\ f.version <= v}

\* The files that a plan skips although its target may include them: those of
\* versions the database is beyond, and those its snapshot was taken without.
PassedOver(repo, snaps, db, target, batch) ==
    {f \in repo \ db :
        /\ f.folder \in PlanFolders(batch)
        /\ target = NoTarget \/ f.version < target.version
        /\ ContainsHigherVersion(db, f.folder, f.version)}
    \cup UNION {Covered(repo, batch, s.version) \ s.content :
                  s \in StartSnapshot(repo, snaps, db, target, batch)}

-----------------------------------------------------------------------------
(* The order of the steps: the snapshot, the up scripts of all versions    *)
(* from the oldest, then the down scripts from the newest.                 *)
Before(f, g) == f.version < g.version \/ (f.version = g.version /\ f.ts < g.ts)

\* Mutant of NextUp: sorted by timestamp alone.
NextUpByTimestamp(plan) ==
    {f \in plan.up : plan.start = {} /\ \A g \in plan.up : f.ts <= g.ts}

NextUp(plan) ==
    {f \in plan.up : plan.start = {} /\ \A g \in plan.up : ~Before(g, f)}

NextDown(plan) ==
    {f \in plan.down :
        plan.start = {} /\ plan.up = {} /\ \A g \in plan.down : ~Before(f, g)}

=============================================================================
