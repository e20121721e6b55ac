# Verification of neo4j-graph-tool-core

TLA+ models of the supervisor and the migrator, the TLC configurations that
check them, and proofs checked by TLAPS. Paths below are relative to the
repository; a definition and the code it translates are paired in `PROJECT.json`
("map").

## 1. The system

The program replaces the entry point of the Neo4j docker image. It starts Neo4j
as a child process, imports data, and serves HTTP requests that start, stop and
restart Neo4j or import data again.

| component | state | operations | interacts with |
|---|---|---|---|
| `Neo4jWrapper`, service side (`supervisor/neo4j.go`) | `serviceState`, `serviceCmd`; `serviceSem`, `spinUpMux`, `cancelWaitingChan` (globals) | `State`, `Start`, `Stop` (leaves a *cleaner* goroutine), `Restart` (leaves a *restarter*), `StopAll`, `Wait`, `WaitAll`, `WaitForNeo4j` (run by the *waiter* `Start` leaves and by the bootstrap) | called by every HTTP handler and by the main goroutine, concurrently; signals and waits for the process |
| `Neo4jWrapper`, utilities | `utilsCmd`, `utilsMux` | `startUtility`, utility halves of `AllStates`, `StopAll`, `WaitAll` | run by `update`; `StopAll` interrupts them |
| Import (`update`, `drop`) | the database; the plan being run | `RefreshData` | version query, scanner, planner, builder, then cypher-shell per step |
| Planner (`migrator/plan.go`) | none | `Plan`, `planFolder`, `planUpgrade`, `planDowngrade` | reads the scanner's result and the database model; calls the builder per file |
| Execution builder (`migrator/execution.go`) | the list of steps | `CreateBuilder`, `AddCypher`, `AddCommand`, `addCommand` | turns a file into `:source` or commands, followed by the statement that records it |
| Scanner (`migrator/scanner.go`) | none | `ScanFolders`, `GenerateMigrationFiles`, `DatabaseModel`'s queries, `ParseTargetVersion` | reads the import directory |
| Version query (`migrator/version.go`) | none | `Version`, `queryVersion` | reads the records of the database, one transaction per folder |
| HTTP server (`supervisor/server.go`) | none | one handler per end point | calls the wrapper from one goroutine per request |
| Main goroutine (`supervisor/supervisor.go`) | root context | `Start`, `bootstrapDB`, `stop` | opens the server, starts Neo4j, spawns the bootstrap, shuts down on a signal |
| `TSCmd` (`supervisor/tscmd.go`) | exit status | `StartCmd`, `WaitTS` | the process; shared by all that wait for it |
| Configuration (`config/config.go`) | the configuration | load, normalise, validate | read by all |

What is hard here:

* **Concurrency.** `serviceSem` protects sections, not operations. `Stop` returns
  before anything has stopped; `Restart` before anything has restarted; the
  cleaner and the restarter are woken by the same exit; the Bolt checks end long
  after the state they looked at has changed; `Start` *tries* the semaphore, all
  others wait for it, and all of those fail once the root context is cancelled.
* **Failure.** Any import step may fail or be killed; the effect of a file and its
  record are not one transaction; the loop over the steps then breaks and the next
  import continues from the records.
* **Ordering.** A plan goes up and down at once, over several folders, versions,
  revisions and batches, possibly from a snapshot, from whatever earlier imports
  left behind.

What makes each component correct:

* wrapper: it never loses track of a Neo4j that runs, and forgets one that is gone;
  what `/status` says agrees with what `Start` and `Stop` do; an update is alone;
  stopping completes and requests are answered;
* import: the records describe the database, a script that fails leaves no gap in
  them, and a finished import reaches its target but for the files the planner
  passes over; snapshots are only a shortcut; the statements and commands of a step
  do no more and no less than "run this file, then record it";
* version query: the plan is made from just what the database records, also when
  the driver retries;
* utilities: no process runs that the table does not list, no entry stays without
  an import that deletes it, the shutdown interrupts and waits for all of them;
* scanner: whether a directory is accepted, and what is found in it, does not
  depend on the order in which it is listed; generated files are accepted;
* configuration: what it validates is what planner and builder rely on.

The hazards behind these properties are listed, each at its line, in
`PROJECT.json` ("hazards").

## 2. Modules

| module | what it is |
|---|---|
| `Neo4jWrapper` | the service side of the wrapper with its callers |
| `MCNeo4jWrapper` | its instances for TLC, and what the comments of the code say of it |
| `Neo4jWrapperProofs` | its types and its processes |
| `ServiceProofs` | its state, cancel channel and bootstrap; EXTENDS `Neo4jWrapperProofs` |
| `Utilities`, `MCUtilities`, `UtilitiesProofs` | the utilities of the wrapper, with imports, status requests and the shutdown |
| `Planner` | the plan as a function of directory, records, target and batch |
| `Migration`, `MCMigration`, `MigrationProofs` | a database through releases, imports and failures; EXTENDS `Planner`. The abstract specification of an import |
| `Execution`, `MCExecution`, `ExecutionProofs` | an import in its statements and commands, with the version query; EXTENDS `Planner`, implements `Migration` |
| `Scanner`, `MCScanner`, `ScannerProofs` | from directory entries to what `Planner` takes for the directory, and `GenerateMigrationFiles`; EXTENDS `Planner` |
| `ScanProofs` | what a scan accepts and finds; EXTENDS `ScannerProofs` |

### Neo4jWrapper

A *thread* is a role of a caller: the caller itself (an HTTP request or the main
goroutine), the waiter, cleaner and restarter it leaves behind, and the bootstrap.
`pc` says where a thread is. `serviceState`, `serviceCmd` and `cancelChan` are the
code's fields; `serviceSem` and `spinUpMux` hold their owner. `proc` and `sigs`
describe the processes, which are named after the caller that starts them
(a caller starts at most one). The four fields `serviceCmd`, `cmd`, `proc` and
`sigs` are what `*TSCmd` pointers mean in the code.

A section between `Acquire` and `Release` is a step for the body and a step for
the release, so that `TryAcquire` can find the semaphore taken; in between the
goroutine does nothing else, so nothing is lost. Whatever the code reads without
the semaphore is a step of its own: the cleaner's `w.serviceCmd` (`CleanerReads`,
`CleanerPanics`) and the last look of `WaitForNeo4j` (`Peek`). Each early return
is an action: `StartBusy`, `StartRefused`, `StopIgnored`, `StopNothing`,
`StopTooLate`, `UpdateRefused` and the `...NoContext` actions for a cancelled
context.

The environment: requests arrive at any time (`Arrive`); a process becomes able to
serve Bolt, exits after an interrupt, or crashes (`Serve`, `Obey`, `Crash`; one
process at a time can bind the port); starting a process or importing data may
fail; the supervisor may get a signal (`Interrupt`). `Faults` selects which of
these a run allows. The processes outlive the supervisor: once the main goroutine
is done (`~Up`), only they take steps.

### Planner and Migration

A file is its folder, version and timestamp. Semantic versions are their rank, so
that no two are `Equal`. A plan is a record of sets: the snapshot to start on, the
files to run up and the files to run down; `NextUp` and `NextDown` give the order
the two sorts produce, which leaves files of different folders with equal
timestamps in any order. A file of an up/down folder stands for both scripts, as
the scanner insists on pairs.

`Migration` keeps the directory (`repo`, `snaps`), what is in the database
(`applied`, `recorded`) and the rest of the running plan. `Begin` is `update` up
to its loop: query, scan, plan. `Run...` and `Fail...` are iterations of the loop
that succeed and fail, `FailUp` and `FailDown` before or after the effect of the
file but before its record. A snapshot is a script of many statements, each
committed on its own, or of many commands: `FailSnapshot` leaves any of the effects
and any of the records it brings. `broken` remembers what failed: such a file may
have its effect without its record, or, from a snapshot, its record without its
effect.

`Release` and `TakeSnapshot` are the authors of the directory, who work in any
order. A snapshot contains what its batch does up to its version when it is taken
(`Covered`); a file may come after it, and after newer files were run. `planFolder`
skips the versions of a folder that are older than the newest recorded one
(`plan.go:180`; `plan_test.go:262` expects it), and a plan that starts on a snapshot
skips what is older than the snapshot. `PassedOver` is the set of these files, and
`job` keeps it, with batch and target, while the plan runs: it is what the
properties of an import except, and no more.

### Execution

The same import, statement by statement. The records are `nodes` with the labels
of their folder; `RecordedIn(nodes)` is what `queryVersion` reads of them. `update`
asks folder by folder, the schema first (`QueryFolder`); the driver may run a
transaction function again, which then appends to the result of the attempt that
failed (`QueryRetried`). `Build` is scan, plan and `CreateBuilder`, with the errors
of `addCommand`. `Begin` takes the next item of the plan, and `RunCommand`,
`RunFile`, `SetVersion`, `SetFile`, `RecordUp` and `RecordDown` are the statements
in the order `CreateBuilder` writes them. Parameters belong to a cypher-shell
session and a command ends it. `FailFile` and `FailSnapshot` may come at any
statement.

`M == INSTANCE Migration` maps `applied` to its value before the current item,
`recorded` to the files that have an undeleted node, and `busy` to the phase
"run"; the query and the statements between an effect and its record are stutters.
The configuration does not check that the labels of one folder are no subset of
another's; the refinement needs it, so it is the assumption `LabelsAssumption`.

### Utilities

`utilsCmd` and `utilsMux` are the code's fields, `proc` and `sent` the processes
and the interrupts they got. A section of an import under `utilsMux` is one step,
since it neither blocks nor leaves the mutex locked - but for the two early
returns of `startUtility`, which do: `StartRefused` and `StartFails` leave the
mutex with the import for good (`Leaked`). The section of `StopAll` is several
steps (`StopAllLocks`, `StopAllSignals`, `StopAllReturns`). `WaitTS` and `Clean`
are `waitAndClean`; both ways out of `Clean` are an exit status. `WaitAllCopies`
takes the copy, `WaitAllWaits` waits for its processes.

The service is what an import sees of `Neo4jWrapper`: `Serve` makes it Running,
and `Restart` does so under an import, which `TwoNeo4j` and `UpdateOwnsState`'s
condition show to be possible. That is how two imports overlap, and how the table
gets a second entry. `old` holds the utilities that ran or were listed when
`StopAll` locked the table, or `WaitAll` copied it.

### Scanner

The directory is a set of directories, files and snapshots, whose names are not
yet versions: `Rank` gives the version of a name, `v1` and `v1.0` the same one,
some names none. The scanner takes the entries of a listing one by one in any
order (`ScanSchemaDir`, then `ScanExtraDir`, then `AddSnapshot`) and stops at the
first it rejects. Patterns ignore the case of a direction and the parser does not,
so `1_DOWN_x` is an up file; both are modelled as they are. `Repo` is what
`Planner` and the modules above it call the directory.

`Generate` writes one or two files, `GenerateFails` none or the first; `torn` is a
call that failed and may be repeated.

## 3. Runs

| run | instance | what it shows |
|---|---|---|
| `WrapperRaces` | two requests, each any of start, stop, restart, update; Neo4j may fail to start or crash | types; `Tracked`; `UpdateOwnsState`; `StateMatchesCommand`; `BootFindsRunning`; `ChannelHasChecker`; `ReapedIsForgotten` |
| `WrapperShutdown` | two requests, each start, stop or update; importing may fail; crashes and the signal | `Tracked` also when the context is cancelled anywhere; `BootFindsRunning` with imports that fail |
| `WrapperLiveness` | two requests, each start, stop or status, fair | `StopCompletes`, `RequestsAnswered` |
| `Utilities` | two imports of up to two utilities, a status request, the shutdown, all faults, fair | `RunningIsListed`, `EntryHasCleaner`: the table is exact; `LeakNeedsFault`: who can leak the mutex; `StopAllInterrupts`, `OrphansAreLate`: whom the shutdown reaches; `StatusAnswered`, `ShutdownEndsUnlessLeaked`: nothing else hangs |
| `Migration` | two versions, two timestamps, a schema folder with down scripts and a seed folder without (one file per version), the implicit batch and one with the seeds | `LedgerExact`: the records are exact; `GapsHaveCauses`: what can open a gap in them; `TargetReached`, `SnapshotEquivalent`: where an import ends, with and without a snapshot; `RunsOnce`, `RunsInOrder`, `StaysInScope`: what each step of an import may do |
| `Execution` | two versions of one file per folder, a cypher schema folder and a seed folder of `.run` files | `ModelIsExact`: the query; `Implements`: every execution is one of `Migration` |
| `Scanner` | up to three entries: four directory names, five file names, three snapshots; three calls of the generator | `AcceptanceExact` and `ResultExact`: verdict and result do not depend on the order; `GeneratedScans` |
| `BootStart`, `RestartLost`, `ShutdownLeaves`, `TwoNeo4j`, `UtilityLeak` | one or two requests, or one import | violations, see section 5 |

**Bounds.** Wrapper: two requests, with the main goroutine's own `Start`, the
bootstrap, two waiters, two cleaners and two restarters, give every pair of
operations the code can interleave, including two stops and two starts; every
action of the module fires in one of the runs. `QuitAfter = 0` lets the Bolt
checks miss once, give up, connect or be cancelled: nothing depends on how often
they miss.

`Migration` bounds the directory to `MaxFiles` files and `MaxSnaps` snapshots, and
files and failures since the last drop together to `MaxTotal`, in the constraint
`Small`, and lets the seed folder have one file per version (number 2 of the first,
number 1 of the second); the schema folder has both. Three files, released in any order, are enough for two revisions of a
version next to a newer version or another folder, which is what the planner tells
apart, and for a file that comes late; one of three may fail, or both of two, in a
snapshot or one after the other. `Execution` has one timestamp, as `Migration` covers the order of
revisions, and bounds the failures themselves (`MaxBroken`); its
seed files have two commands and an "exit", or nothing but an "exit".

`Utilities`: two imports are the least that can meet in the table, and two steps
(cypher-shell, then another command) the least with a name that is used again and
one that is not. `Scanner`: three entries are a pair of files with the directory
or file that contradicts it; the names include Equal versions, a directory without
"v", the number 0, a direction that is not lower case and an unknown batch. One
version is kept (`.keep_version_folder`), the other exists with its files only.

**Deadlock.** It is checked in `Scanner`. `CHECK_DEADLOCK` is off in the others
because the systems may stop: the main goroutine returns, or all requests of the
instance are used up; a directory may have a seed version without a schema
version, which every import refuses. `RequestsAnswered`, `StopCompletes`,
`StatusAnswered` and `ShutdownEndsUnlessLeaked` are what says that nothing hangs.

**Conditions in the properties.** Some hold only under a condition, because the
code gives no more: `Tracked` as long as no process is interrupted twice,
`UpdateOwnsState` and half of `StateMatchesCommand` until the first interrupt.
`TwoNeo4j` shows what happens beyond it. `BootFindsRunning` allows requests, but
nothing else, to take the service from the bootstrap. `ReapedIsForgotten` is about
a context that lives, and names the one way a command is left behind (section 5).
`StopAllInterrupts` leaves the utilities alone that come after one that was waited
for, and `LeakNeedsFault` names the faults it needs. `LedgerExact` and `RunsOnce`
except files that failed. `TargetReached` and `RunsInOrder` except the files the
plan of the import passed over, and `GapsHaveCauses` lists late releases, such
plans and half-run snapshots as the only causes of a gap; all of them are reached.
`GeneratedScans` is about `Proper` calls and directories that were accepted before.
`ResultExact` excepts directories with two Equal names: of those, one overwrites
the other.

**Fairness** (`FairSpec`). Weak fairness of "some goroutine that can take a step
takes one" and of each process obeying an interrupt. Go's scheduler gives more;
a Neo4j that ignores interrupts is out of the code's hands (it has no timeout).
Requests, crashes and signals are not fair. In `Utilities` likewise: some goroutine
that can take a step does, and every utility ends, since scripts are finite.
Requests, restarts and the signal are not fair.

## 4. Proofs

All for any set of requests, imports and faults, any limit of the Bolt checks, any
directory and configuration that satisfy the assumptions named below.

**The processes of the wrapper** (`Neo4jWrapperProofs`). `TypeCorrect`
(`Spec => []TypeOK`) and `NoOrphan` (`Spec => []Tracked`). `Tracked` is not
inductive. `TrackedInv` adds what makes it so: only cleaners are ever at the labels
of a cleaner (`CleanerLabels`), and as long as no process is interrupted twice at
most one cleaner is pending, there is a command for it, it waits for that command
and only goes on to clear it when that process is reaped (`OneCleaner`). The only
step that creates a cleaner also interrupts the process, so a second cleaner means
a second interrupt. The assumptions are `NamesAssumption`, `OpsAssumption` and
`QuitAfterAssumption`: names are distinct, the options are options.

**The state of the wrapper** (`ServiceProofs`). First, where goroutines can be:
`InPlace` (a role stays at its labels), `StartsOnce` (a caller's waiter and process
are new when it starts), `MuxOwned` (who is at a label under `spinUpMux` owns it).
`ChecksCanBeCancelled` (`[]ChannelHasChecker`) follows by these. `UpdateIsAlone`,
`StateTellsCommand` and `BootIsNotLost` come from `OwnerInv` and `BootInv`: who
checks Bolt has the state Starting and who updates has it Updating until he is
done, because a command makes Start fail and nobody is there to clear it. Most steps leave both
alone (`Quiet`, `QuietKeeps`); the others are taken one by one (`LoudKeeps`).
`ReapedIsCleared` (`[]ReapedIsForgotten`) holds for all end points. `ForgetInv`
adds that only processes that were started are interrupted and that the main
goroutine waits only after it cancelled the context. Before that, a waiter is the
cleaner of the process, one that was late for another, or a restarter; and the only
step that sends a restarter to wait without an interrupt is a `Stop` that failed.
Its lemmas go by what a step disturbs (`FrameForgets`, `MoveForgets`, `WaitForgets`).

**The utilities** (`UtilitiesProofs`). `UtilitiesTypeCorrect`; `NoHiddenUtility`
and `NoStaleEntry` from `TableInv` (an entry, its process and the import that
waits for it are one); `LeaksHaveCauses` from `LeakInv` (imports are alone unless
Neo4j is restarted under one). `ShutdownReachesAll` (`[]StopAllInterrupts`) and
`OrphansComeLate` (`[]OrphansAreLate`) both come from `ShutdownInv`: what ran when
the table was locked is interrupted, still to do, or has exited, whatever imports
overlap; `StopAll` returns with something left only where it met a utility that
was waited for.

**The database** (`MigrationProofs`). `LedgerIsExact` is inductive by itself.
`SnapshotsAreEquivalent` rests on `SnapsInv`: a snapshot contains nothing but files
of its batch up to its version, however many are released after it;
`EmptyPlanFolder` and `EmptyDatabasePlan` compute the plan of an empty database and
`SnapshotsAgree` compares the two. `ImportsReachTarget` and `RecordGapsHaveCauses`
rest on `ImportInv`: at any time what is left of a plan is exactly what separates
the records (`Base`) from what the target wants (`Goal`), but for the files passed
over. A script that runs or fails then meets the older ones recorded, so that a gap
opens only at one that was passed over. `PlanOfFolder` and `PlanOfBatch` show that
a fresh plan has this property, `StepsReachTarget` that every step keeps it;
neither is an induction, as the order of a plan is given by what is left of it.
`MigrationTypeCorrect` needs `ImportInv` too.

Three theorems are about steps rather than states. `ScriptsRunOnce`: but for files
that failed, no up script runs on a database that has its effect and no down script
on one that has not; `ImportInv` says that what is still to run up is not recorded
(nor in the snapshot to start from), and `LedgerExact` that what is not recorded is
not applied. `ScriptsRunInOrder`: a script meets the older files of all folders of
its batch that were not passed over, and a down script none of the newer; a target is a prefix of the order
(`IncludedIsPrefix`), so what lies before a wanted file is recorded or still to
run, and then it is the next. `ImportsStayInScope`: at every step, also of an
import that fails later, just files the target includes come and just files it
excludes go. The assumptions are `NumbersAssumption` (versions are ordered) and
`FoldersAssumption`, with nothing about how many there are.

**The refinement** (`ExecutionProofs`). `ImplementsMigration` is
`Spec => M!Spec`. `IInv` says that a plan is of files, where in an item the import
is and which parameters are set by then, and that what the query has found is
exact for the folders it is through with. `RecordAllRecords` and
`DeleteAllDeletes` say what the two statements do to the records; they need
`LabelsAssumption`. `StepMaps` then maps each step to a step or a stutter.
`QueryIsExact` and `ExecutionTypeCorrect` come from the same invariant.

What is proved of `Migration` then holds of the statements. `MP` is
`MigrationProofs` under the same mapping; its theorems can be cited for it once its
assumptions are given (`FoldersAssumed`) and every execution is one of
`MP!Spec` (`ImplementsProved`). `StatementsKeepLedger`, `StatementGapsHaveCauses`,
`StatementsReachTarget`, `StatementsRunOnce`, `StatementsRunInOrder` and
`StatementsStayInScope` are six of them for the nodes that cypher-shell writes,
whatever statement fails. Here a file runs when its record is written, or when a
statement of it fails.

**The generator** (`ScannerProofs`). `GenerationIsSafe` is
`Spec => GeneratedScans`. `TornInv` says that but for the up file of a torn call
the directory has no error and no file of its number (`Almost`), so that the same
call completes it (`CallCompletes`). Its assumption is `NamesAssumption`.

**The scanner** (`ScanProofs`). `ScanAcceptsWellFormed` (`[]AcceptanceExact`) and
`ScanFindsEverything` (`[]ResultExact`): for any directory and any order of its
listing. A sorted list is determined by its set: the rank of an element is the
number of elements before it (`PositionIsCount`, `CountIsRank`), so two lists with
the same ascending keys are one (`OneAscending`, `SortedByKey`). Hence the walk
through the sorted files of a version accepts them if and only if up and down
scripts pair up (`PairedExact`, `FolderAccepts`), and what it returns are the files
of the directory (`FolderContents`). `ScanInv` then follows the scan: what has been
accepted is well formed (`AcceptedInv`), each version found is a directory with
just its files (`FoundInv`), and each extra folder is attached to the schema
version of equal rank (`AttachedInv`); these three hold unless the scan has failed.
The assumptions are `NamesAssumption`, `NumbersAssumption` and `FoldersAssumption`.

**Only model-checked.** Liveness (`StopCompletes`, `RequestsAnswered`,
`StatusAnswered`, `ShutdownEndsUnlessLeaked`) is out of the prover's reach. Every
other property of a passing run has its theorem.

## 5. Where code and comments disagree

* `BootStart`: "Always start Neo4j when supervisor is started"
  (`supervisor.go:89`). `Start` fails if a status request holds the semaphore.
* `RestartLost`: "Restart call Stop, Wait and Start" (`neo4j.go:199`). The Start
  can come before the cleaner has reset `serviceCmd`; the service stays stopped.
* `ShutdownLeaves`: "Send stop all to neo4j first" (`supervisor.go:162`). The
  context is cancelled before, so `Stop` and `Wait` fail and Neo4j is neither
  interrupted nor waited for.
* `TwoNeo4j`: "service is in '%s' state already, cannot be started again"
  (`neo4j.go:131`). A late result of the Bolt checks overwrites `Stopping`, a
  second `Stop` is accepted, and its late cleaner forgets a new process.
* `UtilityLeak`: "Create a copy with lock to avoid deadlocks (goroutine inside
  startUtility) when waiting for processes to exit" (`neo4j.go:257`). A utility
  that cannot be executed makes `startUtility` return with `utilsMux` locked
  (`neo4j.go:486`; `neo4j.go:481` for a name in use). The import ends; `StopAll`
  then waits for the mutex forever, as does every status request.

Some more, read off the code while translating it, which no run of their own shows:

* A restart may make Neo4j impossible to start or stop. `Restart` spawns its waiting
  goroutine whatever `Stop` returned (`neo4j.go:203`). If there was nothing to stop
  but a Start comes in between, that goroutine waits for the new process; when this
  Neo4j crashes, the goroutine reaps it with no cleaner to reset `serviceCmd`. Start
  is then refused (`neo4j.go:130`), and every Stop fails where it signals a process
  that is gone (`neo4j.go:176`), until the supervisor is restarted.
  `ReapedIsForgotten` has this as its last disjunct, and TLC finds it violated
  without.
* "StopAll sends Interrupt signal for all processes" (`neo4j.go:217`). With imports
  that overlap it returns at the first utility that was waited for and not yet
  deleted (`neo4j.go:226`): the others of the table, and Neo4j, are not interrupted.
  It is the excuse in `StopAllInterrupts`.
* A snapshot that stops half way is not used again (`plan.go:90`), and the versions
  it has records beyond are skipped (`plan.go:180`): what it had not got to of them
  is never run, and every later import ends without an error. So do late files of
  older versions, which `plan_test.go:262` expects. These are the causes that
  `GapsHaveCauses` names and the files that `TargetReached` excepts.
* `GenerateMigrationFiles` accepts names the scanner rejects: the test at
  `scanner_test.go:533` generates "my-new-migration", and the patterns
  (`scanner.go:97`) know no "-". The directory gets the version as it was spelled
  (`scanner.go:588`), also without the "v" the scanner insists on. `Proper` leaves
  such calls out.
* Two directories of a folder with Equal versions: in a schema folder both are
  found, in the others the one listed last replaces the other, as does the snapshot
  listed last of one batch and version. `Distinct` leaves them out of `ResultExact`.
* `Validate` does not compare the labels of folders (`config.go:284`); with labels
  that contain another folder's, one folder's records are read as the other's.
* A folder may be listed twice in a batch (`config.go:298`); its files are planned
  twice.

## 6. Not modelled

* Logging, the text of plans, versions and errors, the JSON forms of versions and
  targets, replies and parameters of the HTTP handlers: text only.
* The goroutines of `TSCmd` that copy output. They may lose the end of it, and stop
  at a line over 64 KiB, after which the process blocks on its pipe.
* The contents of files. A script has an effect or has not, a snapshot any part of
  the effects and records of its files.
* Names of snapshots that do not have the form of one (`scanner.go:379`), which are
  rejected like those of unknown batches.
* The file system: base folders that are missing, hidden files, errors of reading.
* Loading the configuration (a library), dry runs (no effect on the database), the
  types of returned values, the test double of the driver.

## 7. Plan

Done: the modules of section 2, their runs and theorems. What is left:

1. `Supervisor`: the wrapper and the utilities composed, in the place of the
   `Serve` and `Restart` by which `Utilities` stands for the wrapper.
2. `TSCmd`: `WaitTS` with many callers and the copying goroutines, implementing
   the one-step `WaitTS` of `Neo4jWrapper` and `Utilities`.
3. `Scanner` and `Migration` composed: `Repo` of an accepted scan in the place of
   `repo`, so that releases are entries of a directory instead of files.
