-------------------------- MODULE MigrationProofs ---------------------------
(***************************************************************************)
(* Proofs about Migration, for any versions, timestamps, folders, batches  *)
(* and any history of releases, imports and failures.                      *)
(***************************************************************************)
EXTENDS Migration, TLAPS

-----------------------------------------------------------------------------
(* The ledger.                                                             *)

\* A file that did not fail is recorded if and only if it was applied.
THEOREM LedgerIsExact == Spec => []LedgerExact
<1>1. Init => LedgerExact
  BY DEF Init, LedgerExact
<1>2. LedgerExact /\ [Next]_vars => LedgerExact'
  <2> SUFFICES ASSUME LedgerExact, [Next]_vars PROVE LedgerExact'
    OBVIOUS
  <2> USE DEF LedgerExact
  <2>1. ASSUME NEW f \in Files, Release(f) PROVE LedgerExact'
    BY <2>1 DEF Release
  <2>2. ASSUME NEW b \in BatchNames, NEW v \in Versions, TakeSnapshot(b, v) PROVE LedgerExact'
    BY <2>2 DEF TakeSnapshot
  <2>3. ASSUME NEW b \in BatchNames, NEW target \in Targets, NEW clean \in BOOLEAN,
               Begin(b, target, clean)
        PROVE  LedgerExact'
    BY <2>3 DEF Begin
  <2>4. CASE Step
    <3>1. CASE RunDrop      BY <3>1 DEF RunDrop
    <3>2. CASE RunSnapshot  BY <3>2 DEF RunSnapshot
    <3>3. CASE End          BY <3>3 DEF End
    <3>4. ASSUME NEW f \in Files, RunUp(f) PROVE LedgerExact'
      BY <3>4 DEF RunUp
    <3>5. ASSUME NEW f \in Files, RunDown(f) PROVE LedgerExact'
      BY <3>5 DEF RunDown
    <3>6. QED  BY <2>4, <3>1, <3>2, <3>3, <3>4, <3>5 DEF Step
  <2>5. CASE Fail
    <3> USE DEF GiveUp
    <3>1. CASE FailDrop      BY <3>1 DEF FailDrop
    <3>2. CASE FailSnapshot  BY <3>2 DEF FailSnapshot
    <3>3. ASSUME NEW f \in Files, FailUp(f) PROVE LedgerExact'
      BY <3>3 DEF FailUp
    <3>4. ASSUME NEW f \in Files, FailDown(f) PROVE LedgerExact'
      BY <3>4 DEF FailDown
    <3>5. QED  BY <2>5, <3>1, <3>2, <3>3, <3>4 DEF Fail
  <2>6. CASE UNCHANGED vars
    BY <2>6 DEF vars
  <2>7. QED  BY <2>1, <2>2, <2>3, <2>4, <2>5, <2>6 DEF Next
<1>3. QED  BY <1>1, <1>2, PTL DEF Spec

-----------------------------------------------------------------------------
(* Snapshots.                                                              *)

\* There is one snapshot of a batch and a version at most, and it contains nothing
\* but files of its batch up to its version.
SnapsInv ==
    /\ repo \subseteq Files
    /\ \A s \in snaps :
          /\ s.batch \in BatchNames
          /\ s.version \in Versions
          /\ s.content \subseteq Covered(repo, s.batch, s.version)
    /\ \A r, s \in snaps : (r.batch = s.batch /\ r.version = s.version) => r = s

\* A plan starts with one snapshot or none.
LEMMA OneStart ==
    ASSUME SnapsInv, NEW db, NEW target, NEW b,
           NEW r \in StartSnapshot(repo, snaps, db, target, b),
           NEW s \in StartSnapshot(repo, snaps, db, target, b)
    PROVE  r = s
<1>1. /\ r \in snaps /\ s \in snaps /\ r.batch = b /\ s.batch = b
      /\ r.version <= s.version /\ s.version <= r.version
  BY DEF StartSnapshot, Usable
<1>2. r.version \in Nat /\ s.version \in Nat
  BY <1>1, NumbersAssumption DEF SnapsInv
<1>3. r.version = s.version
  BY <1>1, <1>2
<1>4. QED  BY <1>1, <1>3 DEF SnapsInv

\* On an empty database one folder of one version is upgraded up to the target.
LEMMA EmptyPlanFolder ==
    ASSUME NEW R \in SUBSET Files, NEW folder, NEW v \in Versions, NEW target \in Targets
    PROVE  /\ PlanFolder(folder, v, R, {}, target).down = {}
           /\ PlanFolder(folder, v, R, {}, target).up =
                {f \in R : f.folder = folder /\ f.version = v /\ Included(f, target)}
<1> DEFINE here == {f \in R : f.folder = folder /\ f.version = v}
           wanted == {f \in R : f.folder = folder /\ f.version = v /\ Included(f, target)}
<1>1. /\ GetFileTimestamps({}, folder, v) = {}
      /\ ~ContainsHigherVersion({}, folder, v)
  BY DEF GetFileTimestamps, ContainsHigherVersion
<1>2. \A scripts, commit : PlanDowngrade(scripts, {}, commit) = {}
  BY DEF PlanDowngrade
<1>3. CASE target = NoTarget \/ v < target.version
  <2>1. PlanUpgrade(here, {}, 0) = wanted
    BY <1>3 DEF PlanUpgrade, Included
  <2>2. QED  BY <1>1, <1>3, <2>1 DEF PlanFolder
<1>4. CASE target # NoTarget /\ ~(v < target.version) /\ v = target.version
  <2>1. PlanUpgrade(here, {}, target.revision) = wanted
    BY <1>4, NumbersAssumption DEF PlanUpgrade, Included
  <2>2. QED  BY <1>1, <1>2, <1>4, <2>1 DEF PlanFolder
<1>5. CASE target # NoTarget /\ ~(v < target.version) /\ v # target.version
  <2>1. wanted = {}
    BY <1>5 DEF Included
  <2>2. QED  BY <1>1, <1>2, <1>5, <2>1 DEF PlanFolder
<1>6. QED  BY <1>3, <1>4, <1>5

\* The files an import of an empty database runs.
Imported(R, S, b, target) ==
    {f \in R : /\ f.folder \in PlanFolders(b)
               /\ f.version \in LocalVersions(R)
               /\ \A s \in StartSnapshot(R, S, {}, target, b) : s.version < f.version
               /\ Included(f, target)}

\* On an empty database a plan is the snapshot it starts from and the files of
\* the versions above it, up to the target.
LEMMA EmptyDatabasePlan ==
    ASSUME NEW R \in SUBSET Files, NEW S, NEW b \in BatchNames, NEW target \in Targets
    PROVE  /\ Plan(R, S, {}, target, b).start = StartSnapshot(R, S, {}, target, b)
           /\ Plan(R, S, {}, target, b).down = {}
           /\ Plan(R, S, {}, target, b).up = Imported(R, S, b, target)
<1> DEFINE start == StartSnapshot(R, S, {}, target, b)
           versions == {v \in LocalVersions(R) : \A s \in start : s.version < v}
           run(folder, v) == PlanFolder(folder, v, R, {}, target)
           parts == {run(folder, v) : folder \in PlanFolders(b), v \in versions}
<1>1. Plan(R, S, {}, target, b) =
        [start |-> start, up |-> UNION {p.up : p \in parts}, down |-> UNION {p.down : p \in parts}]
  BY DEF Plan
<1>2. \A folder \in PlanFolders(b), v \in versions :
        /\ run(folder, v).down = {}
        /\ run(folder, v).up =
             {f \in R : f.folder = folder /\ f.version = v /\ Included(f, target)}
  <2> SUFFICES ASSUME NEW folder \in PlanFolders(b), NEW v \in versions
               PROVE  /\ run(folder, v).down = {}
                      /\ run(folder, v).up =
                           {f \in R : f.folder = folder /\ f.version = v /\ Included(f, target)}
    OBVIOUS
  <2>1. v \in Versions
    BY DEF LocalVersions
  <2>2. QED  BY <2>1, EmptyPlanFolder
<1>3. UNION {p.down : p \in parts} = {}
  <2>1. \A p \in parts : p.down = {}
    BY <1>2
  <2> HIDE DEF parts
  <2>2. QED  BY <2>1
<1>4. UNION {p.up : p \in parts} =
        {f \in R : f.folder \in PlanFolders(b) /\ f.version \in versions /\ Included(f, target)}
  <2>1. ASSUME NEW f \in R, f.folder \in PlanFolders(b), f.version \in versions, Included(f, target)
        PROVE  f \in UNION {p.up : p \in parts}
    <3>1. run(f.folder, f.version) \in parts
      BY <2>1
    <3>2. f \in run(f.folder, f.version).up
      BY <2>1, <1>2
    <3> HIDE DEF parts, run
    <3>3. QED  BY <3>1, <3>2
  <2>2. ASSUME NEW p \in parts, NEW f \in p.up
        PROVE  f \in R /\ f.folder \in PlanFolders(b) /\ f.version \in versions /\ Included(f, target)
    <3>1. PICK folder \in PlanFolders(b), v \in versions : p = run(folder, v)
      OBVIOUS
    <3>2. f \in {g \in R : g.folder = folder /\ g.version = v /\ Included(g, target)}
      BY <3>1, <1>2
    <3>3. QED  BY <3>2
  <2> HIDE DEF parts, versions
  <2>3. QED  BY <2>1, <2>2
<1>5. UNION {p.up : p \in parts} = Imported(R, S, b, target)
  BY <1>4 DEF Imported
<1>6. QED  BY <1>1, <1>3, <1>5

\* A snapshot that can be used contains nothing the target excludes, and all that
\* it was not taken without.
LEMMA SnapshotsAgree == SnapsInv => SnapshotEquivalent
<1> SUFFICES ASSUME SnapsInv, ~ScanError(repo),
                    NEW b \in BatchNames, NEW target \in Targets,
                    StartSnapshot(repo, snaps, {}, target, b) # {}
             PROVE  LET fast == Plan(repo, snaps, {}, target, b)
                        slow == Plan(repo, {}, {}, target, b)
                    IN  /\ fast.down = {} /\ slow.down = {}
                        /\ fast.up \cup UNION {s.content : s \in fast.start}
                             = slow.up \ PassedOver(repo, snaps, {}, target, b)
  BY DEF SnapshotEquivalent
<1> DEFINE start == StartSnapshot(repo, snaps, {}, target, b)
           wanted == {f \in repo : f.folder \in PlanFolders(b) /\ Included(f, target)}
<1>1. \A f \in repo : f.folder \in PlanFolders(b) => f.version \in LocalVersions(repo)
  <2>1. \A f \in repo : f.folder \in Folders /\ f.version \in Versions
    BY DEF SnapsInv, Files
  <2>2. QED  BY <2>1 DEF ScanError, LocalVersions, Folders
<1>2. Plan(repo, {}, {}, target, b).down = {} /\ Plan(repo, {}, {}, target, b).up = wanted
  <2>1. StartSnapshot(repo, {}, {}, target, b) = {}
    BY DEF StartSnapshot
  <2>2. repo \in SUBSET Files
    BY DEF SnapsInv
  <2>3. /\ Plan(repo, {}, {}, target, b).down = {}
        /\ Plan(repo, {}, {}, target, b).up = Imported(repo, {}, b, target)
    BY <2>2, EmptyDatabasePlan
  <2>4. Imported(repo, {}, b, target) = wanted
    BY <1>1, <2>1 DEF Imported
  <2>5. QED  BY <2>3, <2>4
<1>3. /\ Plan(repo, snaps, {}, target, b).down = {}
      /\ Plan(repo, snaps, {}, target, b).start = start
      /\ Plan(repo, snaps, {}, target, b).up = {f \in wanted : \A s \in start : s.version < f.version}
  <2>1. repo \in SUBSET Files
    BY DEF SnapsInv
  <2>2. /\ Plan(repo, snaps, {}, target, b).down = {}
        /\ Plan(repo, snaps, {}, target, b).start = start
        /\ Plan(repo, snaps, {}, target, b).up = Imported(repo, snaps, b, target)
    BY <2>1, EmptyDatabasePlan
  <2>3. Imported(repo, snaps, b, target) = {f \in wanted : \A s \in start : s.version < f.version}
    BY <1>1 DEF Imported
  <2>4. QED  BY <2>2, <2>3
<1>4. PICK s : start = {s}
  <2>1. \A r, s \in start : r = s
    BY OneStart
  <2> HIDE DEF start
  <2>2. start # {}
    BY DEF start
  <2>3. QED  BY <2>1, <2>2
<1>5. /\ s \in snaps /\ s.batch = b
      /\ target = NoTarget \/ s.version < target.version
           \/ (s.version = target.version /\ target.revision = 0)
  <2>1. s \in start
    BY <1>4
  <2>2. QED  BY <2>1 DEF StartSnapshot, Usable
<1>6. s.version \in Nat /\ \A f \in repo : f.version \in Nat
  BY <1>5, NumbersAssumption DEF SnapsInv, Files
<1>7. Covered(repo, b, s.version) = {f \in wanted : f.version <= s.version}
  <2>1. target # NoTarget => target.version \in Nat
    BY NumbersAssumption DEF Targets
  <2>2. \A f \in repo : f.version <= s.version => Included(f, target)
    BY <1>5, <1>6, <2>1 DEF Included
  <2>3. QED  BY <2>2 DEF Covered
<1>8. s.content \subseteq Covered(repo, b, s.version)
  BY <1>5 DEF SnapsInv
<1>9. PassedOver(repo, snaps, {}, target, b) = Covered(repo, b, s.version) \ s.content
  <2>1. \A f \in repo : ~ContainsHigherVersion({}, f.folder, f.version)
    BY DEF ContainsHigherVersion
  <2>2. PassedOver(repo, snaps, {}, target, b)
          = UNION {Covered(repo, b, r.version) \ r.content : r \in start}
    BY <2>1 DEF PassedOver
  <2> HIDE DEF start
  <2>3. QED  BY <1>4, <2>2
<1>10. \A f \in wanted : s.version < f.version <=> ~(f.version <= s.version)
  BY <1>6
<1>11. QED
  <2> HIDE DEF start, wanted
  <2>1. {f \in wanted : \A r \in start : r.version < f.version}
          = {f \in wanted : s.version < f.version}
    BY <1>4
  <2>2. UNION {r.content : r \in start} = s.content
    BY <1>4
  <2>3. {f \in wanted : s.version < f.version} \cup s.content
          = wanted \ (Covered(repo, b, s.version) \ s.content)
    BY <1>7, <1>8, <1>10
  <2>4. QED  BY <1>2, <1>3, <1>9, <2>1, <2>2, <2>3

LEMMA SnapshotsInvariant == Spec => []SnapsInv
<1>1. Init => SnapsInv
  BY DEF Init, SnapsInv
<1>2. SnapsInv /\ [Next]_vars => SnapsInv'
  <2> SUFFICES ASSUME SnapsInv, [Next]_vars PROVE SnapsInv'
    OBVIOUS
  <2>1. ASSUME NEW g \in Files, Release(g) PROVE SnapsInv'
    BY <2>1 DEF Release, SnapsInv, Covered, PlanFolders, BatchFolders
  <2>2. ASSUME NEW b \in BatchNames, NEW v \in Versions, TakeSnapshot(b, v) PROVE SnapsInv'
    <3> DEFINE new == [batch |-> b, version |-> v, content |-> Covered(repo, b, v)]
    <3>1. repo' = repo /\ snaps' = snaps \cup {new}
      BY <2>2 DEF TakeSnapshot
    <3>2. \A s \in snaps : ~(s.batch = b /\ s.version = v)
      BY <2>2 DEF TakeSnapshot
    <3>3. new.batch = b /\ new.version = v /\ new.content = Covered(repo, b, v)
      OBVIOUS
    <3>4. \A c, w : Covered(repo', c, w) = Covered(repo, c, w)
      BY <3>1 DEF Covered, PlanFolders, BatchFolders
    <3> HIDE DEF new
    <3>5. QED  BY <3>1, <3>2, <3>3, <3>4 DEF SnapsInv
  <2>3. ASSUME NEW b \in BatchNames, NEW target \in Targets, NEW clean \in BOOLEAN,
               Begin(b, target, clean)
        PROVE  SnapsInv'
    BY <2>3 DEF Begin, SnapsInv, Covered, PlanFolders, BatchFolders
  <2>4. CASE Step
    BY <2>4 DEF Step, RunDrop, RunSnapshot, RunUp, RunDown, End, SnapsInv,
            Covered, PlanFolders, BatchFolders
  <2>5. CASE Fail
    BY <2>5 DEF Fail, FailDrop, FailSnapshot, FailUp, FailDown, GiveUp, SnapsInv,
            Covered, PlanFolders, BatchFolders
  <2>6. CASE UNCHANGED vars
    BY <2>6 DEF vars, SnapsInv, Covered, PlanFolders, BatchFolders
  <2>7. QED  BY <2>1, <2>2, <2>3, <2>4, <2>5, <2>6 DEF Next
<1>3. QED  BY <1>1, <1>2, PTL DEF Spec

\* On an empty database, imports from a snapshot and from the beginning have the
\* same result, but for what was released after the snapshot for its version or an
\* older one.
THEOREM SnapshotsAreEquivalent == Spec => []SnapshotEquivalent
BY SnapshotsInvariant, SnapshotsAgree, PTL

-----------------------------------------------------------------------------
(* The plan.                                                               *)

\* The files of a batch that a target includes.
Wanted(R, b, target) == {f \in R : f.folder \in PlanFolders(b) /\ Included(f, target)}

\* The target includes f, but the records have a higher version of its folder.
Outdated(f, db, target) ==
    /\ target = NoTarget \/ f.version < target.version
    /\ ContainsHigherVersion(db, f.folder, f.version)

LEMMA FileOfFields ==
    ASSUME NEW f \in Files, NEW g \in Files,
           f.folder = g.folder, f.version = g.version, f.ts = g.ts
    PROVE  f = g
  BY DEF Files

LEMMA TargetTypes ==
    ASSUME NEW target \in Targets, target # NoTarget
    PROVE  target.version \in Nat /\ target.revision \in Nat
<1>1. target \in [version : Versions, revision : Timestamps \cup {0}]
  BY DEF Targets
<1>2. target.version \in Versions /\ target.revision \in Timestamps \cup {0}
  BY <1>1
<1>3. \A n \in Versions \cup Timestamps : n \in Nat
  BY NumbersAssumption
<1>4. target.revision \in Timestamps \/ target.revision = 0
  BY <1>2
<1>5. QED  BY <1>2, <1>3, <1>4

\* A target includes all files that are older than one it includes.
LEMMA IncludedIsPrefix ==
    ASSUME NEW f \in Files, NEW g \in Files, NEW target \in Targets,
           Before(g, f), Included(f, target)
    PROVE  Included(g, target)
<1>1. {f.version, g.version, f.ts, g.ts} \subseteq Nat
  BY NumbersAssumption DEF Files
<1>2. target # NoTarget => target.version \in Nat /\ target.revision \in Nat
  BY TargetTypes
<1>3. QED  BY <1>1, <1>2 DEF Before, Included

\* The part of a plan for one folder and version: what is missing up to the target
\* and not outdated is run up, and what is recorded beyond the target is run down.
Exact(part, folder, v, R, db, target) ==
    /\ \A f \in part.up :
          /\ f \in R /\ f.folder = folder /\ f.version = v
          /\ Included(f, target) /\ f \notin db
    /\ \A f \in R : f.folder = folder /\ f.version = v /\ Included(f, target)
          => f \in db \/ f \in part.up \/ Outdated(f, db, target)
    /\ \A f : f \in part.down <=>
          /\ f \in db /\ f.folder = folder /\ f.version = v
          /\ ~Included(f, target) /\ folder \notin ChangeOnly

\* planFolder computes such a part.
LEMMA PlanOfFolder ==
    ASSUME NEW R \in SUBSET Files, NEW db \in SUBSET R,
           NEW folder \in Folders, NEW v \in Versions, NEW target \in Targets
    PROVE  Exact(PlanFolder(folder, v, R, db, target), folder, v, R, db, target)
<1> USE DEF Exact
<1> DEFINE here == {f \in R : f.folder = folder /\ f.version = v}
           down == IF folder \in ChangeOnly THEN {} ELSE here
           done == GetFileTimestamps(db, folder, v)
           plan == PlanFolder(folder, v, R, db, target)
<1>1. \A f \in here : f.ts \in done <=> f \in db
  <2>1. ASSUME NEW f \in here, f.ts \in done PROVE f \in db
    <3>1. PICK g \in db : g.folder = folder /\ g.version = v /\ g.ts = f.ts
      BY <2>1 DEF GetFileTimestamps
    <3>2. f = g
      BY <3>1, FileOfFields
    <3>3. QED  BY <3>2
  <2>2. ASSUME NEW f \in here, f \in db PROVE f.ts \in done
    BY <2>2 DEF GetFileTimestamps
  <2>3. QED  BY <2>1, <2>2
<1>2. /\ v \in Nat
      /\ \A f \in R : f.ts \in Nat /\ f.ts > 0
      /\ target # NoTarget => target.version \in Nat /\ target.revision \in Nat
  <2>1. \A f \in R : f.ts \in Timestamps
    BY DEF Files
  <2>2. \A n \in Timestamps : n \in Nat /\ n > 0
    BY NumbersAssumption
  <2>3. target # NoTarget => target.version \in Nat /\ target.revision \in Nat
    BY TargetTypes
  <2>4. v \in Nat
    BY NumbersAssumption
  <2>5. QED  BY <2>1, <2>2, <2>3, <2>4
<1>3. CASE target = NoTarget \/ v < target.version
  <2>1. \A f \in here : Included(f, target)
    BY <1>3 DEF Included
  <2>2. CASE ContainsHigherVersion(db, folder, v)
    <3>1. plan = NothingToRun
      BY <1>3, <2>2 DEF PlanFolder
    <3>2. \A f \in here : Outdated(f, db, target)
      BY <1>3, <2>2 DEF Outdated
    <3>3. QED  BY <2>1, <3>1, <3>2 DEF NothingToRun
  <2>3. CASE ~ContainsHigherVersion(db, folder, v)
    <3>1. plan = [up |-> PlanUpgrade(here, done, 0), down |-> {}]
      BY <1>3, <2>3 DEF PlanFolder
    <3>2. PlanUpgrade(here, done, 0) = {f \in here : f.ts \notin done}
      BY DEF PlanUpgrade
    <3>3. plan.up = {f \in here : f.ts \notin done} /\ plan.down = {}
      BY <3>1, <3>2
    <3> HIDE DEF plan, done
    <3>4. QED  BY <1>1, <2>1, <3>3 DEF plan
  <2>4. QED  BY <2>2, <2>3
<1>4. CASE target # NoTarget /\ ~(v < target.version) /\ v = target.version
  <2>1. plan = [up   |-> PlanUpgrade(here, done, target.revision),
                down |-> PlanDowngrade(down, done, target.revision)]
    BY <1>4 DEF PlanFolder
  <2>2. \A f \in here : Included(f, target) <=> target.revision = 0 \/ f.ts <= target.revision
    BY <1>4, <1>2 DEF Included
  <2>3. /\ \A f : f \in plan.up <=>
              f \in here /\ (target.revision = 0 \/ f.ts <= target.revision) /\ f.ts \notin done
        /\ \A f : f \in plan.down <=>
              f \in down /\ target.revision # 0 /\ f.ts > target.revision /\ f.ts \in done
    BY <2>1 DEF PlanUpgrade, PlanDowngrade
  <2>4. \A f \in here : Included(f, target) <=> ~(target.revision # 0 /\ f.ts > target.revision)
    BY <1>2, <1>4, <2>2
  <2> HIDE DEF plan, done
  <2>5. QED  BY <1>1, <2>2, <2>3, <2>4 DEF plan
<1>5. CASE target # NoTarget /\ ~(v < target.version) /\ v # target.version
  <2>1. plan = [up |-> {}, down |-> PlanDowngrade(down, done, -1)]
    BY <1>5 DEF PlanFolder
  <2>2. \A f \in here : ~Included(f, target)
    BY <1>5, <1>2 DEF Included
  <2>3. /\ plan.up = {}
        /\ \A f : f \in plan.down <=> f \in down /\ f.ts > -1 /\ f.ts \in done
    BY <2>1 DEF PlanDowngrade
  <2>4. \A f \in here : f.ts > -1
    BY <1>2
  <2> HIDE DEF plan, done
  <2>5. QED  BY <1>1, <2>2, <2>3, <2>4 DEF plan
<1>6. QED  BY <1>3, <1>4, <1>5

\* Every file of the import directory is of a version that is planned.
LEMMA VersionsAreLocal ==
    ASSUME NEW R \in SUBSET Files, ~ScanError(R)
    PROVE  \A f \in R : f.version \in LocalVersions(R)
<1>1. \A f \in R : f.folder \in Folders /\ f.version \in Versions
  BY DEF Files
<1>2. QED  BY <1>1 DEF ScanError, LocalVersions, Folders

\* What a plan does: it runs what is missing up to the target, but for what it
\* passes over, starts from a snapshot only if nothing is recorded, and runs down
\* what is recorded beyond the target.
PlanExact(plan, passed, db, b, target) ==
    /\ plan = [start |-> plan.start, up |-> plan.up, down |-> plan.down]
    /\ plan.start \subseteq snaps
    /\ plan.up \subseteq Wanted(repo, b, target) \ db
    /\ \A f \in Wanted(repo, b, target) :
         \/ f \in db \/ f \in plan.up \/ f \in passed
         \/ plan.start # {} /\ \A s \in plan.start : f \in s.content
    /\ plan.start # {} => db = {}
    /\ \A s \in plan.start :
         /\ s.content \subseteq Wanted(repo, b, target) \ plan.up
         /\ \A f \in s.content, g \in plan.up : ~Before(g, f)
    /\ \A f \in plan.down : /\ f \in db /\ f.folder \in PlanFolders(b) \ ChangeOnly
                            /\ f \notin Wanted(repo, b, target)
    /\ \A f \in db : f.folder \in PlanFolders(b) =>
         f \in Wanted(repo, b, target) \/ f \in plan.down \/ f.folder \in ChangeOnly

\* Plan makes such a plan.
LEMMA PlanOfBatch ==
    ASSUME SnapsInv, ~ScanError(repo), NEW db \in SUBSET repo,
           NEW b \in BatchNames, NEW target \in Targets,
           NEW plan, plan = Plan(repo, snaps, db, target, b),
           NEW passed, passed = PassedOver(repo, snaps, db, target, b)
    PROVE  PlanExact(plan, passed, db, b, target)
<1> DEFINE start == StartSnapshot(repo, snaps, db, target, b)
           versions == {v \in LocalVersions(repo) : \A s \in start : s.version < v}
           run(folder, v) == PlanFolder(folder, v, repo, db, target)
           parts == {run(folder, v) : folder \in PlanFolders(b), v \in versions}
<1>0. repo \in SUBSET Files /\ db \in SUBSET Files
  BY DEF SnapsInv
<1>1. plan = [start |-> start, up |-> UNION {p.up : p \in parts}, down |-> UNION {p.down : p \in parts}]
  BY DEF Plan
<1>2. /\ \A f : f \in plan.up <=>
           \E folder \in PlanFolders(b), v \in versions : f \in run(folder, v).up
      /\ \A f : f \in plan.down <=>
           \E folder \in PlanFolders(b), v \in versions : f \in run(folder, v).down
      /\ plan.start = start
  <2> HIDE DEF start, versions, run
  <2>1. QED  BY <1>1
<1>3. PlanFolders(b) \subseteq Folders /\ versions \subseteq Versions
  BY FoldersAssumption DEF PlanFolders, BatchFolders, BatchNames, Folders, LocalVersions
<1>4. ASSUME NEW folder \in PlanFolders(b), NEW v \in versions
      PROVE  Exact(run(folder, v), folder, v, repo, db, target)
  <2>1. folder \in Folders /\ v \in Versions
    BY <1>3
  <2>2. QED  BY <1>0, <2>1, PlanOfFolder
<1>5. \A s \in start : /\ s \in snaps /\ s.batch = b /\ db = {}
                       /\ target = NoTarget \/ s.version < target.version
                            \/ (s.version = target.version /\ target.revision = 0)
  BY DEF StartSnapshot, Usable, HasAnyVersion
<1>6. \A s \in start : s.content \subseteq Covered(repo, b, s.version)
  BY <1>5 DEF SnapsInv
<1>7. /\ \A s \in start : s.version \in Nat
      /\ \A f \in repo : f.version \in Nat
  BY <1>5, NumbersAssumption DEF SnapsInv, Files
<1>8. \A s \in start : s.content \subseteq Wanted(repo, b, target)
  <2> SUFFICES ASSUME NEW s \in start, NEW f \in s.content PROVE Included(f, target) /\ f \in repo
                                                                /\ f.folder \in PlanFolders(b)
    BY DEF Wanted
  <2>1. f \in repo /\ f.folder \in PlanFolders(b) /\ f.version <= s.version
    BY <1>6 DEF Covered
  <2>2. target # NoTarget => target.version \in Nat
    BY TargetTypes
  <2>3. s.version \in Nat /\ f.version \in Nat
    BY <1>7, <2>1
  <2>4. target = NoTarget \/ s.version < target.version
          \/ (s.version = target.version /\ target.revision = 0)
    BY <1>5
  <2>5. Included(f, target)
    BY <2>1, <2>2, <2>3, <2>4 DEF Included
  <2>6. QED  BY <2>1, <2>5
<1>9. \A f \in repo : f.version \in versions \/ \E s \in start : f.version <= s.version
  <2>1. \A f \in repo : f.version \in LocalVersions(repo)
    BY <1>0, VersionsAreLocal
  <2>2. \A s \in start, f \in repo : s.version < f.version \/ f.version <= s.version
    <3> HIDE DEF start
    <3>1. QED  BY <1>7
  <2> HIDE DEF start
  <2>3. QED  BY <2>1, <2>2
<1>10. /\ \A r, s \in start : r = s
       /\ \A f \in repo \ db : f.folder \in PlanFolders(b) /\ Outdated(f, db, target) => f \in passed
       /\ \A s \in start : Covered(repo, b, s.version) \ s.content \subseteq passed
  <2>1. \A r, s \in start : r = s
    BY OneStart
  <2>2. QED  BY <2>1 DEF PassedOver, Outdated
<1> HIDE DEF start, versions, run, parts
<1>11. ASSUME NEW f \in Wanted(repo, b, target)
       PROVE  \/ f \in db \/ f \in plan.up \/ f \in passed
              \/ plan.start # {} /\ \A s \in plan.start : f \in s.content
  <2>1. f \in repo /\ f.folder \in PlanFolders(b) /\ Included(f, target)
    BY DEF Wanted
  <2>2. CASE f.version \in versions
    <3>1. f \in db \/ f \in run(f.folder, f.version).up \/ Outdated(f, db, target)
      BY <1>4, <2>1, <2>2 DEF Exact
    <3>2. QED  BY <1>2, <1>10, <2>1, <2>2, <3>1
  <2>3. CASE f.version \notin versions
    <3>1. PICK r \in start : f.version <= r.version
      BY <1>9, <2>1, <2>3
    <3>2. f \in Covered(repo, b, r.version)
      BY <2>1, <3>1 DEF Covered
    <3>3. f \in r.content \/ f \in passed
      BY <1>10, <3>2
    <3>4. QED  BY <1>2, <1>10, <3>1, <3>3
  <2>4. QED  BY <2>2, <2>3
<1>12. \A f \in plan.down : /\ f \in db /\ f.folder \in PlanFolders(b) \ ChangeOnly
                            /\ f \notin Wanted(repo, b, target)
  BY <1>2, <1>4 DEF Wanted, Exact
<1>13. ASSUME NEW f \in db, f.folder \in PlanFolders(b)
       PROVE  f \in Wanted(repo, b, target) \/ f \in plan.down \/ f.folder \in ChangeOnly
  <2>1. start = {}
    BY <1>5
  <2>2. f.version \in versions
    BY <1>9, <2>1
  <2>3. QED  BY <1>2, <1>4, <1>13, <2>2 DEF Wanted, Exact
<1>14. plan.up \subseteq Wanted(repo, b, target) \ db
  BY <1>2, <1>4 DEF Wanted, Exact
<1>15. \A s \in start, v \in versions : s.version < v
  BY DEF versions
<1>16. \A s \in start : \A f \in s.content, g \in plan.up : f # g /\ ~Before(g, f)
  <2> SUFFICES ASSUME NEW s \in start, NEW f \in s.content, NEW g \in plan.up
               PROVE  f # g /\ ~Before(g, f)
    OBVIOUS
  <2>1. f \in repo /\ f.version <= s.version
    BY <1>6 DEF Covered
  <2>2. g.version \in versions /\ g \in repo
    BY <1>2, <1>4 DEF Exact
  <2>3. s.version < g.version
    BY <1>15, <2>2
  <2>4. s.version \in Nat /\ f.version \in Nat /\ g.version \in Nat
    BY <1>7, <2>1, <2>2
  <2>5. QED  BY <2>1, <2>3, <2>4 DEF Before
<1>17. plan = [start |-> plan.start, up |-> plan.up, down |-> plan.down]
  BY <1>1
<1>18. QED
  BY <1>2, <1>5, <1>8, <1>11, <1>12, <1>13, <1>14, <1>17, <1>16 DEF PlanExact

-----------------------------------------------------------------------------
(* Imports reach their targets.                                            *)

\* What will be recorded when the rest of the plan begins, and what is wanted.
Base == IF drop THEN {} ELSE recorded
Goal == Wanted(repo, job.batch, job.target)

\* The rest of a plan is what separates the database from the target, but for the
\* files passed over.
PlanInv ==
    /\ job.batch \in BatchNames /\ job.target \in Targets
    /\ todo = [start |-> todo.start, up |-> todo.up, down |-> todo.down]
    /\ todo.start \subseteq snaps
    /\ todo.up \subseteq Goal \ Base
    /\ \A f \in Goal : \/ f \in Base \/ f \in todo.up \/ f \in job.passed
                       \/ todo.start # {} /\ \A s \in todo.start : f \in s.content
    /\ todo.start # {} => Base = {}
    /\ \A s \in todo.start :
         /\ s.content \subseteq Goal \ todo.up
         /\ \A f \in s.content, g \in todo.up : ~Before(g, f)
    /\ \A f \in todo.down : /\ f \in Base /\ f \notin Goal
                            /\ f.folder \in PlanFolders(job.batch) \ ChangeOnly
    /\ \A f \in Base : f.folder \in PlanFolders(job.batch) =>
         f \in Goal \/ f \in todo.down \/ f.folder \in ChangeOnly

ImportInv ==
    /\ recorded \subseteq repo
    /\ ~busy => todo = EmptyPlan /\ ~drop
    /\ busy => PlanInv

\* Only files of the directory are passed over.
LEMMA PassedAreFiles ==
    ASSUME SnapsInv, NEW db, NEW target, NEW b
    PROVE  PassedOver(repo, snaps, db, target, b) \subseteq Files
  BY DEF SnapsInv, PassedOver, Covered

\* The import is over, or what it changes is not what the invariant is about.
LEMMA IdleSteps ==
    ASSUME SnapsInv, ImportInv
    PROVE  /\ \A f \in Files : Release(f) => ImportInv'
           /\ \A b \in BatchNames, v \in Versions : TakeSnapshot(b, v) => ImportInv'
           /\ End => ImportInv'
           /\ Fail => ImportInv'
<1>1. ASSUME NEW f \in Files, Release(f) PROVE ImportInv'
  BY <1>1 DEF Release, ImportInv
<1>2. ASSUME NEW b \in BatchNames, NEW v \in Versions, TakeSnapshot(b, v) PROVE ImportInv'
  BY <1>2 DEF TakeSnapshot, ImportInv
<1>3. ASSUME End PROVE ImportInv'
  BY <1>3 DEF End, ImportInv
<1>4. ASSUME Fail PROVE ImportInv'
  <2>1. GiveUp
    BY <1>4 DEF Fail, FailDrop, FailSnapshot, FailUp, FailDown
  <2>2. recorded' \subseteq repo
    <3>1. CASE FailSnapshot
      <4>1. PICK s \in todo.start : \E noted \in SUBSET s.content : recorded' = recorded \cup noted
        BY <3>1 DEF FailSnapshot
      <4>2. busy /\ s.content \subseteq Goal
        BY <4>1 DEF ImportInv, PlanInv, EmptyPlan
      <4>3. QED  BY <4>1, <4>2 DEF ImportInv, Goal, Wanted
    <3>2. CASE ~FailSnapshot
      BY <1>4, <3>2 DEF Fail, FailDrop, FailUp, FailDown, ImportInv
    <3>3. QED  BY <3>1, <3>2
  <2>3. QED  BY <2>1, <2>2 DEF GiveUp, ImportInv
<1>5. QED  BY <1>1, <1>2, <1>3, <1>4

LEMMA BeginPlans ==
    ASSUME SnapsInv, ImportInv, NEW b \in BatchNames, NEW target \in Targets,
           NEW clean \in BOOLEAN, Begin(b, target, clean)
    PROVE  ImportInv'
<1> DEFINE db == IF clean THEN {} ELSE recorded
           plan == Plan(repo, snaps, db, target, b)
           passed == PassedOver(repo, snaps, db, target, b)
<1>1. /\ UNCHANGED <<repo, snaps, recorded>> /\ busy' = TRUE /\ drop' = clean
      /\ job' = [batch |-> b, target |-> target, passed |-> passed] /\ todo' = plan /\ ~ScanError(repo)
  BY DEF Begin
<1>2. db \in SUBSET repo
  BY DEF ImportInv
<1>3. /\ Base' = db /\ Goal' = Wanted(repo, b, target)
      /\ job'.batch = b /\ job'.target = target /\ job'.passed = passed
  BY <1>1 DEF Base, Goal, Wanted, PlanFolders, BatchFolders
<1> HIDE DEF db, plan, passed
<1>4. PlanExact(plan, passed, db, b, target)
  <2>1. /\ plan = Plan(repo, snaps, db, target, b)
        /\ passed = PassedOver(repo, snaps, db, target, b)
    BY DEF plan, passed
  <2>2. QED  BY <1>1, <1>2, <2>1, PlanOfBatch
<1>5. PlanInv'
  BY <1>1, <1>3, <1>4 DEF PlanExact, PlanInv, PlanFolders, BatchFolders, Before
<1>6. QED  BY <1>1, <1>5 DEF ImportInv

\* The steps of a plan bring the database closer to the target.
LEMMA StepsReachTarget ==
    ASSUME SnapsInv, ImportInv
    PROVE  /\ RunDrop => ImportInv'
           /\ RunSnapshot => ImportInv'
           /\ \A f \in Files : RunUp(f) => ImportInv'
           /\ \A f \in Files : RunDown(f) => ImportInv'
<1>1. ASSUME RunDrop PROVE ImportInv'
  <2>1. /\ drop /\ ~drop' /\ recorded' = {}
        /\ UNCHANGED <<repo, snaps, busy, todo, job>>
    BY <1>1 DEF RunDrop
  <2>2. busy /\ Base = {} /\ Base' = {} /\ Goal' = Goal
    BY <2>1 DEF ImportInv, Base, Goal, Wanted, Included
  <2>3. PlanInv'
    BY <2>1, <2>2 DEF ImportInv, PlanInv
  <2>4. QED  BY <2>1, <2>2, <2>3 DEF ImportInv
<1>2. ASSUME RunSnapshot PROVE ImportInv'
  <2>1. PICK s \in todo.start : recorded' = recorded \cup s.content
    BY <1>2 DEF RunSnapshot
  <2>2. /\ ~drop /\ drop' = drop /\ UNCHANGED <<repo, snaps, busy, job>>
        /\ todo' = [todo EXCEPT !.start = {}]
    BY <1>2 DEF RunSnapshot
  <2>3. busy /\ PlanInv
    BY <2>1 DEF ImportInv, EmptyPlan
  <2>4. recorded = {} /\ Base = {} /\ recorded' = s.content /\ Base' = s.content /\ Goal' = Goal
    BY <2>1, <2>2, <2>3 DEF PlanInv, Base, Goal, Wanted, Included
  <2>5. todo'.start = {} /\ todo'.up = todo.up /\ todo'.down = todo.down
        /\ todo' = [start |-> todo'.start, up |-> todo'.up, down |-> todo'.down]
    BY <2>2, <2>3 DEF PlanInv
  <2>6. s.content \subseteq Goal /\ Goal \subseteq repo
    BY <2>1, <2>3 DEF PlanInv, Goal, Wanted
  <2>7. PlanInv'
    BY <2>1, <2>2, <2>3, <2>4, <2>5, <2>6 DEF PlanInv
  <2>8. QED  BY <2>2, <2>3, <2>4, <2>6, <2>7 DEF ImportInv
<1>3. ASSUME NEW f \in Files, RunUp(f) PROVE ImportInv'
  <2>1. /\ ~drop /\ drop' = drop /\ UNCHANGED <<repo, snaps, busy, job>>
        /\ recorded' = recorded \cup {f}
        /\ todo' = [todo EXCEPT !.up = @ \ {f}]
        /\ f \in todo.up /\ todo.start = {} /\ \A g \in todo.up : ~Before(g, f)
    BY <1>3 DEF RunUp, NextUp
  <2>2. busy /\ PlanInv
    BY <2>1 DEF ImportInv, EmptyPlan
  <2>3. Base = recorded /\ Base' = recorded \cup {f} /\ Goal' = Goal
    BY <2>1 DEF Base, Goal, Wanted, Included
  <2>4. todo'.start = {} /\ todo'.up = todo.up \ {f} /\ todo'.down = todo.down
        /\ todo' = [start |-> todo'.start, up |-> todo'.up, down |-> todo'.down]
    BY <2>1, <2>2 DEF PlanInv
  <2>5. f \in Goal /\ f \in repo
    BY <2>1, <2>2 DEF PlanInv, Goal, Wanted
  <2>6. PlanInv'
    BY <2>1, <2>2, <2>3, <2>4, <2>5 DEF PlanInv
  <2>7. QED  BY <2>1, <2>2, <2>5, <2>6 DEF ImportInv
<1>4. ASSUME NEW f \in Files, RunDown(f) PROVE ImportInv'
  <2>1. /\ ~drop /\ drop' = drop /\ UNCHANGED <<repo, snaps, busy, job>>
        /\ recorded' = recorded \ {f}
        /\ todo' = [todo EXCEPT !.down = @ \ {f}]
        /\ f \in todo.down /\ todo.start = {} /\ todo.up = {}
        /\ \A g \in todo.down : ~Before(f, g)
    BY <1>4 DEF RunDown, NextDown
  <2>2. busy /\ PlanInv
    BY <2>1 DEF ImportInv, EmptyPlan
  <2>3. Base = recorded /\ Base' = recorded \ {f} /\ Goal' = Goal
    BY <2>1 DEF Base, Goal, Wanted, Included
  <2>4. todo'.start = {} /\ todo'.up = {} /\ todo'.down = todo.down \ {f}
        /\ todo' = [start |-> todo'.start, up |-> todo'.up, down |-> todo'.down]
    BY <2>1, <2>2 DEF PlanInv
  <2>5. f \in recorded /\ f \notin Goal /\ f.folder \in PlanFolders(job.batch) \ ChangeOnly
    BY <2>1, <2>2, <2>3 DEF PlanInv
  <2>6. PlanInv'
    BY <2>1, <2>2, <2>3, <2>4, <2>5 DEF PlanInv
  <2>7. QED  BY <2>1, <2>2, <2>6 DEF ImportInv
<1>5. QED  BY <1>1, <1>2, <1>3, <1>4

LEMMA ImportInvariant == Spec => []ImportInv
<1>1. Init => ImportInv
  BY DEF Init, ImportInv
<1>2. SnapsInv /\ ImportInv /\ [Next]_vars => ImportInv'
  <2> SUFFICES ASSUME SnapsInv, ImportInv, [Next]_vars PROVE ImportInv'
    OBVIOUS
  <2>1. ASSUME UNCHANGED vars PROVE ImportInv'
    BY <2>1 DEF vars, ImportInv, PlanInv, Base, Goal, Wanted, Included
  <2>2. ASSUME Step PROVE ImportInv'
    BY <2>2, StepsReachTarget, IdleSteps DEF Step
  <2>3. QED  BY <2>1, <2>2, IdleSteps, BeginPlans DEF Next
<1>3. QED  BY <1>1, <1>2, SnapshotsInvariant, PTL DEF Spec

\* An import that runs to its end leaves recorded exactly the files of its batch
\* that its target includes, but for those its plan passed over and those of change
\* folders.
THEOREM ImportsReachTarget == Spec => TargetReached
<1> DEFINE Reached ==
      \A f \in repo : f.folder \in PlanFolders(job.batch) =>
          /\ Included(f, job.target) => f \in recorded \cup job.passed
          /\ f \in recorded => Included(f, job.target) \/ f.folder \in ChangeOnly
<1>1. ImportInv /\ End => Reached
  <2> SUFFICES ASSUME ImportInv, End PROVE Reached
    OBVIOUS
  <2>1. PlanInv /\ Base = recorded /\ todo = EmptyPlan
    BY DEF End, ImportInv, Base
  <2>2. /\ \A f \in Goal : f \in recorded \cup job.passed
        /\ \A f \in recorded : f.folder \in PlanFolders(job.batch) =>
             f \in Goal \/ f.folder \in ChangeOnly
    BY <2>1 DEF PlanInv, EmptyPlan
  <2>3. QED  BY <2>2 DEF Goal, Wanted
<1> HIDE DEF Reached
<1>2. ImportInv => [End => Reached]_vars
  BY <1>1
<1>3. QED  BY <1>2, ImportInvariant, PTL DEF TargetReached, Reached

\* A file older than one that the target includes is one of the goal.
LEMMA GoalIsPrefix ==
    ASSUME SnapsInv, PlanInv, NEW f \in Goal, NEW g \in repo,
           f.folder = g.folder, Before(g, f)
    PROVE  g \in Goal
<1>1. job.target \in Targets
  BY DEF PlanInv
<1>2. f \in Files /\ g \in Files
  BY DEF SnapsInv, Goal, Wanted
<1>3. QED  BY <1>1, <1>2, IncludedIsPrefix DEF Goal, Wanted

\* What a step may do to the gaps in the records.
GapCause(g) ==
    \/ Release(g)
    \/ busy /\ g \in job.passed
    \/ FailSnapshot /\ \E s \in todo.start : g \in s.content

\* A snapshot, as far as it is run, leaves out only what its plan passes over, or
\* what it contains if it fails.
LEMMA SnapshotGaps ==
    ASSUME SnapsInv, ImportInv, ~drop, NEW s \in todo.start, NEW noted \in SUBSET s.content,
           UNCHANGED repo, recorded' = recorded \cup noted, NEW g \in Gaps'
    PROVE  busy /\ (g \in job.passed \/ (noted # s.content /\ g \in s.content))
<1>1. busy /\ PlanInv /\ recorded = {}
  BY DEF ImportInv, PlanInv, EmptyPlan, Base
<1>2. PICK f \in noted : f.folder = g.folder /\ Before(g, f) /\ g \in repo \ noted
  BY <1>1 DEF Gaps, Before
<1>3. f \in Goal
  BY <1>1, <1>2 DEF PlanInv
<1>4. g \in Goal
  BY <1>1, <1>2, <1>3, GoalIsPrefix
<1>5. g \notin todo.up /\ g \notin Base
  BY <1>1, <1>2 DEF PlanInv, Base
<1>6. g \in job.passed \/ g \in s.content
  BY <1>1, <1>4, <1>5 DEF PlanInv
<1>7. QED  BY <1>1, <1>2, <1>6

\* Whatever batches, targets, releases and failures came before: a gap in the records
\* of a folder opens only where a file is released late, where an import goes on
\* beyond a file its plan passed over, or where a snapshot fails that contains it.
THEOREM RecordGapsHaveCauses == Spec => GapsHaveCauses
<1> DEFINE Caused == \A g \in Gaps' \ Gaps : GapCause(g)
<1>1. SnapsInv /\ ImportInv /\ [Next]_vars => [Caused]_vars
  <2> SUFFICES ASSUME SnapsInv, ImportInv, Next, NEW g \in Gaps', g \notin Gaps PROVE GapCause(g)
    OBVIOUS
  <2>1. ASSUME UNCHANGED <<repo, recorded>> PROVE FALSE
    BY <2>1 DEF Gaps, Before
  <2>2. ASSUME NEW f \in Files, Release(f) PROVE GapCause(g)
    <3>1. g = f
      BY <2>2 DEF Release, Gaps, Before
    <3>2. QED  BY <2>2, <3>1 DEF GapCause
  <2>3. ASSUME NEW b \in BatchNames, NEW v \in Versions, TakeSnapshot(b, v) PROVE FALSE
    BY <2>1, <2>3 DEF TakeSnapshot
  <2>4. ASSUME NEW b \in BatchNames, NEW target \in Targets, NEW clean \in BOOLEAN,
               Begin(b, target, clean)
        PROVE  FALSE
    BY <2>1, <2>4 DEF Begin
  <2>5. RunDrop => FALSE
    BY DEF RunDrop, Gaps
  <2>6. End => FALSE
    BY <2>1 DEF End
  <2>7. ASSUME RunSnapshot PROVE GapCause(g)
    <3>1. PICK s \in todo.start : recorded' = recorded \cup s.content
      BY <2>7 DEF RunSnapshot
    <3>2. ~drop /\ UNCHANGED repo
      BY <2>7 DEF RunSnapshot
    <3>3. QED  BY <3>1, <3>2, SnapshotGaps DEF GapCause
  <2>8. ASSUME FailSnapshot PROVE GapCause(g)
    <3>1. PICK s \in todo.start : \E noted \in SUBSET s.content : recorded' = recorded \cup noted
      BY <2>8 DEF FailSnapshot
    <3>2. ~drop /\ UNCHANGED repo
      BY <2>8 DEF FailSnapshot, GiveUp
    <3>3. QED  BY <2>8, <3>1, <3>2, SnapshotGaps DEF GapCause
  <2>9. ASSUME NEW f \in Files, RunUp(f) PROVE GapCause(g)
    <3>1. /\ ~drop /\ UNCHANGED repo /\ recorded' = recorded \cup {f}
          /\ f \in todo.up /\ todo.start = {} /\ \A h \in todo.up : ~Before(h, f)
      BY <2>9 DEF RunUp, NextUp
    <3>2. busy /\ PlanInv /\ Base = recorded
      BY <3>1 DEF ImportInv, EmptyPlan, Base
    <3>3. g \in repo /\ g \notin recorded /\ f.folder = g.folder /\ Before(g, f)
      BY <3>1 DEF Gaps, Before
    <3>4. g \in Goal
      BY <3>1, <3>2, <3>3, GoalIsPrefix DEF PlanInv
    <3>5. g \in job.passed
      BY <3>1, <3>2, <3>3, <3>4 DEF PlanInv
    <3>6. QED  BY <3>2, <3>5 DEF GapCause
  <2>10. ASSUME NEW f \in Files, RunDown(f) PROVE FALSE
    <3>1. /\ ~drop /\ UNCHANGED repo /\ recorded' = recorded \ {f}
          /\ f \in todo.down /\ \A h \in todo.down : ~Before(f, h)
      BY <2>10 DEF RunDown, NextDown
    <3>2. busy /\ PlanInv /\ Base = recorded
      BY <3>1 DEF ImportInv, EmptyPlan, Base
    <3>3. PICK h \in recorded : f.folder = h.folder /\ Before(f, h)
      BY <3>1 DEF Gaps, Before
    <3>4. f \in repo /\ f \notin Goal /\ f.folder \in PlanFolders(job.batch) \ ChangeOnly
      BY <3>1, <3>2 DEF PlanInv, ImportInv
    <3>5. h \notin Goal
      BY <3>2, <3>3, <3>4, GoalIsPrefix
    <3>6. h \in todo.down
      BY <3>2, <3>3, <3>4, <3>5 DEF PlanInv
    <3>7. QED  BY <3>1, <3>3, <3>6
  <2>11. CASE Step
    BY <2>5, <2>6, <2>7, <2>9, <2>10, <2>11 DEF Step
  <2>12. CASE Fail
    <3>1. FailDrop => FALSE
      BY <2>1 DEF FailDrop, GiveUp
    <3>2. \A f \in Files : (FailUp(f) => FALSE) /\ (FailDown(f) => FALSE)
      BY <2>1 DEF FailUp, FailDown, GiveUp
    <3>3. QED  BY <2>8, <2>12, <3>1, <3>2 DEF Fail
  <2>13. QED  BY <2>2, <2>3, <2>4, <2>11, <2>12 DEF Next
<1>2. QED
  BY <1>1, SnapshotsInvariant, ImportInvariant, PTL DEF Spec, GapsHaveCauses, GapCause

-----------------------------------------------------------------------------
(* What the scripts of an import meet.                                     *)

\* A step that runs a script is one of a plan whose drop is done.
LEMMA RunningIsPlanned ==
    ASSUME ImportInv, NEW f \in Files
    PROVE  /\ RunsUp(f) => PlanInv /\ Base = recorded /\ f \in NextUp(todo)
           /\ RunsDown(f) => PlanInv /\ Base = recorded /\ f \in NextDown(todo)
<1>1. ASSUME RunsUp(f) PROVE PlanInv /\ Base = recorded /\ f \in NextUp(todo)
  <2>1. ~drop /\ f \in NextUp(todo)
    BY <1>1 DEF RunsUp, RunUp, FailUp
  <2>2. busy
    BY <2>1 DEF ImportInv, EmptyPlan, NextUp
  <2>3. QED  BY <2>1, <2>2 DEF ImportInv, Base
<1>2. ASSUME RunsDown(f) PROVE PlanInv /\ Base = recorded /\ f \in NextDown(todo)
  <2>1. ~drop /\ f \in NextDown(todo)
    BY <1>2 DEF RunsDown, RunDown, FailDown
  <2>2. busy
    BY <2>1 DEF ImportInv, EmptyPlan, NextDown
  <2>3. QED  BY <2>1, <2>2 DEF ImportInv, Base
<1>3. QED  BY <1>1, <1>2

\* But for files that failed before, no up script runs on a database that has its
\* effect, and no down script on one that has not.
THEOREM ScriptsRunOnce == Spec => RunsOnce
<1>1. ImportInv /\ LedgerExact =>
        \A f \in Files \ broken :
          /\ RunsUp(f) => f \notin applied
          /\ RunsDown(f) => f \in applied
  <2> SUFFICES ASSUME ImportInv, LedgerExact, NEW f \in Files \ broken
               PROVE  /\ RunsUp(f) => f \notin applied
                      /\ RunsDown(f) => f \in applied
    OBVIOUS
  <2>1. f \in recorded <=> f \in applied
    BY DEF LedgerExact
  <2>2. RunsUp(f) => f \notin recorded
    BY RunningIsPlanned DEF PlanInv, NextUp
  <2>3. RunsDown(f) => f \in recorded
    BY RunningIsPlanned DEF PlanInv, NextDown
  <2>4. QED  BY <2>1, <2>2, <2>3
<1>2. QED  BY <1>1, ImportInvariant, LedgerIsExact, PTL DEF RunsOnce

\* Every up script finds the older files of its import recorded, but for those the
\* plan passed over, and every down script finds the newer ones taken back, but for
\* change files.
THEOREM ScriptsRunInOrder == Spec => RunsInOrder
<1>1. SnapsInv /\ ImportInv =>
        \A f \in Files :
          LET others == {g \in repo : g.folder \in PlanFolders(job.batch)}
          IN  /\ RunsUp(f) => \A g \in others :
                                Before(g, f) => g \in recorded \cup job.passed
              /\ RunsDown(f) => \A g \in others \cap recorded :
                                  Before(f, g) => g.folder \in ChangeOnly
  <2> SUFFICES ASSUME SnapsInv, ImportInv, NEW f \in Files,
                      NEW g \in repo, g.folder \in PlanFolders(job.batch)
               PROVE  /\ RunsUp(f) => (Before(g, f) => g \in recorded \cup job.passed)
                      /\ RunsDown(f) => (g \in recorded /\ Before(f, g) => g.folder \in ChangeOnly)
    OBVIOUS
  <2>0. g \in Files
    BY DEF SnapsInv
  <2>1. ASSUME RunsUp(f), Before(g, f) PROVE g \in recorded \cup job.passed
    <3>1. PlanInv /\ Base = recorded /\ f \in NextUp(todo)
      BY <2>1, RunningIsPlanned
    <3>2. f \in Goal /\ todo.start = {} /\ g \notin todo.up /\ job.target \in Targets
      BY <2>1, <3>1 DEF PlanInv, NextUp
    <3>3. Included(f, job.target)
      BY <3>2 DEF Goal, Wanted
    <3>4. g \in Goal
      BY <2>0, <2>1, <3>2, <3>3, IncludedIsPrefix DEF Goal, Wanted
    <3>5. QED  BY <3>1, <3>2, <3>4 DEF PlanInv
  <2>2. ASSUME RunsDown(f), g \in recorded, Before(f, g) PROVE g.folder \in ChangeOnly
    <3>1. PlanInv /\ Base = recorded /\ f \in NextDown(todo)
      BY <2>2, RunningIsPlanned
    <3>2. /\ f \in Base /\ f \notin Goal /\ f.folder \in PlanFolders(job.batch)
          /\ job.target \in Targets /\ g \notin todo.down
      BY <2>2, <3>1 DEF PlanInv, NextDown
    <3>3. f \in repo /\ ~Included(f, job.target)
      BY <3>1, <3>2 DEF ImportInv, Goal, Wanted
    <3>4. g \notin Goal
      BY <2>0, <2>2, <3>2, <3>3, IncludedIsPrefix DEF Goal, Wanted
    <3>5. QED  BY <2>2, <3>1, <3>2, <3>4 DEF PlanInv
  <2>3. QED  BY <2>1, <2>2
<1>2. QED  BY <1>1, SnapshotsInvariant, ImportInvariant, PTL DEF RunsInOrder

\* An import adds nothing but files of its batch that its target includes and
\* takes back nothing but such as it excludes, however far it gets.
THEOREM ImportsStayInScope == Spec => StaysInScope
<1> DEFINE Scoped ==
      ~drop =>
          /\ \A f \in (applied' \ applied) \cup (recorded' \ recorded) :
                f.folder \in PlanFolders(job.batch) /\ Included(f, job.target)
          /\ \A f \in (applied \ applied') \cup (recorded \ recorded') :
                f.folder \in PlanFolders(job.batch) \ ChangeOnly /\ ~Included(f, job.target)
<1>1. ImportInv /\ [Next]_vars => [Scoped]_vars
  <2> SUFFICES ASSUME ImportInv, Next, ~drop PROVE Scoped
    OBVIOUS
  <2>1. \A f \in Goal : f.folder \in PlanFolders(job.batch) /\ Included(f, job.target)
    BY DEF Goal, Wanted
  <2>2. ASSUME UNCHANGED <<applied, recorded>> PROVE Scoped
    BY <2>2
  <2>3. ASSUME NEW f \in Files, RunsUp(f) PROVE Scoped
    <3>1. f \in Goal
      BY <2>3, RunningIsPlanned DEF PlanInv, NextUp
    <3>2. /\ applied' = applied \/ applied' = applied \cup {f}
          /\ recorded' = recorded \/ recorded' = recorded \cup {f}
      BY <2>3 DEF RunsUp, RunUp, FailUp, GiveUp
    <3>3. QED  BY <2>1, <3>1, <3>2
  <2>4. ASSUME NEW f \in Files, RunsDown(f) PROVE Scoped
    <3>1. f \in Base /\ f \notin Goal /\ f.folder \in PlanFolders(job.batch) \ ChangeOnly
      BY <2>4, RunningIsPlanned DEF PlanInv, NextDown
    <3>2. f \in repo /\ ~Included(f, job.target)
      BY <3>1 DEF Base, ImportInv, Goal, Wanted
    <3>3. /\ applied' = applied \/ applied' = applied \ {f}
          /\ recorded' = recorded \/ recorded' = recorded \ {f}
      BY <2>4 DEF RunsDown, RunDown, FailDown, GiveUp
    <3>4. QED  BY <3>1, <3>2, <3>3
  <2>5. ASSUME RunSnapshot \/ FailSnapshot PROVE Scoped
    <3>1. PICK s \in todo.start :
            /\ applied \subseteq applied' /\ applied' \subseteq applied \cup s.content
            /\ recorded \subseteq recorded' /\ recorded' \subseteq recorded \cup s.content
      BY <2>5 DEF RunSnapshot, FailSnapshot, GiveUp
    <3>2. busy
      BY <3>1 DEF ImportInv, EmptyPlan
    <3>3. s.content \subseteq Goal
      BY <3>1, <3>2 DEF ImportInv, PlanInv
    <3>4. QED  BY <2>1, <3>1, <3>3
  <2> HIDE DEF Scoped
  <2>6. CASE Step
    <3>1. RunDrop => FALSE
      BY DEF RunDrop
    <3>2. End => Scoped
      BY <2>2 DEF End
    <3>3. \A f \in Files : (RunUp(f) => RunsUp(f)) /\ (RunDown(f) => RunsDown(f))
      BY DEF RunsUp, RunsDown
    <3>4. QED  BY <2>3, <2>4, <2>5, <2>6, <3>1, <3>2, <3>3 DEF Step
  <2>7. CASE Fail
    <3>1. FailDrop => FALSE
      BY DEF FailDrop
    <3>2. \A f \in Files : (FailUp(f) => RunsUp(f)) /\ (FailDown(f) => RunsDown(f))
      BY DEF RunsUp, RunsDown
    <3>3. QED  BY <2>3, <2>4, <2>5, <2>7, <3>1, <3>2 DEF Fail
  <2>8. ASSUME NEW f \in Files, Release(f) PROVE Scoped
    BY <2>2, <2>8 DEF Release
  <2>9. ASSUME NEW b \in BatchNames, NEW v \in Versions, TakeSnapshot(b, v) PROVE Scoped
    BY <2>2, <2>9 DEF TakeSnapshot
  <2>10. ASSUME NEW b \in BatchNames, NEW target \in Targets, NEW clean \in BOOLEAN,
                Begin(b, target, clean)
         PROVE  Scoped
    BY <2>2, <2>10 DEF Begin
  <2>11. QED  BY <2>6, <2>7, <2>8, <2>9, <2>10 DEF Next
<1>2. QED  BY <1>1, ImportInvariant, PTL DEF Spec, StaysInScope

\* The rest of TypeOK.
EffectTypes ==
    /\ applied \subseteq Files /\ broken \subseteq Files
    /\ busy \in BOOLEAN /\ drop \in BOOLEAN
    /\ job.batch \in BatchNames \cup {NoJob.batch} /\ job.target \in Targets
    /\ job.passed \subseteq Files

\* Every variable keeps its type: nothing but files of the directory is planned,
\* applied and recorded.
THEOREM MigrationTypeCorrect == Spec => []TypeOK
<1>0. /\ NoJob.batch \in BatchNames \cup {NoJob.batch}
      /\ NoJob.target \in Targets /\ NoJob.passed \subseteq Files
  BY DEF NoJob, Targets
<1>1. Init => EffectTypes
  BY <1>0 DEF Init, EffectTypes
<1>2. SnapsInv /\ ImportInv /\ EffectTypes /\ [Next]_vars => EffectTypes'
  <2> SUFFICES ASSUME SnapsInv, ImportInv, EffectTypes, [Next]_vars PROVE EffectTypes'
    OBVIOUS
  <2> USE DEF EffectTypes
  <2>1. \A s \in todo.start : s.content \subseteq Files
    <3>1. todo.start \subseteq snaps
      BY DEF ImportInv, PlanInv, EmptyPlan
    <3>2. QED  BY <3>1 DEF SnapsInv, Covered
  <2>2. ASSUME NEW f \in Files, Release(f) PROVE EffectTypes'
    BY <2>2 DEF Release
  <2>3. ASSUME NEW b \in BatchNames, NEW v \in Versions, TakeSnapshot(b, v) PROVE EffectTypes'
    BY <2>3 DEF TakeSnapshot
  <2>4. ASSUME NEW b \in BatchNames, NEW target \in Targets, NEW clean \in BOOLEAN,
               Begin(b, target, clean)
        PROVE  EffectTypes'
    BY <2>4, PassedAreFiles DEF Begin
  <2>5. CASE Step
    BY <1>0, <2>1, <2>5 DEF Step, RunDrop, RunSnapshot, RunUp, RunDown, End
  <2>6. CASE Fail
    BY <1>0, <2>1, <2>6 DEF Fail, FailDrop, FailSnapshot, FailUp, FailDown, GiveUp
  <2>7. CASE UNCHANGED vars
    BY <2>7 DEF vars
  <2>8. QED  BY <2>2, <2>3, <2>4, <2>5, <2>6, <2>7 DEF Next
<1>3. SnapsInv /\ ImportInv /\ EffectTypes => TypeOK
  <2> SUFFICES ASSUME SnapsInv, ImportInv, EffectTypes PROVE TypeOK
    OBVIOUS
  <2>1. repo \subseteq Files /\ recorded \subseteq Files
        /\ \A s \in snaps : s.batch \in BatchNames /\ s.version \in Versions /\ s.content \subseteq Files
    BY DEF SnapsInv, ImportInv, Covered
  <2>2. CASE busy
    <3>1. /\ todo.start \subseteq snaps /\ todo.up \subseteq Files /\ todo.down \subseteq Files
          /\ todo = [start |-> todo.start, up |-> todo.up, down |-> todo.down]
      BY <2>1, <2>2 DEF ImportInv, PlanInv, Goal, Wanted, Base
    <3>2. DOMAIN todo = {"start", "up", "down"}
      BY <3>1
    <3>3. QED  BY <2>1, <3>1, <3>2 DEF TypeOK, EffectTypes
  <2>3. CASE ~busy
    BY <2>1, <2>3 DEF TypeOK, EffectTypes, ImportInv, EmptyPlan
  <2>4. QED  BY <2>2, <2>3
<1>4. QED  BY <1>1, <1>2, <1>3, SnapshotsInvariant, ImportInvariant, PTL DEF Spec

=============================================================================
