----------------------------- MODULE Migration ------------------------------
(***************************************************************************)
(* The life of a database under the supervisor's imports: update in        *)
(* supervisor/neo4j.go asks the database what it has recorded, scans the   *)
(* import directory, plans, and hands the plan to cypher-shell and to the  *)
(* commands of .run files, step by step.  Any step may fail, or be killed. *)
(*                                                                         *)
(* Every file is followed by the statement that records it, or that marks  *)
(* the record deleted (CreateBuilder).  They are not one transaction: a    *)
(* failure may leave the effect of a file without its record.              *)
(*                                                                         *)
(* Between imports developers release files and snapshots, in any order: a *)
(* file may come late, after newer files of its folder were run or after   *)
(* a snapshot of its version was taken.  Imports are exclusive (see        *)
(* Neo4jWrapper), and a plan that cannot be built, for an unknown command  *)
(* or for labels that are missing, executes nothing: it is a stuttering    *)
(* step.                                                                   *)
(***************************************************************************)
EXTENDS Planner

VARIABLES
    repo,       \* the files in the import directory
    snaps,      \* the snapshots in the import directory
    applied,    \* the files whose effect is in the database
    recorded,   \* the files with a node in the database that is not deleted
    broken,     \* the files that failed since the database was last dropped
    busy,       \* an import is running
    drop,       \* its drop file is still to be run
    todo,       \* the rest of its plan
    job         \* its batch and target, and the files it passes over

vars == <<repo, snaps, applied, recorded, broken, busy, drop, todo, job>>

Snapshots == [batch : BatchNames, version : Versions, content : SUBSET Files]

NoJob == [batch |-> "none", target |-> NoTarget, passed |-> {}]

\* The types: what is applied and what is recorded are files of the known
\* folders and versions.
TypeOK ==
    /\ repo \subseteq Files
    /\ \A s \in snaps : s.batch \in BatchNames /\ s.version \in Versions /\ s.content \subseteq Files
    /\ applied \subseteq Files
    /\ recorded \subseteq Files
    /\ broken \subseteq Files
    /\ busy \in BOOLEAN
    /\ drop \in BOOLEAN
    /\ DOMAIN todo = {"start", "up", "down"}
    /\ todo.start \subseteq snaps /\ todo.up \subseteq Files /\ todo.down \subseteq Files
    /\ job.batch \in BatchNames \cup {NoJob.batch} /\ job.target \in Targets
    /\ job.passed \subseteq Files

Init ==
    /\ repo = {}
    /\ snaps = {}
    /\ applied = {}
    /\ recorded = {}
    /\ broken = {}
    /\ busy = FALSE
    /\ drop = FALSE
    /\ todo = EmptyPlan
    /\ job = NoJob

-----------------------------------------------------------------------------
(* Releases.                                                               *)
Release(f) ==
    /\ ~busy
    /\ repo' = repo \cup {f}
    /\ UNCHANGED <<snaps, applied, recorded, broken, busy, drop, todo, job>>

\* A snapshot contains what all files of its batch up to its version do.
TakeSnapshot(b, v) ==
    /\ ~busy
    /\ v \in LocalVersions(repo)
    /\ \A s \in snaps : s.batch = b => s.version # v
    /\ snaps' = snaps \cup
                  {[batch |-> b, version |-> v, content |-> Covered(repo, b, v)]}
    /\ UNCHANGED <<repo, applied, recorded, broken, busy, drop, todo, job>>

-----------------------------------------------------------------------------
(* An import begins: clean drops the database first and plans for an empty *)
(* one.  An import with nothing to do is over at once.                     *)
Begin(b, target, clean) ==
    /\ ~busy
    /\ ~ScanError(repo)
    /\ ~TargetMissing(repo, target)
    /\ busy' = TRUE
    /\ drop' = clean
    /\ LET db == IF clean THEN {} ELSE recorded
       IN  /\ todo' = Plan(repo, snaps, db, target, b)
           /\ job' = [batch |-> b, target |-> target,
                       passed |-> PassedOver(repo, snaps, db, target, b)]
    /\ UNCHANGED <<repo, snaps, applied, recorded, broken>>

End ==
    /\ busy
    /\ ~drop
    /\ todo = EmptyPlan
    /\ busy' = FALSE
    /\ job' = NoJob
    /\ UNCHANGED <<repo, snaps, applied, recorded, broken, drop, todo>>

-----------------------------------------------------------------------------
(* The steps of an import, in the order of the plan.                       *)
RunDrop ==
    /\ drop
    /\ drop' = FALSE
    /\ applied' = {}
    /\ recorded' = {}
    /\ broken' = {}
    /\ UNCHANGED <<repo, snaps, busy, todo, job>>

\* A snapshot brings its records with it.
RunSnapshot ==
    /\ ~drop
    /\ \E s \in todo.start :
          /\ applied' = applied \cup s.content
          /\ recorded' = recorded \cup s.content
    /\ todo' = [todo EXCEPT !.start = {}]
    /\ UNCHANGED <<repo, snaps, broken, busy, drop, job>>

\* Mutant of RunUp: the file is recorded under another folder.
RunUpRecordsElsewhere(f) ==
    /\ ~drop
    /\ f \in NextUp(todo)
    /\ applied' = applied \cup {f}
    /\ recorded' = recorded \cup {[f EXCEPT !.folder = "snapshots"]}
    /\ todo' = [todo EXCEPT !.up = @ \ {f}]
    /\ UNCHANGED <<repo, snaps, broken, busy, drop, job>>

RunUp(f) ==
    /\ ~drop
    /\ f \in NextUp(todo)
    /\ applied' = applied \cup {f}
    /\ recorded' = recorded \cup {f}
    /\ todo' = [todo EXCEPT !.up = @ \ {f}]
    /\ UNCHANGED <<repo, snaps, broken, busy, drop, job>>

\* Mutant of RunDown: the record is left as it is.
RunDownKeepsRecord(f) ==
    /\ ~drop
    /\ f \in NextDown(todo)
    /\ applied' = applied \ {f}
    /\ todo' = [todo EXCEPT !.down = @ \ {f}]
    /\ UNCHANGED <<repo, snaps, recorded, broken, busy, drop, job>>

RunDown(f) ==
    /\ ~drop
    /\ f \in NextDown(todo)
    /\ applied' = applied \ {f}
    /\ recorded' = recorded \ {f}
    /\ todo' = [todo EXCEPT !.down = @ \ {f}]
    /\ UNCHANGED <<repo, snaps, broken, busy, drop, job>>

-----------------------------------------------------------------------------
(* A step fails: the loop over the steps breaks and the import is over.    *)
GiveUp ==
    /\ busy' = FALSE
    /\ drop' = FALSE
    /\ todo' = EmptyPlan
    /\ job' = NoJob
    /\ UNCHANGED <<repo, snaps>>

\* Mutant of FailUp: the loop goes on after a step that failed.
FailUpGoesOn(f) ==
    /\ ~drop
    /\ f \in NextUp(todo)
    /\ todo' = [todo EXCEPT !.up = @ \ {f}]
    /\ broken' = broken \cup {f}
    /\ UNCHANGED <<repo, snaps, applied, recorded, busy, drop, job>>

\* Before the file has an effect, or after it and before the record.
FailUp(f) ==
    /\ ~drop
    /\ f \in NextUp(todo)
    /\ \/ applied' = applied
       \/ applied' = applied \cup {f}
    /\ broken' = broken \cup {f}
    /\ UNCHANGED recorded
    /\ GiveUp

FailDown(f) ==
    /\ ~drop
    /\ f \in NextDown(todo)
    /\ \/ applied' = applied
       \/ applied' = applied \ {f}
    /\ broken' = broken \cup {f}
    /\ UNCHANGED recorded
    /\ GiveUp

\* A snapshot is a script of many statements, or of many commands: it leaves the
\* effects and the records of those that were run.
FailSnapshot ==
    /\ ~drop
    /\ \E s \in todo.start :
          /\ \E done, noted \in SUBSET s.content :
                /\ applied' = applied \cup done
                /\ recorded' = recorded \cup noted
          /\ broken' = broken \cup s.content
    /\ GiveUp

FailDrop ==
    /\ drop
    /\ UNCHANGED <<applied, recorded, broken>>
    /\ GiveUp

-----------------------------------------------------------------------------
Step == \/ RunDrop \/ RunSnapshot \/ End
        \/ \E f \in Files : RunUp(f) \/ RunDown(f)

Fail == \/ FailDrop \/ FailSnapshot
        \/ \E f \in Files : FailUp(f) \/ FailDown(f)

Next == \/ \E f \in Files : Release(f)
        \/ \E b \in BatchNames, v \in Versions : TakeSnapshot(b, v)
        \/ \E b \in BatchNames, target \in Targets, clean \in BOOLEAN : Begin(b, target, clean)
        \/ Step
        \/ Fail

Spec == Init /\ [][Next]_vars

-----------------------------------------------------------------------------
(* Correctness.  The script of f is run, whether it succeeds or not:       *)
RunsUp(f)   == RunUp(f) \/ FailUp(f)
RunsDown(f) == RunDown(f) \/ FailDown(f)

\* The records can be trusted: a file is recorded if and only if its effect is
\* in the database, but for the files whose import failed half way.
LedgerExact == \A f \in Files \ broken : f \in recorded <=> f \in applied

\* The files that an upgrade skips, if their version is below one recorded: those
\* that are not recorded where a newer file of the folder is.
Gaps == {g \in repo \ recorded :
            \E f \in recorded : f.folder = g.folder /\ Before(g, f)}

\* A gap in the records has a cause.  Whatever batches, targets and failures came
\* before, a step opens one only where a file is released late, where an import
\* goes on beyond a file its plan passed over, or where a snapshot fails that
\* contains the file.  A script that fails never leaves one, and none opens by
\* taking files back.
GapsHaveCauses ==
    [][\A g \in Gaps' \ Gaps :
          \/ Release(g)
          \/ busy /\ g \in job.passed
          \/ FailSnapshot /\ \E s \in todo.start : g \in s.content]_vars

\* f is to be in the database when it is brought to the target.
Included(f, target) ==
    \/ target = NoTarget
    \/ f.version < target.version
    \/ f.version = target.version /\ (target.revision = 0 \/ f.ts <= target.revision)

\* An import that runs to its end brings the database to its target: of the
\* folders of its batch just the files the target includes are recorded, but for
\* those its plan passed over.  Files of change folders are never taken back.
TargetReached ==
    [][End =>
          \A f \in repo : f.folder \in PlanFolders(job.batch) =>
              /\ Included(f, job.target) => f \in recorded \cup job.passed
              /\ f \in recorded => Included(f, job.target) \/ f.folder \in ChangeOnly]_vars

\* No script meets its own effect: an up script runs on a database without it and
\* a down script on one with it, so that scripts need not be idempotent.  Files
\* that failed before are the exception.
RunsOnce ==
    [][\A f \in Files \ broken :
          /\ RunsUp(f) => f \notin applied
          /\ RunsDown(f) => f \in applied]_vars

\* Scripts meet what they were written for.  When an up script runs, all older
\* files of the folders of the batch are recorded, also those of other folders, but
\* for those the plan passed over; when a down script runs, no newer file that can
\* be taken back is.
RunsInOrder ==
    [][\A f \in Files :
          LET others == {g \in repo : g.folder \in PlanFolders(job.batch)}
          IN  /\ RunsUp(f) => \A g \in others :
                                Before(g, f) => g \in recorded \cup job.passed
              /\ RunsDown(f) => \A g \in others \cap recorded :
                                  Before(f, g) => g.folder \in ChangeOnly]_vars

\* What an import changes between any two steps, also one that fails later, is for
\* its target: it adds just files of its batch that the target includes and takes
\* back just such as the target excludes, and never a change file.
StaysInScope ==
    [][~drop =>
          /\ \A f \in (applied' \ applied) \cup (recorded' \ recorded) :
                f.folder \in PlanFolders(job.batch) /\ Included(f, job.target)
          /\ \A f \in (applied \ applied') \cup (recorded \ recorded') :
                f.folder \in PlanFolders(job.batch) \ ChangeOnly /\ ~Included(f, job.target)]_vars

\* README.md, "Snapshots, which could speed up running all migrations on clear
\* DB": a plan that starts with one brings the database where all its scripts
\* would, but for the files that were released after the snapshot was taken and
\* belong to its version or an older one.
SnapshotEquivalent ==
    \A b \in BatchNames, target \in Targets :
        (~ScanError(repo) /\ StartSnapshot(repo, snaps, {}, target, b) # {}) =>
            LET fast == Plan(repo, snaps, {}, target, b)
                slow == Plan(repo, {}, {}, target, b)
            IN  /\ fast.down = {} /\ slow.down = {}
                /\ fast.up \cup UNION {s.content : s \in fast.start}
                     = slow.up \ PassedOver(repo, snaps, {}, target, b)

=============================================================================
