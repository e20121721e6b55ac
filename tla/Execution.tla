----------------------------- MODULE Execution ------------------------------
(***************************************************************************)
(* An import in detail: the version query folder by folder (version.go),   *)
(* the plan, and the statements and commands that CreateBuilder makes of   *)
(* each file (execution.go), run one by one by update (supervisor/         *)
(* neo4j.go).  It implements Migration, where reading the database is one  *)
(* step and a file and its record are another.                             *)
(*                                                                         *)
(* The records of executed files are nodes of the database.  A folder's    *)
(* nodes carry its labels; a statement finds a node by some of its labels. *)
(* Parameters belong to a cypher-shell session: adjacent cyphers share     *)
(* one, a command in between ends it.                                      *)
(***************************************************************************)
EXTENDS Planner, Sequences

CONSTANTS
    Labels,           \* the node labels of each folder
    Content(_, _),    \* of a file (and direction) or snapshot: Cypher or lines
    Cypher,           \* the content of a file that is not a .run file
    AllowedCommands,  \* the commands a .run file may use
    HasDropFile,      \* a drop cypher file is configured
    Unset             \* a parameter that has no value

\* No folder has all the labels of another.  (The configuration does not check
\* it; it holds for default labels of names that differ in more than case.)
ASSUME LabelsAssumption ==
    \A a, b \in Folders : Labels[a] \subseteq Labels[b] => a = b
ASSUME UnsetAssumption == Unset \notin Versions \cup Timestamps

VARIABLES
    repo, snaps,    \* the import directory, as in Migration
    applied,        \* the files whose effect is in the database
    nodes,          \* the records in the database
    broken,         \* the files that failed since the database was dropped
    phase,          \* what update is doing
    import,         \* its arguments
    asked, db,      \* the folders queried so far, and the files found
    drop, todo,     \* what is left of the plan, as in Migration
    cur, stage,     \* the item being run, and its next statement
    ran,            \* how many commands of it were run
    params,         \* the parameters of the cypher-shell session
    base,           \* the files that were applied when the item began
    job             \* batch, target and omissions of the plan, as in Migration

directory == <<repo, snaps>>
store     == <<applied, nodes, broken>>
query     == <<import, asked, db>>
plan      == <<drop, todo>>
item      == <<cur, stage, ran, base>>
vars      == <<directory, store, phase, query, plan, item, params, job>>

NoJob    == [batch |-> "none", target |-> NoTarget, passed |-> {}]
NoRequest == [batch |-> "none", target |-> NoTarget, clean |-> FALSE]
NoItem   == [dir |-> "none"]
NoParams == [version |-> Unset, ts |-> Unset]

Nodes == [labels : {Labels[folder] : folder \in Folders},
          version : Versions, ts : Timestamps, deleted : BOOLEAN]

Init ==
    /\ repo = {} /\ snaps = {}
    /\ applied = {} /\ nodes = {} /\ broken = {}
    /\ phase = "idle"
    /\ import = NoRequest
    /\ asked = {} /\ db = {}
    /\ drop = FALSE /\ todo = EmptyPlan
    /\ cur = NoItem /\ stage = "none" /\ ran = 0 /\ base = {}
    /\ params = NoParams
    /\ job = NoJob

-----------------------------------------------------------------------------
(* Records.                                                                *)
Matches(n, f) ==
    Labels[f.folder] \subseteq n.labels /\ n.version = f.version /\ n.ts = f.ts

NodeOf(f) == [labels |-> Labels[f.folder], version |-> f.version, ts |-> f.ts, deleted |-> FALSE]

\* Mutant of RecordAll: MERGE without SET deleted_at = null.
RecordAllOnce(N, F) == N \cup {NodeOf(f) : f \in {g \in F : \A n \in N : ~Matches(n, g)}}

\* MERGE ... SET deleted_at = null.
RecordAll(N, F) ==
    {IF \E f \in F : Matches(n, f) THEN [n EXCEPT !.deleted = FALSE] ELSE n : n \in N}
    \cup {NodeOf(f) : f \in {g \in F : \A n \in N : ~Matches(n, g)}}

\* MATCH ... SET deleted_at = timestamp().
DeleteAll(N, F) ==
    {IF \E f \in F : Matches(n, f) THEN [n EXCEPT !.deleted = TRUE] ELSE n : n \in N}

\* MATCH ... WHERE deleted_at IS NULL, for the labels of each folder.
RecordedIn(N) == {f \in Files : \E n \in N : Matches(n, f) /\ ~n.deleted}

-----------------------------------------------------------------------------
(* Scripts.  addCommand reads a .run file line by line, up to "exit".      *)
IsRun(x, dir) == Content(x, dir) # Cypher

Lines(x, dir) == SelectSeq(Content(x, dir), LAMBDA l : l # "comment")

Commands(x, dir) ==
    LET lines == Lines(x, dir)
        stop  == {k \in DOMAIN lines : lines[k] = "exit"}
    IN  IF stop = {} THEN lines
        ELSE SubSeq(lines, 1, (CHOOSE k \in stop : \A j \in stop : k <= j) - 1)

BuildError(x, dir) ==
    /\ IsRun(x, dir)
    /\ \/ \E k \in DOMAIN Commands(x, dir) : Commands(x, dir)[k] \notin AllowedCommands
       \/ Lines(x, dir) = <<>>

\* The steps between the header and the parameters: the :source statement, the
\* commands, or the one "exit" of a file without commands, which does nothing.
BodyLength(x, dir) ==
    IF IsRun(x, dir) /\ Commands(x, dir) # <<>> THEN Len(Commands(x, dir)) ELSE 1

-----------------------------------------------------------------------------
(* Releases, as in Migration; also while update has not scanned yet.       *)
Unscanned == phase \in {"idle", "query"}

Release(f) ==
    /\ Unscanned
    /\ repo' = repo \cup {f}
    /\ UNCHANGED <<snaps, store, phase, query, plan, item, params, job>>

TakeSnapshot(b, v) ==
    /\ Unscanned
    /\ v \in LocalVersions(repo)
    /\ \A s \in snaps : s.batch = b => s.version # v
    /\ snaps' = snaps \cup
                  {[batch |-> b, version |-> v, content |-> Covered(repo, b, v)]}
    /\ UNCHANGED <<repo, store, phase, query, plan, item, params, job>>

-----------------------------------------------------------------------------
(* The version query.                                                      *)
Request(b, target, clean) ==
    /\ phase = "idle"
    /\ phase' = "query"
    /\ import' = [batch |-> b, target |-> target, clean |-> clean]
    /\ asked' = {}
    /\ db' = {}
    /\ UNCHANGED <<directory, store, plan, item, params, job>>

\* The schema first, then the other folders in any order.
ToAsk == IF Schema \notin asked THEN {Schema} ELSE Extra \ asked

\* What an attempt appends to the result for the versions it gets to.  Readers
\* of the result take the first entry of a version.
Found(folder, versions) ==
    {f \in RecordedIn(nodes) :
        /\ f.folder = folder
        /\ f.version \in versions
        /\ \A g \in db : g.folder = folder => g.version # f.version}

\* The driver runs the transaction function again after an attempt that failed.
QueryRetried(folder) ==
    /\ phase = "query" /\ ~import.clean
    /\ folder \in ToAsk
    /\ \E versions \in SUBSET Versions : db' = db \cup Found(folder, versions)
    /\ UNCHANGED <<directory, store, phase, import, asked, plan, item, params, job>>

\* Mutant of QueryFolder: an error of the result is not returned.
QueryFolderPartly(folder) ==
    /\ phase = "query" /\ ~import.clean
    /\ folder \in ToAsk
    /\ \E versions \in SUBSET Versions : db' = db \cup Found(folder, versions)
    /\ asked' = asked \cup {folder}
    /\ UNCHANGED <<directory, store, phase, import, plan, item, params, job>>

QueryFolder(folder) ==
    /\ phase = "query" /\ ~import.clean
    /\ folder \in ToAsk
    /\ db' = db \cup Found(folder, Versions)
    /\ asked' = asked \cup {folder}
    /\ UNCHANGED <<directory, store, phase, import, plan, item, params, job>>

\* The result of the query is a local variable, used once.
QueryDone == import' = NoRequest /\ asked' = {} /\ db' = {}

\* The query, the scan or the plan fails, or the run is dry.
Abandon ==
    /\ phase = "query"
    /\ phase' = "idle"
    /\ QueryDone
    /\ UNCHANGED <<directory, store, plan, item, params, job>>

-----------------------------------------------------------------------------
(* The plan and its steps.                                                 *)
Model   == IF import.clean THEN {} ELSE db
Planned == Plan(repo, snaps, Model, import.target, import.batch)

Items(p) == {[dir |-> "start", what |-> s] : s \in p.start}
            \cup {[dir |-> "up", what |-> f] : f \in p.up}
            \cup {[dir |-> "down", what |-> f] : f \in p.down}

Build ==
    /\ phase = "query"
    /\ IF import.clean THEN HasDropFile ELSE asked = Folders
    /\ ~ScanError(repo)
    /\ ~TargetMissing(repo, import.target)
    /\ \A x \in Items(Planned) : ~BuildError(x.what, x.dir)
    /\ todo' = Planned
    /\ drop' = import.clean
    /\ phase' = "run"
    /\ job' = [batch |-> import.batch, target |-> import.target,
                passed |-> PassedOver(repo, snaps, Model, import.target, import.batch)]
    /\ QueryDone
    /\ UNCHANGED <<directory, store, item, params>>

End ==
    /\ phase = "run"
    /\ ~drop
    /\ todo = EmptyPlan
    /\ phase' = "idle"
    /\ params' = NoParams
    /\ job' = NoJob
    /\ UNCHANGED <<directory, store, query, plan, item>>

RunDrop ==
    /\ drop
    /\ drop' = FALSE
    /\ applied' = {}
    /\ nodes' = {}
    /\ broken' = {}
    /\ UNCHANGED <<directory, phase, query, todo, item, params, job>>

-----------------------------------------------------------------------------
(* The statements of one item, in the order CreateBuilder writes them.     *)
Begin ==
    /\ phase = "run" /\ ~drop /\ stage = "none"
    /\ \/ \E s \in todo.start : cur' = [dir |-> "start", what |-> s]
       \/ \E f \in NextUp(todo) : cur' = [dir |-> "up", what |-> f]
       \/ \E f \in NextDown(todo) : cur' = [dir |-> "down", what |-> f]
    /\ stage' = "body"
    /\ ran' = 0
    /\ base' = applied
    /\ UNCHANGED <<directory, store, phase, query, plan, params, job>>

\* The files the item is about, and what it makes of those applied before.
Subject == IF cur.dir = "start" THEN cur.what.content ELSE {cur.what}
Effect  == IF cur.dir = "down" THEN applied \ Subject ELSE applied \cup Subject

\* A command is a step of its own, so it ends the session.
Session == params' = IF IsRun(cur.what, cur.dir) THEN NoParams ELSE params

InBody == stage = "body" /\ ran + 1 <= BodyLength(cur.what, cur.dir)
LastOfBody == ran + 1 = BodyLength(cur.what, cur.dir)

RunCommand ==
    /\ InBody /\ ~LastOfBody
    /\ ran' = ran + 1
    /\ Session
    /\ UNCHANGED <<directory, store, phase, query, plan, cur, stage, base, job>>

Finished == cur' = NoItem /\ stage' = "none" /\ ran' = 0 /\ base' = {}

\* A snapshot brings its records with it; nothing is recorded for it.
RunSnapshot ==
    /\ InBody /\ LastOfBody
    /\ cur.dir = "start"
    /\ applied' = Effect
    /\ nodes' = RecordAll(nodes, Subject)
    /\ todo' = [todo EXCEPT !.start = {}]
    /\ Session
    /\ Finished
    /\ UNCHANGED <<directory, broken, phase, query, drop, job>>

\* Mutant of RunFile: the version is not set again for the files of one version.
RunFileSameVersion ==
    /\ InBody /\ LastOfBody
    /\ cur.dir # "start"
    /\ applied' = Effect
    /\ stage' = "file"
    /\ Session
    /\ UNCHANGED <<directory, nodes, broken, phase, query, plan, cur, ran, base, job>>

RunFile ==
    /\ InBody /\ LastOfBody
    /\ cur.dir # "start"
    /\ applied' = Effect
    /\ stage' = "version"
    /\ Session
    /\ UNCHANGED <<directory, nodes, broken, phase, query, plan, cur, ran, base, job>>

SetVersion ==
    /\ stage = "version"
    /\ params' = [params EXCEPT !.version = cur.what.version]
    /\ stage' = "file"
    /\ UNCHANGED <<directory, store, phase, query, plan, cur, ran, base, job>>

SetFile ==
    /\ stage = "file"
    /\ params' = [params EXCEPT !.ts = cur.what.ts]
    /\ stage' = "record"
    /\ UNCHANGED <<directory, store, phase, query, plan, cur, ran, base, job>>

\* The statement knows the labels; version and file are parameters.
Key == [folder |-> cur.what.folder, version |-> params.version, ts |-> params.ts]

RecordUp ==
    /\ stage = "record" /\ cur.dir = "up"
    /\ nodes' = RecordAll(nodes, {Key})
    /\ todo' = [todo EXCEPT !.up = @ \ {cur.what}]
    /\ Finished
    /\ UNCHANGED <<directory, applied, broken, phase, query, drop, params, job>>

RecordDown ==
    /\ stage = "record" /\ cur.dir = "down"
    /\ nodes' = DeleteAll(nodes, {Key})
    /\ todo' = [todo EXCEPT !.down = @ \ {cur.what}]
    /\ Finished
    /\ UNCHANGED <<directory, applied, broken, phase, query, drop, params, job>>

-----------------------------------------------------------------------------
(* A statement or command fails, or is killed: the loop over the steps     *)
(* breaks.  A script that fails may have had its effect.                   *)
GiveUp ==
    /\ phase' = "idle"
    /\ drop' = FALSE
    /\ todo' = EmptyPlan
    /\ params' = NoParams
    /\ job' = NoJob
    /\ Finished
    /\ UNCHANGED <<directory, query>>

FailFile ==
    /\ stage # "none" /\ cur.dir # "start"
    /\ \/ applied' = applied
       \/ stage = "body" /\ applied' = Effect
    /\ broken' = broken \cup Subject
    /\ UNCHANGED nodes
    /\ GiveUp

\* A snapshot that stops half way leaves what was run of it, the records included.
FailSnapshot ==
    /\ stage # "none" /\ cur.dir = "start"
    /\ \E done, noted \in SUBSET Subject :
          /\ applied' = applied \cup done
          /\ nodes' = RecordAll(nodes, noted)
    /\ broken' = broken \cup Subject
    /\ GiveUp

FailDrop ==
    /\ drop
    /\ UNCHANGED store
    /\ GiveUp

-----------------------------------------------------------------------------
Query == \E folder \in Folders : QueryRetried(folder) \/ QueryFolder(folder)

Statement == \/ RunDrop \/ Begin \/ RunCommand \/ RunSnapshot \/ RunFile
             \/ SetVersion \/ SetFile \/ RecordUp \/ RecordDown

Next == \/ \E f \in Files : Release(f)
        \/ \E b \in BatchNames, v \in Versions : TakeSnapshot(b, v)
        \/ \E b \in BatchNames, target \in Targets, clean \in BOOLEAN : Request(b, target, clean)
        \/ Query \/ Abandon
        \/ Build \/ End
        \/ Statement
        \/ FailFile \/ FailSnapshot \/ FailDrop

Spec == Init /\ [][Next]_vars

-----------------------------------------------------------------------------
(* Correctness.                                                            *)

\* The types.  Every node carries the labels of one folder.
TypeOK ==
    /\ repo \subseteq Files /\ applied \subseteq Files /\ broken \subseteq Files
    /\ \A s \in snaps : s.content \subseteq Files
    /\ nodes \subseteq Nodes
    /\ phase \in {"idle", "query", "run"}
    /\ asked \subseteq Folders /\ db \subseteq Files
    /\ drop \in BOOLEAN
    /\ stage \in {"none", "body", "version", "file", "record"}
    /\ ran \in Nat
    /\ stage # "none" => Subject \subseteq Files
    /\ params \in [version : Versions \cup {Unset}, ts : Timestamps \cup {Unset}]

\* The plan is made from what the database records: a query that is retried, and
\* asks folder by folder, finds just the files that are recorded.
ModelIsExact ==
    (phase = "query" /\ ~import.clean /\ asked = Folders) => db = RecordedIn(nodes)

\* What Migration sees: an item has its effect when it is recorded or fails.
AppliedBefore == IF stage = "none" THEN applied ELSE base

M == INSTANCE Migration WITH
        applied  <- AppliedBefore,
        recorded <- RecordedIn(nodes),
        busy     <- phase = "run"

\* Every execution of the statements is an execution of Migration.
Implements == M!Spec

=============================================================================
