-------------------------- MODULE ExecutionProofs ---------------------------
(***************************************************************************)
(* The statements of an import implement Migration, for any folders with   *)
(* labels of their own and any content of the files.                       *)
(***************************************************************************)
EXTENDS Execution, TLAPS

-----------------------------------------------------------------------------
(* Records.                                                                *)

\* A node is the record of one file.
LEMMA OneRecord ==
    ASSUME NEW n \in Nodes, NEW f \in Files, NEW g \in Files, Matches(n, f), Matches(n, g)
    PROVE  f = g
<1>1. PICK folder \in Folders : n.labels = Labels[folder]
  BY DEF Nodes
<1>2. f.folder = folder /\ g.folder = folder
  BY <1>1, LabelsAssumption DEF Matches, Files
<1>3. f.version = g.version /\ f.ts = g.ts
  BY DEF Matches
<1>4. \A h \in Files : h = [folder |-> h.folder, version |-> h.version, ts |-> h.ts]
  BY DEF Files
<1>5. QED  BY <1>2, <1>3, <1>4

LEMMA NodeOfRecord ==
    ASSUME NEW f \in Files
    PROVE  NodeOf(f) \in Nodes /\ Matches(NodeOf(f), f) /\ ~NodeOf(f).deleted
  BY DEF NodeOf, Nodes, Matches, Files

\* Setting the deletion mark of a node keeps what it is a record of.
LEMMA MarkKeeps ==
    ASSUME NEW n \in Nodes, NEW b \in BOOLEAN
    PROVE  /\ [n EXCEPT !.deleted = b] \in Nodes
           /\ [n EXCEPT !.deleted = b].deleted = b
           /\ \A f \in Files : Matches([n EXCEPT !.deleted = b], f) <=> Matches(n, f)
  BY DEF Nodes, Matches

LEMMA RecordAllTypes ==
    ASSUME NEW N \in SUBSET Nodes, NEW F \in SUBSET Files
    PROVE  RecordAll(N, F) \in SUBSET Nodes
<1>1. ASSUME NEW m \in RecordAll(N, F) PROVE m \in Nodes
  <2>1. \/ \E n \in N : m = [n EXCEPT !.deleted = FALSE]
        \/ m \in N
        \/ \E g \in F : m = NodeOf(g)
    BY DEF RecordAll
  <2>2. QED  BY <2>1, MarkKeeps, NodeOfRecord
<1>2. QED  BY <1>1

LEMMA DeleteAllTypes ==
    ASSUME NEW N \in SUBSET Nodes, NEW F \in SUBSET Files
    PROVE  DeleteAll(N, F) \in SUBSET Nodes
  BY MarkKeeps DEF DeleteAll

\* Recording files adds just these files, whether they were recorded before, and
\* deleted, or never.
LEMMA RecordAllRecords ==
    ASSUME NEW N \in SUBSET Nodes, NEW F \in SUBSET Files
    PROVE  RecordedIn(RecordAll(N, F)) = RecordedIn(N) \cup F
<1>1. ASSUME NEW f \in RecordedIn(N) PROVE f \in RecordedIn(RecordAll(N, F))
  <2>1. PICK n \in N : f \in Files /\ Matches(n, f) /\ ~n.deleted
    BY <1>1 DEF RecordedIn
  <2>2. CASE \E g \in F : Matches(n, g)
    <3>1. [n EXCEPT !.deleted = FALSE] \in RecordAll(N, F)
      BY <2>2 DEF RecordAll
    <3>2. QED  BY <2>1, <3>1, MarkKeeps DEF RecordedIn
  <2>3. CASE ~\E g \in F : Matches(n, g)
    <3>1. n \in RecordAll(N, F)
      BY <2>3 DEF RecordAll
    <3>2. QED  BY <2>1, <3>1 DEF RecordedIn
  <2>4. QED  BY <2>2, <2>3
<1>2. ASSUME NEW f \in F PROVE f \in RecordedIn(RecordAll(N, F))
  <2>1. CASE \E n \in N : Matches(n, f)
    <3>1. PICK n \in N : Matches(n, f)
      BY <2>1
    <3>2. [n EXCEPT !.deleted = FALSE] \in RecordAll(N, F)
      BY <3>1 DEF RecordAll
    <3>3. QED  BY <3>1, <3>2, MarkKeeps DEF RecordedIn
  <2>2. CASE ~\E n \in N : Matches(n, f)
    <3>1. NodeOf(f) \in RecordAll(N, F)
      BY <2>2 DEF RecordAll
    <3>2. QED  BY <3>1, NodeOfRecord DEF RecordedIn
  <2>3. QED  BY <2>1, <2>2
<1>3. ASSUME NEW f \in RecordedIn(RecordAll(N, F)), f \notin F PROVE f \in RecordedIn(N)
  <2>1. PICK m \in RecordAll(N, F) : f \in Files /\ Matches(m, f) /\ ~m.deleted
    BY <1>3 DEF RecordedIn
  <2>2. \/ \E n \in N : (\E g \in F : Matches(n, g)) /\ m = [n EXCEPT !.deleted = FALSE]
        \/ m \in N
        \/ \E g \in F : m = NodeOf(g)
    BY DEF RecordAll
  <2>3. ASSUME NEW n \in N, NEW g \in F, Matches(n, g), m = [n EXCEPT !.deleted = FALSE]
        PROVE  FALSE
    <3>1. Matches(n, f)
      BY <2>1, <2>3, MarkKeeps
    <3>2. QED  BY <2>1, <2>3, <3>1, <1>3, OneRecord
  <2>4. ASSUME NEW g \in F, m = NodeOf(g) PROVE FALSE
    BY <2>1, <2>4, <1>3, OneRecord, NodeOfRecord
  <2>5. QED  BY <2>1, <2>2, <2>3, <2>4 DEF RecordedIn
<1>4. QED  BY <1>1, <1>2, <1>3

\* Deleting files takes just these files out of the record.
LEMMA DeleteAllDeletes ==
    ASSUME NEW N \in SUBSET Nodes, NEW F \in SUBSET Files
    PROVE  RecordedIn(DeleteAll(N, F)) = RecordedIn(N) \ F
<1>1. ASSUME NEW f \in RecordedIn(N), f \notin F PROVE f \in RecordedIn(DeleteAll(N, F))
  <2>1. PICK n \in N : f \in Files /\ Matches(n, f) /\ ~n.deleted
    BY <1>1 DEF RecordedIn
  <2>2. ~\E g \in F : Matches(n, g)
    BY <1>1, <2>1, OneRecord
  <2>3. n \in DeleteAll(N, F)
    BY <2>2 DEF DeleteAll
  <2>4. QED  BY <2>1, <2>3 DEF RecordedIn
<1>2. ASSUME NEW f \in RecordedIn(DeleteAll(N, F)) PROVE f \in RecordedIn(N) /\ f \notin F
  <2>1. PICK m \in DeleteAll(N, F) : f \in Files /\ Matches(m, f) /\ ~m.deleted
    BY <1>2 DEF RecordedIn
  <2>2. PICK n \in N : m = IF \E g \in F : Matches(n, g) THEN [n EXCEPT !.deleted = TRUE] ELSE n
    BY DEF DeleteAll
  <2>3. m = n /\ ~\E g \in F : Matches(n, g)
    BY <2>1, <2>2, MarkKeeps
  <2>4. QED  BY <2>1, <2>3 DEF RecordedIn
<1>3. QED  BY <1>1, <1>2

-----------------------------------------------------------------------------
(* The invariant.                                                          *)

\* The rest of the plan.
PlanInv ==
    /\ todo = [start |-> todo.start, up |-> todo.up, down |-> todo.down]
    /\ \A s \in todo.start : s.content \subseteq Files
    /\ todo.up \subseteq Files /\ todo.down \subseteq Files

\* The item being run is next in the plan; its effect is there from the end of
\* the body on, and the parameters are its own when it is recorded.
ItemInv ==
    /\ drop \/ stage # "none" => phase = "run"
    /\ stage # "none" =>
          /\ ~drop
          /\ \/ cur.dir = "start" /\ cur.what \in todo.start
             \/ cur.dir = "up" /\ cur.what \in NextUp(todo)
             \/ cur.dir = "down" /\ cur.what \in NextDown(todo)
    /\ stage = "body" => applied = base
    /\ stage \in {"version", "file", "record"} =>
          /\ cur.dir \in {"up", "down"}
          /\ applied = IF cur.dir = "down" THEN base \ {cur.what} ELSE base \cup {cur.what}
    /\ stage \in {"file", "record"} => params.version = cur.what.version
    /\ stage = "record" => params.ts = cur.what.ts

\* What was found is recorded, whole versions of it, and all of the folders that
\* were asked.
QueryInv ==
    phase = "query" =>
        /\ import \in [batch : BatchNames, target : Targets, clean : BOOLEAN]
        /\ db \subseteq RecordedIn(nodes)
        /\ \A g \in db, f \in RecordedIn(nodes) :
              f.folder = g.folder /\ f.version = g.version => f \in db
        /\ \A f \in RecordedIn(nodes) : f.folder \in asked => f \in db

IInv == TypeOK /\ PlanInv /\ ItemInv /\ QueryInv

\* The files of a plan are files of the directory.
LEMMA PlanTypes ==
    ASSUME NEW R \in SUBSET Files, NEW S, NEW D, NEW target, NEW b
    PROVE  LET p == Plan(R, S, D, target, b)
           IN  /\ p = [start |-> p.start, up |-> p.up, down |-> p.down]
               /\ p.start \subseteq S /\ p.up \subseteq Files /\ p.down \subseteq Files
<1> DEFINE start == StartSnapshot(R, S, D, target, b)
           versions == {v \in LocalVersions(R) : \A s \in start : s.version < v}
           run(folder, v) == PlanFolder(folder, v, R, D, target)
           parts == {run(folder, v) : folder \in PlanFolders(b), v \in versions}
<1>1. Plan(R, S, D, target, b) =
        [start |-> start, up |-> UNION {p.up : p \in parts}, down |-> UNION {p.down : p \in parts}]
  BY DEF Plan
<1>2. \A folder, v : run(folder, v).up \subseteq Files /\ run(folder, v).down \subseteq Files
  <2> SUFFICES ASSUME NEW folder, NEW v
               PROVE  run(folder, v).up \subseteq Files /\ run(folder, v).down \subseteq Files
    OBVIOUS
  <2> DEFINE up   == {f \in R : f.folder = folder /\ f.version = v}
             done == GetFileTimestamps(D, folder, v)
  <2>1. \A executed, commit : \A scripts \in SUBSET Files :
          /\ PlanUpgrade(scripts, executed, commit) \subseteq Files
          /\ PlanDowngrade(scripts, executed, commit) \subseteq Files
    BY DEF PlanUpgrade, PlanDowngrade
  <2>2. up \in SUBSET Files /\ (IF folder \in ChangeOnly THEN {} ELSE up) \in SUBSET Files
    OBVIOUS
  <2>3. QED  BY <2>1, <2>2 DEF PlanFolder, NothingToRun
<1>3. start \subseteq S
  BY DEF StartSnapshot
<1> HIDE DEF run, start, versions
<1>4. \A p \in parts : p.up \subseteq Files /\ p.down \subseteq Files
  BY <1>2
<1> HIDE DEF parts
<1>5. QED  BY <1>1, <1>3, <1>4

\* What the invariant says of the item being run.
LEMMA ItemFacts ==
    ASSUME IInv, stage # "none"
    PROVE  /\ phase = "run" /\ ~drop
           /\ Subject \subseteq Files
           /\ cur.dir = "start" => cur.what \in todo.start
           /\ cur.dir # "start" => cur.what \in Files
<1>1. cur.dir # "start" => cur.what \in Files
  BY DEF IInv, PlanInv, ItemInv, NextUp, NextDown
<1>2. Subject \subseteq Files
  BY DEF IInv, TypeOK
<1>3. QED  BY <1>1, <1>2 DEF IInv, ItemInv

\* The record written is that of the item.
LEMMA KeyOfItem ==
    ASSUME IInv, stage = "record"
    PROVE  Key = cur.what /\ Key \in Files
<1>1. cur.what \in Files
  BY ItemFacts DEF IInv, ItemInv
<1>2. \A h \in Files : h = [folder |-> h.folder, version |-> h.version, ts |-> h.ts]
  BY DEF Files
<1>3. params.version = cur.what.version /\ params.ts = cur.what.ts
  BY DEF IInv, ItemInv
<1>4. QED  BY <1>1, <1>2, <1>3 DEF Key

LEMMA InitIInv == Init => IInv
<1>1. Init => TypeOK
  <2> SUFFICES ASSUME Init PROVE TypeOK
    OBVIOUS
  <2>1. params \in [version : Versions \cup {Unset}, ts : Timestamps \cup {Unset}]
    BY DEF Init, NoParams
  <2>2. QED  BY <2>1 DEF Init, TypeOK
<1>2. Init => PlanInv
  BY DEF Init, PlanInv, EmptyPlan
<1>3. Init => ItemInv /\ QueryInv
  BY DEF Init, ItemInv, QueryInv
<1>4. QED  BY <1>1, <1>2, <1>3 DEF IInv

LEMMA StepIInv == IInv /\ [Next]_vars => IInv'
<1>1. ASSUME NEW f \in Files, IInv, Release(f) PROVE IInv'
  <2>1. TypeOK'
    BY <1>1 DEF IInv, TypeOK, Subject, Release, Unscanned, directory, store, query, plan, item
  <2>2. PlanInv'
    BY <1>1 DEF IInv, PlanInv, Release, Unscanned, directory, store, query, plan, item
  <2>3. ItemInv'
    BY <1>1 DEF IInv, ItemInv, Release, Unscanned, directory, store, query, plan, item
  <2>4. QueryInv'
    BY <1>1 DEF IInv, QueryInv, Release, Unscanned, directory, store, query, plan, item
  <2>5. QED  BY <2>1, <2>2, <2>3, <2>4 DEF IInv
<1>2. ASSUME NEW b \in BatchNames, NEW v \in Versions, IInv, TakeSnapshot(b, v) PROVE IInv'
  <2>1. TypeOK'
    <3>1. Covered(repo, b, v) \subseteq Files
      BY <1>2 DEF Covered, IInv, TypeOK
    <3>2. \A s \in snaps' : s.content \subseteq Files
      BY <1>2, <3>1 DEF TakeSnapshot, IInv, TypeOK
    <3>3. QED
      BY <1>2, <3>2
      DEF IInv, TypeOK, Subject, TakeSnapshot, Unscanned, directory, store, query, plan, item
  <2>2. PlanInv'
    BY <1>2 DEF IInv, PlanInv, TakeSnapshot, Unscanned, directory, store, query, plan, item
  <2>3. ItemInv'
    BY <1>2 DEF IInv, ItemInv, TakeSnapshot, Unscanned, directory, store, query, plan, item
  <2>4. QueryInv'
    BY <1>2 DEF IInv, QueryInv, TakeSnapshot, Unscanned, directory, store, query, plan, item
  <2>5. QED  BY <2>1, <2>2, <2>3, <2>4 DEF IInv
<1>3. ASSUME NEW b \in BatchNames, NEW target \in Targets, NEW clean \in BOOLEAN, IInv, Request(b, target, clean) PROVE IInv'
  <2>1. TypeOK'
    BY <1>3 DEF IInv, TypeOK, Subject, Request, directory, store, query, plan, item
  <2>2. PlanInv'
    BY <1>3 DEF IInv, PlanInv, Request, directory, store, query, plan, item
  <2>3. ItemInv'
    BY <1>3 DEF IInv, ItemInv, Request, directory, store, query, plan, item
  <2>4. QueryInv'
    BY <1>3 DEF IInv, QueryInv, Request, directory, store, query, plan, item
  <2>5. QED  BY <2>1, <2>2, <2>3, <2>4 DEF IInv
<1>4. ASSUME NEW folder \in Folders, IInv, QueryRetried(folder) PROVE IInv'
  <2>1. TypeOK'
    BY <1>4 DEF IInv, TypeOK, Subject, QueryRetried, Found, RecordedIn, directory, store, query, plan, item
  <2>2. PlanInv'
    BY <1>4 DEF IInv, PlanInv, QueryRetried, Found, RecordedIn, directory, store, query, plan, item
  <2>3. ItemInv'
    BY <1>4 DEF IInv, ItemInv, QueryRetried, Found, RecordedIn, directory, store, query, plan, item
  <2>4. QueryInv'
    BY <1>4 DEF IInv, QueryInv, QueryRetried, Found, RecordedIn, directory, store, query, plan, item
  <2>5. QED  BY <2>1, <2>2, <2>3, <2>4 DEF IInv
<1>5. ASSUME NEW folder \in Folders, IInv, QueryFolder(folder) PROVE IInv'
  <2>1. TypeOK'
    BY <1>5 DEF IInv, TypeOK, Subject, QueryFolder, Found, RecordedIn, directory, store, query, plan, item
  <2>2. PlanInv'
    BY <1>5 DEF IInv, PlanInv, QueryFolder, Found, RecordedIn, directory, store, query, plan, item
  <2>3. ItemInv'
    BY <1>5 DEF IInv, ItemInv, QueryFolder, Found, RecordedIn, directory, store, query, plan, item
  <2>4. QueryInv'
    <3>1. UNCHANGED <<nodes, import>> /\ phase = "query" /\ db' = db \cup Found(folder, Versions)
      BY <1>5 DEF QueryFolder, store
    <3>2. \A f \in RecordedIn(nodes) : f.version \in Versions
      BY DEF RecordedIn, Files
    <3>3. Found(folder, Versions) \subseteq RecordedIn(nodes)
      BY DEF Found
    <3>4. \A f \in RecordedIn(nodes) : f.folder = folder => f \in db'
      BY <1>5, <3>1, <3>2 DEF Found, IInv, QueryInv
    <3>5. \A f \in RecordedIn(nodes) : f.folder \in asked' => f \in db'
      BY <1>5, <3>1, <3>4 DEF QueryFolder, IInv, QueryInv
    <3>6. \A g \in db', f \in RecordedIn(nodes) :
             f.folder = g.folder /\ f.version = g.version => f \in db'
      BY <1>5, <3>1, <3>4 DEF Found, IInv, QueryInv
    <3>7. RecordedIn(nodes)' = RecordedIn(nodes)
      BY <3>1 DEF RecordedIn, Matches
    <3>8. QED  BY <1>5, <3>1, <3>3, <3>5, <3>6, <3>7 DEF IInv, QueryInv
  <2>5. QED  BY <2>1, <2>2, <2>3, <2>4 DEF IInv
<1>6. ASSUME IInv, Abandon PROVE IInv'
  <2>1. TypeOK'
    BY <1>6 DEF IInv, TypeOK, Subject, Abandon, QueryDone, directory, store, query, plan, item
  <2>2. PlanInv'
    BY <1>6 DEF IInv, PlanInv, Abandon, QueryDone, directory, store, query, plan, item
  <2>3. ItemInv'
    BY <1>6 DEF IInv, ItemInv, Abandon, QueryDone, directory, store, query, plan, item
  <2>4. QueryInv'
    BY <1>6 DEF IInv, QueryInv, Abandon, QueryDone, directory, store, query, plan, item
  <2>5. QED  BY <2>1, <2>2, <2>3, <2>4 DEF IInv
<1>7. ASSUME IInv, Build PROVE IInv'
  <2>1. TypeOK'
    <3>1. phase = "query" /\ stage = "none"
      BY <1>7 DEF Build, IInv, ItemInv
    <3>2. /\ UNCHANGED <<repo, snaps, applied, nodes, broken, stage, ran, params>>
          /\ phase' = "run" /\ asked' = {} /\ db' = {} /\ drop' = import.clean
      BY <1>7 DEF Build, QueryDone, directory, store, item
    <3>3. import.clean \in BOOLEAN
      BY <1>7, <3>1 DEF IInv, QueryInv
    <3>4. QED  BY <1>7, <3>1, <3>2, <3>3 DEF IInv, TypeOK
  <2>2. PlanInv'
    <3>1. todo' = Planned
      BY <1>7 DEF Build
    <3>2. repo \in SUBSET Files /\ \A s \in snaps : s.content \subseteq Files
      BY <1>7 DEF IInv, TypeOK
    <3>3. /\ Planned = [start |-> Planned.start, up |-> Planned.up, down |-> Planned.down]
          /\ Planned.start \subseteq snaps /\ Planned.up \subseteq Files /\ Planned.down \subseteq Files
      <4> DEFINE D == IF import.clean THEN {} ELSE db
                 p == Plan(repo, snaps, D, import.target, import.batch)
      <4>1. Planned = p
        BY DEF Planned, Model
      <4>2. /\ p = [start |-> p.start, up |-> p.up, down |-> p.down]
            /\ p.start \subseteq snaps /\ p.up \subseteq Files /\ p.down \subseteq Files
        <5> HIDE DEF D
        <5>1. QED  BY <3>2, PlanTypes
      <4> HIDE DEF p
      <4>3. QED  BY <4>1, <4>2
    <3>4. QED  BY <3>1, <3>2, <3>3 DEF PlanInv
  <2>3. ItemInv'
    BY <1>7 DEF IInv, ItemInv, Build, QueryDone, directory, store, query, plan, item
  <2>4. QueryInv'
    BY <1>7 DEF IInv, QueryInv, Build, QueryDone, directory, store, query, plan, item
  <2>5. QED  BY <2>1, <2>2, <2>3, <2>4 DEF IInv
<1>8. ASSUME IInv, End PROVE IInv'
  <2>1. TypeOK'
    BY <1>8 DEF IInv, TypeOK, Subject, End, NoParams, directory, store, query, plan, item
  <2>2. PlanInv'
    BY <1>8 DEF IInv, PlanInv, End, NoParams, directory, store, query, plan, item
  <2>3. ItemInv'
    BY <1>8 DEF IInv, ItemInv, End, EmptyPlan, NextUp, NextDown, directory, store, query, plan, item
  <2>4. QueryInv'
    BY <1>8 DEF IInv, QueryInv, End, NoParams, directory, store, query, plan, item
  <2>5. QED  BY <2>1, <2>2, <2>3, <2>4 DEF IInv
<1>9. ASSUME IInv, RunDrop PROVE IInv'
  <2>1. TypeOK'
    BY <1>9 DEF IInv, TypeOK, Subject, RunDrop, directory, store, query, plan, item
  <2>2. PlanInv'
    BY <1>9 DEF IInv, PlanInv, RunDrop, directory, store, query, plan, item
  <2>3. ItemInv'
    BY <1>9 DEF IInv, ItemInv, RunDrop, directory, store, query, plan, item
  <2>4. QueryInv'
    BY <1>9 DEF IInv, ItemInv, QueryInv, RunDrop
  <2>5. QED  BY <2>1, <2>2, <2>3, <2>4 DEF IInv
<1>10. ASSUME IInv, Begin PROVE IInv'
  <2>1. TypeOK'
    <3>1. Subject' \subseteq Files
      BY <1>10 DEF IInv, PlanInv, Begin, Subject, NextUp, NextDown
    <3>2. QED  BY <1>10, <3>1 DEF IInv, TypeOK, Begin, directory, store, query, plan, item
  <2>2. PlanInv'
    BY <1>10 DEF IInv, PlanInv, Begin, directory, store, query, plan, item
  <2>3. ItemInv'
    BY <1>10 DEF IInv, ItemInv, Begin, directory, store, query, plan, item
  <2>4. QueryInv'
    BY <1>10 DEF IInv, QueryInv, Begin, directory, store, query, plan, item
  <2>5. QED  BY <2>1, <2>2, <2>3, <2>4 DEF IInv
<1>11. ASSUME IInv, RunCommand PROVE IInv'
  <2>1. TypeOK'
    BY <1>11 DEF IInv, TypeOK, Subject, RunCommand, InBody, Session, NoParams, directory, store, query, plan, item
  <2>2. PlanInv'
    BY <1>11 DEF IInv, PlanInv, RunCommand, InBody, Session, NoParams, directory, store, query, plan, item
  <2>3. ItemInv'
    BY <1>11 DEF IInv, ItemInv, RunCommand, InBody, Session, NoParams, directory, store, query, plan, item
  <2>4. QueryInv'
    BY <1>11 DEF IInv, QueryInv, RunCommand, InBody, Session, NoParams, directory, store, query, plan, item
  <2>5. QED  BY <2>1, <2>2, <2>3, <2>4 DEF IInv
<1>12. ASSUME IInv, RunSnapshot PROVE IInv'
  <2>1. TypeOK'
    <3>1. Subject \subseteq Files
      BY <1>12, ItemFacts DEF RunSnapshot, InBody
    <3>2. nodes' \subseteq Nodes
      BY <1>12, <3>1, RecordAllTypes DEF RunSnapshot, IInv, TypeOK
    <3>3. params' \in [version : Versions \cup {Unset}, ts : Timestamps \cup {Unset}]
      BY <1>12 DEF RunSnapshot, Session, NoParams, IInv, TypeOK
    <3>4. QED  BY <1>12, <3>1, <3>2, <3>3 DEF IInv, TypeOK, RunSnapshot, Finished, Effect, directory, store, query, plan, item
  <2>2. PlanInv'
    BY <1>12 DEF IInv, PlanInv, RunSnapshot, InBody, Session, NoParams, Finished, Effect, directory, store, query, plan, item
  <2>3. ItemInv'
    BY <1>12 DEF IInv, ItemInv, RunSnapshot, InBody, Session, NoParams, Finished, Effect, directory, store, query, plan, item
  <2>4. QueryInv'
    BY <1>12, ItemFacts DEF QueryInv, RunSnapshot, InBody
  <2>5. QED  BY <2>1, <2>2, <2>3, <2>4 DEF IInv
<1>13. ASSUME IInv, RunFile PROVE IInv'
  <2>1. TypeOK'
    BY <1>13 DEF IInv, TypeOK, Subject, RunFile, InBody, Session, NoParams, Effect, directory, store, query, plan, item
  <2>2. PlanInv'
    BY <1>13 DEF IInv, PlanInv, RunFile, InBody, Session, NoParams, Effect, directory, store, query, plan, item
  <2>3. ItemInv'
    <3>1. cur.dir \in {"up", "down"} /\ Subject = {cur.what} /\ applied = base
      BY <1>13 DEF RunFile, InBody, Subject, IInv, ItemInv
    <3>2. applied' = IF cur.dir = "down" THEN base \ {cur.what} ELSE base \cup {cur.what}
      BY <1>13, <3>1 DEF RunFile, Effect
    <3>3. QED  BY <1>13, <3>1, <3>2 DEF IInv, ItemInv, RunFile, InBody, directory, store, query, plan, item
  <2>4. QueryInv'
    BY <1>13 DEF IInv, QueryInv, RunFile, InBody, Session, NoParams, Effect, directory, store, query, plan, item
  <2>5. QED  BY <2>1, <2>2, <2>3, <2>4 DEF IInv
<1>14. ASSUME IInv, SetVersion PROVE IInv'
  <2>1. TypeOK'
    <3>1. cur.what.version \in Versions
      BY <1>14, ItemFacts DEF SetVersion, IInv, ItemInv, Files
    <3>2. params' \in [version : Versions \cup {Unset}, ts : Timestamps \cup {Unset}]
      BY <1>14, <3>1 DEF SetVersion, IInv, TypeOK
    <3>3. QED  BY <1>14, <3>2 DEF IInv, TypeOK, Subject, SetVersion, directory, store, query, plan, item
  <2>2. PlanInv'
    BY <1>14 DEF IInv, PlanInv, SetVersion, directory, store, query, plan, item
  <2>3. ItemInv'
    BY <1>14 DEF IInv, ItemInv, SetVersion, directory, store, query, plan, item
  <2>4. QueryInv'
    BY <1>14 DEF IInv, QueryInv, SetVersion, directory, store, query, plan, item
  <2>5. QED  BY <2>1, <2>2, <2>3, <2>4 DEF IInv
<1>15. ASSUME IInv, SetFile PROVE IInv'
  <2>1. TypeOK'
    <3>1. cur.what.ts \in Timestamps
      BY <1>15, ItemFacts DEF SetFile, IInv, ItemInv, Files
    <3>2. params' \in [version : Versions \cup {Unset}, ts : Timestamps \cup {Unset}]
      BY <1>15, <3>1 DEF SetFile, IInv, TypeOK
    <3>3. QED  BY <1>15, <3>2 DEF IInv, TypeOK, Subject, SetFile, directory, store, query, plan, item
  <2>2. PlanInv'
    BY <1>15 DEF IInv, PlanInv, SetFile, directory, store, query, plan, item
  <2>3. ItemInv'
    BY <1>15 DEF IInv, ItemInv, SetFile, directory, store, query, plan, item
  <2>4. QueryInv'
    BY <1>15 DEF IInv, QueryInv, SetFile, directory, store, query, plan, item
  <2>5. QED  BY <2>1, <2>2, <2>3, <2>4 DEF IInv
<1>16. ASSUME IInv, RecordUp PROVE IInv'
  <2>1. TypeOK'
    <3>1. nodes' \subseteq Nodes
      BY <1>16, KeyOfItem, RecordAllTypes DEF RecordUp, IInv, TypeOK
    <3>2. QED  BY <1>16, <3>1 DEF IInv, TypeOK, RecordUp, Finished, directory, store, query, plan, item
  <2>2. PlanInv'
    BY <1>16 DEF IInv, PlanInv, RecordUp, Finished, directory, store, query, plan, item
  <2>3. ItemInv'
    BY <1>16 DEF IInv, ItemInv, RecordUp, Finished, directory, store, query, plan, item
  <2>4. QueryInv'
    BY <1>16, ItemFacts DEF QueryInv, RecordUp
  <2>5. QED  BY <2>1, <2>2, <2>3, <2>4 DEF IInv
<1>17. ASSUME IInv, RecordDown PROVE IInv'
  <2>1. TypeOK'
    <3>1. nodes' \subseteq Nodes
      BY <1>17, KeyOfItem, DeleteAllTypes DEF RecordDown, IInv, TypeOK
    <3>2. QED  BY <1>17, <3>1 DEF IInv, TypeOK, RecordDown, Finished, directory, store, query, plan, item
  <2>2. PlanInv'
    BY <1>17 DEF IInv, PlanInv, RecordDown, Finished, directory, store, query, plan, item
  <2>3. ItemInv'
    BY <1>17 DEF IInv, ItemInv, RecordDown, Finished, directory, store, query, plan, item
  <2>4. QueryInv'
    BY <1>17, ItemFacts DEF QueryInv, RecordDown
  <2>5. QED  BY <2>1, <2>2, <2>3, <2>4 DEF IInv
<1>18. ASSUME IInv, FailFile PROVE IInv'
  <2>1. TypeOK'
    BY <1>18 DEF IInv, TypeOK, Subject, FailFile, GiveUp, Finished, NoParams, EmptyPlan, Effect, directory, store, query, plan, item
  <2>2. PlanInv'
    BY <1>18 DEF IInv, PlanInv, FailFile, GiveUp, Finished, NoParams, EmptyPlan, Effect, directory, store, query, plan, item
  <2>3. ItemInv'
    BY <1>18 DEF IInv, ItemInv, FailFile, GiveUp, Finished, NoParams, EmptyPlan, Effect, directory, store, query, plan, item
  <2>4. QueryInv'
    BY <1>18 DEF IInv, QueryInv, FailFile, GiveUp, Finished, NoParams, EmptyPlan, Effect, directory, store, query, plan, item
  <2>5. QED  BY <2>1, <2>2, <2>3, <2>4 DEF IInv
<1>19. ASSUME IInv, FailDrop PROVE IInv'
  <2>1. TypeOK'
    BY <1>19 DEF IInv, TypeOK, Subject, FailDrop, GiveUp, Finished, NoParams, EmptyPlan, directory, store, query, plan, item
  <2>2. PlanInv'
    BY <1>19 DEF IInv, PlanInv, FailDrop, GiveUp, Finished, NoParams, EmptyPlan, directory, store, query, plan, item
  <2>3. ItemInv'
    BY <1>19 DEF IInv, ItemInv, FailDrop, GiveUp, Finished, NoParams, EmptyPlan, directory, store, query, plan, item
  <2>4. QueryInv'
    BY <1>19 DEF IInv, QueryInv, FailDrop, GiveUp, Finished, NoParams, EmptyPlan, directory, store, query, plan, item
  <2>5. QED  BY <2>1, <2>2, <2>3, <2>4 DEF IInv
<1>20. ASSUME IInv, UNCHANGED vars PROVE IInv'
  <2>1. TypeOK'
    BY <1>20 DEF IInv, TypeOK, Subject, vars, directory, store, query, plan, item
  <2>2. PlanInv'
    BY <1>20 DEF IInv, PlanInv, vars, directory, store, query, plan, item
  <2>3. ItemInv'
    BY <1>20 DEF IInv, ItemInv, vars, directory, store, query, plan, item
  <2>4. QueryInv'
    BY <1>20 DEF IInv, QueryInv, vars, directory, store, query, plan, item
  <2>5. QED  BY <2>1, <2>2, <2>3, <2>4 DEF IInv
<1>21. ASSUME IInv, FailSnapshot PROVE IInv'
  <2>1. TypeOK'
    <3>1. Subject \subseteq Files
      BY <1>21, ItemFacts DEF FailSnapshot
    <3>2. nodes' \subseteq Nodes
      BY <1>21, <3>1, RecordAllTypes DEF FailSnapshot, IInv, TypeOK
    <3>3. applied' \subseteq Files /\ broken' \subseteq Files
      BY <1>21, <3>1 DEF FailSnapshot, IInv, TypeOK
    <3>4. QED
      BY <1>21, <3>2, <3>3
      DEF IInv, TypeOK, FailSnapshot, GiveUp, Finished, NoParams, directory, query
  <2>2. PlanInv'
    BY <1>21 DEF PlanInv, FailSnapshot, GiveUp, EmptyPlan
  <2>3. ItemInv'
    BY <1>21 DEF ItemInv, FailSnapshot, GiveUp, Finished
  <2>4. QueryInv'
    BY <1>21 DEF QueryInv, FailSnapshot, GiveUp
  <2>5. QED  BY <2>1, <2>2, <2>3, <2>4 DEF IInv
<1>22. QED
  BY <1>1, <1>2, <1>3, <1>4, <1>5, <1>6, <1>7, <1>8, <1>9, <1>10, <1>11, <1>12, <1>13, <1>14,
     <1>15, <1>16, <1>17, <1>18, <1>19, <1>20, <1>21
  DEF Next, Query, Statement

\* The types.
THEOREM ExecutionTypeCorrect == Spec => []TypeOK
<1>1. IInv => TypeOK
  BY DEF IInv
<1>2. QED  BY InitIInv, StepIInv, <1>1, PTL DEF Spec

\* However often the driver retried, the plan is made from just what is recorded.
THEOREM QueryIsExact == Spec => []ModelIsExact
<1>1. IInv => ModelIsExact
  <2> SUFFICES ASSUME IInv, phase = "query", asked = Folders PROVE db = RecordedIn(nodes)
    BY DEF ModelIsExact
  <2>1. \A f \in RecordedIn(nodes) : f.folder \in Folders
    BY DEF RecordedIn, Files
  <2>2. QED  BY <2>1 DEF IInv, QueryInv
<1>2. QED  BY InitIInv, StepIInv, <1>1, PTL DEF Spec

-----------------------------------------------------------------------------
(* Refinement.                                                             *)

\* Migration plans as Execution does.
LEMMA SameScan ==
    ASSUME NEW R
    PROVE  /\ M!LocalVersions(R) = LocalVersions(R)
           /\ M!ScanError(R) = ScanError(R)
           /\ \A target : M!TargetMissing(R, target) = TargetMissing(R, target)
  BY DEF M!LocalVersions, LocalVersions, M!ScanError, ScanError, M!TargetMissing, TargetMissing

LEMMA SamePlan ==
    ASSUME NEW R, NEW S, NEW D, NEW target, NEW b
    PROVE  M!Plan(R, S, D, target, b) = Plan(R, S, D, target, b)
  BY DEF M!Plan, Plan, M!StartSnapshot, StartSnapshot, M!Usable, Usable, M!HasAnyVersion,
         HasAnyVersion, M!LocalVersions, LocalVersions, M!PlanFolder, PlanFolder,
         M!PlanFolders, PlanFolders, M!BatchFolders, BatchFolders, M!GetFileTimestamps,
         GetFileTimestamps, M!ContainsHigherVersion, ContainsHigherVersion, M!PlanUpgrade,
         PlanUpgrade, M!PlanDowngrade, PlanDowngrade, M!NothingToRun, NothingToRun

LEMMA SameOmissions ==
    ASSUME NEW R, NEW S, NEW D, NEW target, NEW b
    PROVE  M!PassedOver(R, S, D, target, b) = PassedOver(R, S, D, target, b)
  BY DEF M!PassedOver, PassedOver, M!Covered, Covered, M!StartSnapshot, StartSnapshot,
         M!Usable, Usable, M!HasAnyVersion, HasAnyVersion, M!LocalVersions, LocalVersions,
         M!PlanFolders, PlanFolders, M!BatchFolders, BatchFolders,
         M!ContainsHigherVersion, ContainsHigherVersion

LEMMA SameOrder ==
    /\ M!NextUp(todo) = NextUp(todo)
    /\ M!NextDown(todo) = NextDown(todo)
  BY DEF M!NextUp, NextUp, M!NextDown, NextDown, M!Before, Before

LEMMA InitMaps == Init => M!Init
<1>1. nodes = {} => RecordedIn(nodes) = {}
  BY DEF RecordedIn
<1>2. QED
  BY <1>1 DEF Init, M!Init, AppliedBefore, EmptyPlan, M!EmptyPlan, NoJob, M!NoJob

\* What Migration sees of the database is there when the nodes, and the files
\* that were applied when the item began, are.
LEMMA SameLedger ==
    /\ UNCHANGED nodes => RecordedIn(nodes)' = RecordedIn(nodes)
    /\ UNCHANGED <<stage, applied, base>> => AppliedBefore' = AppliedBefore
  BY DEF RecordedIn, Matches, AppliedBefore

\* A step is a step of Migration, or nothing that it sees.
LEMMA StepMaps == IInv /\ [Next]_vars => [M!Next]_(M!vars)
<1> USE DEF directory, store, query, plan, item
<1>1. ASSUME IInv, NEW f \in Files, Release(f) PROVE M!Release(f)
  <2>1. UNCHANGED <<RecordedIn(nodes), AppliedBefore>>
    BY <1>1, SameLedger DEF Release
  <2>2. QED  BY <1>1, <2>1 DEF Release, Unscanned, M!Release
<1>2. ASSUME IInv, NEW b \in BatchNames, NEW v \in Versions, TakeSnapshot(b, v)
      PROVE  M!TakeSnapshot(b, v)
  <2>1. UNCHANGED <<RecordedIn(nodes), AppliedBefore>>
    BY <1>2, SameLedger DEF TakeSnapshot
  <2>2. QED
    BY <1>2, <2>1, SameScan
    DEF TakeSnapshot, Unscanned, M!TakeSnapshot, Covered, M!Covered, PlanFolders,
        M!PlanFolders, BatchFolders, M!BatchFolders
<1>3. ASSUME IInv, NEW b \in BatchNames, NEW target \in Targets, NEW clean \in BOOLEAN,
             Request(b, target, clean)
      PROVE  UNCHANGED M!vars
  BY <1>3, SameLedger DEF Request, M!vars
<1>4. ASSUME IInv, NEW folder \in Folders, QueryRetried(folder) \/ QueryFolder(folder)
      PROVE  UNCHANGED M!vars
  BY <1>4, SameLedger DEF QueryRetried, QueryFolder, M!vars
<1>5. ASSUME IInv, Abandon PROVE UNCHANGED M!vars
  BY <1>5, SameLedger DEF Abandon, M!vars
<1>6. ASSUME IInv, Build PROVE M!Next
  <2> DEFINE b == import.batch
             target == import.target
             clean == import.clean
  <2>1. b \in BatchNames /\ target \in Targets /\ clean \in BOOLEAN
    BY <1>6 DEF Build, IInv, QueryInv
  <2>2. UNCHANGED <<RecordedIn(nodes), AppliedBefore>>
    BY <1>6, SameLedger DEF Build
  <2>3. ~clean => db = RecordedIn(nodes)
    <3>1. \A f \in RecordedIn(nodes) : f.folder \in Folders
      BY DEF RecordedIn, Files
    <3>2. QED  BY <1>6, <3>1 DEF Build, IInv, QueryInv
  <2>4. todo' = Plan(repo, snaps, IF clean THEN {} ELSE RecordedIn(nodes), target, b)
    BY <1>6, <2>1, <2>3 DEF Build, Planned, Model
  <2>5. todo' = M!Plan(repo, snaps, IF clean THEN {} ELSE RecordedIn(nodes), target, b)
    BY <2>4, SamePlan
  <2>6. job' = [batch |-> b, target |-> target,
               passed |-> M!PassedOver(repo, snaps, IF clean THEN {} ELSE RecordedIn(nodes),
                                       target, b)]
    BY <1>6, <2>1, <2>3, SameOmissions DEF Build, Model
  <2>7. M!Begin(b, target, clean)
    BY <1>6, <2>2, <2>5, <2>6, SameScan DEF Build, M!Begin
  <2> HIDE DEF b, target, clean
  <2>8. QED
    BY <2>1, <2>7 DEF M!Next, M!BatchNames, BatchNames, M!Targets, Targets
<1>7. ASSUME IInv, End PROVE M!End
  BY <1>7, SameLedger DEF End, M!End, EmptyPlan, M!EmptyPlan, NoJob, M!NoJob
<1>8. ASSUME IInv, RunDrop PROVE M!RunDrop
  <2>1. RecordedIn(nodes)' = {}
    BY <1>8 DEF RunDrop, RecordedIn
  <2>2. AppliedBefore' = {}
    BY <1>8 DEF RunDrop, AppliedBefore, IInv, ItemInv
  <2>3. QED  BY <1>8, <2>1, <2>2 DEF RunDrop, M!RunDrop
<1>9. ASSUME IInv, Begin PROVE UNCHANGED M!vars
  <2>1. AppliedBefore' = AppliedBefore
    BY <1>9 DEF Begin, AppliedBefore
  <2>2. QED  BY <1>9, <2>1, SameLedger DEF Begin, M!vars
<1>10. ASSUME IInv, RunCommand PROVE UNCHANGED M!vars
  <2>1. AppliedBefore' = AppliedBefore
    BY <1>10 DEF RunCommand, AppliedBefore
  <2>2. QED  BY <1>10, <2>1, SameLedger DEF RunCommand, M!vars
<1>11. ASSUME IInv, RunSnapshot PROVE M!RunSnapshot
  <2>1. cur.what \in todo.start /\ Subject = cur.what.content /\ Subject \subseteq Files
    BY <1>11, ItemFacts DEF RunSnapshot, InBody, Subject
  <2>2. nodes \in SUBSET Nodes /\ applied = base /\ stage = "body" /\ ~drop
    BY <1>11, ItemFacts DEF RunSnapshot, InBody, IInv, TypeOK, ItemInv
  <2>3. RecordedIn(nodes)' = RecordedIn(nodes')
    BY DEF RecordedIn, Matches
  <2>4. RecordedIn(nodes)' = RecordedIn(nodes) \cup cur.what.content
    BY <1>11, <2>1, <2>2, <2>3, RecordAllRecords DEF RunSnapshot
  <2>5. AppliedBefore' = AppliedBefore \cup cur.what.content
    BY <1>11, <2>1, <2>2 DEF RunSnapshot, Finished, Effect, AppliedBefore
  <2>6. QED  BY <1>11, <2>1, <2>2, <2>4, <2>5 DEF RunSnapshot, M!RunSnapshot
<1>12. ASSUME IInv, RunFile \/ SetVersion \/ SetFile PROVE UNCHANGED M!vars
  <2>1. AppliedBefore' = AppliedBefore
    BY <1>12 DEF RunFile, SetVersion, SetFile, InBody, AppliedBefore
  <2>2. QED  BY <1>12, <2>1, SameLedger DEF RunFile, SetVersion, SetFile, M!vars
<1>13. ASSUME IInv, RecordUp PROVE cur.what \in Files /\ M!RunUp(cur.what)
  <2>1. Key = cur.what /\ cur.what \in Files /\ ~drop /\ cur.what \in NextUp(todo)
    BY <1>13, ItemFacts, KeyOfItem DEF RecordUp, IInv, ItemInv
  <2>2. RecordedIn(nodes)' = RecordedIn(nodes')
    BY DEF RecordedIn, Matches
  <2>3. RecordedIn(nodes)' = RecordedIn(nodes) \cup {cur.what}
    BY <1>13, <2>1, <2>2, RecordAllRecords DEF RecordUp, IInv, TypeOK
  <2>4. AppliedBefore' = AppliedBefore \cup {cur.what}
    BY <1>13 DEF RecordUp, Finished, AppliedBefore, IInv, ItemInv
  <2>5. QED  BY <1>13, <2>1, <2>3, <2>4, SameOrder DEF RecordUp, M!RunUp
<1>14. ASSUME IInv, RecordDown PROVE cur.what \in Files /\ M!RunDown(cur.what)
  <2>1. Key = cur.what /\ cur.what \in Files /\ ~drop /\ cur.what \in NextDown(todo)
    BY <1>14, ItemFacts, KeyOfItem DEF RecordDown, IInv, ItemInv
  <2>2. RecordedIn(nodes)' = RecordedIn(nodes')
    BY DEF RecordedIn, Matches
  <2>3. RecordedIn(nodes)' = RecordedIn(nodes) \ {cur.what}
    BY <1>14, <2>1, <2>2, DeleteAllDeletes DEF RecordDown, IInv, TypeOK
  <2>4. AppliedBefore' = AppliedBefore \ {cur.what}
    BY <1>14 DEF RecordDown, Finished, AppliedBefore, IInv, ItemInv
  <2>5. QED  BY <1>14, <2>1, <2>3, <2>4, SameOrder DEF RecordDown, M!RunDown
<1>15. ASSUME IInv, FailFile PROVE M!Next
  <2>1. RecordedIn(nodes)' = RecordedIn(nodes) /\ AppliedBefore = base /\ ~drop
    BY <1>15, ItemFacts, SameLedger DEF FailFile, GiveUp, AppliedBefore
  <2>2. AppliedBefore' = applied'
    BY <1>15 DEF FailFile, GiveUp, Finished, AppliedBefore
  <2>3. M!GiveUp
    BY <1>15, <2>1 DEF FailFile, GiveUp, M!GiveUp, EmptyPlan, M!EmptyPlan, NoJob, M!NoJob
  <2>4. CASE cur.dir = "up"
    <3>1. cur.what \in Files /\ cur.what \in NextUp(todo) /\ Subject = {cur.what}
      BY <1>15, <2>4, ItemFacts DEF FailFile, Subject, IInv, ItemInv
    <3>2. applied' = base \/ applied' = base \cup {cur.what}
      BY <1>15, <2>4, <3>1 DEF FailFile, Effect, IInv, TypeOK, ItemInv
    <3>3. M!FailUp(cur.what)
      BY <1>15, <2>1, <2>2, <2>3, <3>1, <3>2, SameOrder DEF FailFile, M!FailUp
    <3>4. QED  BY <3>1, <3>3 DEF M!Next, M!Fail, M!Files, Files, M!Folders, Folders
  <2>5. CASE cur.dir = "down"
    <3>1. cur.what \in Files /\ cur.what \in NextDown(todo) /\ Subject = {cur.what}
      BY <1>15, <2>5, ItemFacts DEF FailFile, Subject, IInv, ItemInv
    <3>2. applied' = base \/ applied' = base \ {cur.what}
      BY <1>15, <2>5, <3>1 DEF FailFile, Effect, IInv, TypeOK, ItemInv
    <3>3. M!FailDown(cur.what)
      BY <1>15, <2>1, <2>2, <2>3, <3>1, <3>2, SameOrder DEF FailFile, M!FailDown
    <3>4. QED  BY <3>1, <3>3 DEF M!Next, M!Fail, M!Files, Files, M!Folders, Folders
  <2>6. QED  BY <1>15, <2>4, <2>5 DEF FailFile, IInv, ItemInv
<1>16. ASSUME IInv, FailDrop PROVE M!FailDrop
  <2>1. UNCHANGED <<RecordedIn(nodes), AppliedBefore>>
    BY <1>16, SameLedger DEF FailDrop, GiveUp, Finished, AppliedBefore, IInv, ItemInv
  <2>2. QED
    BY <1>16, <2>1
    DEF FailDrop, GiveUp, M!FailDrop, M!GiveUp, EmptyPlan, M!EmptyPlan, NoJob, M!NoJob
<1>17. ASSUME UNCHANGED vars PROVE UNCHANGED M!vars
  BY <1>17, SameLedger DEF vars, M!vars
<1>18. ASSUME IInv, FailSnapshot PROVE M!FailSnapshot
  <2>1. /\ cur.what \in todo.start /\ Subject = cur.what.content /\ Subject \subseteq Files
        /\ ~drop
    BY <1>18, ItemFacts DEF FailSnapshot, Subject
  <2>2. nodes \in SUBSET Nodes /\ applied = base /\ AppliedBefore = base
    BY <1>18 DEF FailSnapshot, AppliedBefore, IInv, TypeOK, ItemInv
  <2>3. AppliedBefore' = applied' /\ RecordedIn(nodes)' = RecordedIn(nodes')
    BY <1>18 DEF FailSnapshot, GiveUp, Finished, AppliedBefore, RecordedIn, Matches
  <2>4. PICK done \in SUBSET Subject, noted \in SUBSET Subject :
          applied' = applied \cup done /\ nodes' = RecordAll(nodes, noted)
    BY <1>18 DEF FailSnapshot
  <2>5. RecordedIn(nodes)' = RecordedIn(nodes) \cup noted
    BY <2>1, <2>2, <2>3, <2>4, RecordAllRecords
  <2>6. M!GiveUp
    BY <1>18 DEF FailSnapshot, GiveUp, M!GiveUp, EmptyPlan, M!EmptyPlan, NoJob, M!NoJob
  <2>7. broken' = broken \cup cur.what.content
    BY <1>18, <2>1 DEF FailSnapshot
  <2>8. QED  BY <2>1, <2>2, <2>3, <2>4, <2>5, <2>6, <2>7 DEF M!FailSnapshot
<1>19. QED
  <2> USE DEF M!Next, M!Step, M!Fail, M!Files, Files, M!Folders, Folders, M!BatchNames, BatchNames
  <2>1. ASSUME IInv, NEW f \in Files, Release(f) PROVE M!Next
    BY <1>1, <2>1
  <2>2. ASSUME IInv, NEW b \in BatchNames, NEW v \in Versions, TakeSnapshot(b, v) PROVE M!Next
    BY <1>2, <2>2
  <2>3. ASSUME IInv, Query \/ Abandon PROVE UNCHANGED M!vars
    BY <1>4, <1>5, <2>3 DEF Query
  <2>4. ASSUME IInv, Statement PROVE M!Next \/ UNCHANGED M!vars
    <3>1. ASSUME RecordUp PROVE M!Next
      BY <1>13, <2>4, <3>1
    <3>2. ASSUME RecordDown PROVE M!Next
      BY <1>14, <2>4, <3>2
    <3>3. ASSUME RunDrop \/ RunSnapshot PROVE M!Next
      BY <1>8, <1>11, <2>4, <3>3
    <3>4. QED  BY <1>9, <1>10, <1>12, <2>4, <3>1, <3>2, <3>3 DEF Statement
  <2>5. ASSUME IInv, End \/ FailFile \/ FailSnapshot \/ FailDrop PROVE M!Next
    BY <1>7, <1>15, <1>16, <1>18, <2>5
  <2> HIDE DEF M!Next, M!Step, M!Fail, M!Files, Files, M!Folders, Folders, M!BatchNames, BatchNames
  <2>6. QED  BY <1>3, <1>6, <1>17, <2>1, <2>2, <2>3, <2>4, <2>5 DEF Next

\* The statements of update and CreateBuilder implement Migration: one file and
\* its record, at a time, of a plan made from just what is recorded.
THEOREM ImplementsMigration == Spec => Implements
  BY InitIInv, StepIInv, InitMaps, StepMaps, PTL DEF Spec, Implements, M!Spec

-----------------------------------------------------------------------------
(* What is proved of Migration holds of the statements.                    *)
MP == INSTANCE MigrationProofs WITH
        applied  <- AppliedBefore,
        recorded <- RecordedIn(nodes),
        busy     <- phase = "run"

\* The assumptions of the theorems of Migration.
LEMMA FoldersAssumed ==
    /\ Schema \notin Extra
    /\ ChangeOnly \subseteq MP!Folders
    /\ SchemaBatch \notin DOMAIN Batches
    /\ \A b \in DOMAIN Batches : Batches[b] \subseteq Extra
    /\ Kept \subseteq Versions
BY FoldersAssumption DEF MP!Folders, Folders

\* The two instances of Planner and Migration define the same.
LEMMA SamePlans ==
    /\ M!Folders = MP!Folders /\ M!BatchNames = MP!BatchNames /\ M!Files = MP!Files
    /\ M!Targets = MP!Targets /\ M!EmptyPlan = MP!EmptyPlan
    /\ \A b : M!PlanFolders(b) = MP!PlanFolders(b)
    /\ \A r : M!LocalVersions(r) = MP!LocalVersions(r) /\ (M!ScanError(r) <=> MP!ScanError(r))
    /\ \A r, t : M!TargetMissing(r, t) <=> MP!TargetMissing(r, t)
    /\ \A f, g : M!Before(f, g) <=> MP!Before(f, g)
    /\ \A p : M!NextUp(p) = MP!NextUp(p) /\ M!NextDown(p) = MP!NextDown(p)
    /\ \A r, s, d, t, b : M!Plan(r, s, d, t, b) = MP!Plan(r, s, d, t, b)
    /\ \A r, b, v : M!Covered(r, b, v) = MP!Covered(r, b, v)
    /\ \A r, s, d, t, b : M!PassedOver(r, s, d, t, b) = MP!PassedOver(r, s, d, t, b)
    /\ M!NoJob = MP!NoJob
<1>1. /\ M!Folders = MP!Folders /\ M!BatchNames = MP!BatchNames /\ M!Files = MP!Files
      /\ M!Targets = MP!Targets /\ M!EmptyPlan = MP!EmptyPlan
      /\ \A b : M!PlanFolders(b) = MP!PlanFolders(b)
  BY DEF M!Folders, MP!Folders, M!BatchNames, MP!BatchNames, M!Files, MP!Files,
         M!Targets, MP!Targets, M!EmptyPlan, MP!EmptyPlan, M!PlanFolders,
         MP!PlanFolders, M!BatchFolders, MP!BatchFolders
<1>2. \A r : M!LocalVersions(r) = MP!LocalVersions(r)
  BY DEF M!LocalVersions, MP!LocalVersions
<1>3. \A r : M!ScanError(r) <=> MP!ScanError(r)
  BY <1>2 DEF M!ScanError, MP!ScanError
<1>4. \A r, t : M!TargetMissing(r, t) <=> MP!TargetMissing(r, t)
  BY <1>2 DEF M!TargetMissing, MP!TargetMissing
<1>5. \A f, g : M!Before(f, g) <=> MP!Before(f, g)
  BY DEF M!Before, MP!Before
<1>6. \A p : M!NextUp(p) = MP!NextUp(p) /\ M!NextDown(p) = MP!NextDown(p)
  BY DEF M!NextUp, MP!NextUp, M!NextDown, MP!NextDown, M!Before, MP!Before
<1>7. \A r, s, d, t, b : M!Plan(r, s, d, t, b) = MP!Plan(r, s, d, t, b)
  BY DEF M!Plan, MP!Plan, M!StartSnapshot, MP!StartSnapshot, M!Usable,
         MP!Usable, M!HasAnyVersion, MP!HasAnyVersion, M!LocalVersions,
         MP!LocalVersions, M!PlanFolders, MP!PlanFolders, M!BatchFolders,
         MP!BatchFolders, M!PlanFolder, MP!PlanFolder, M!PlanUpgrade,
         MP!PlanUpgrade, M!PlanDowngrade, MP!PlanDowngrade, M!NothingToRun,
         MP!NothingToRun, M!ContainsHigherVersion, MP!ContainsHigherVersion,
         M!GetFileTimestamps, MP!GetFileTimestamps
<1>8. \A r, b, v : M!Covered(r, b, v) = MP!Covered(r, b, v)
  BY <1>1 DEF M!Covered, MP!Covered
<1>9. \A r, s, d, t, b : M!PassedOver(r, s, d, t, b) = MP!PassedOver(r, s, d, t, b)
  BY <1>1, <1>2, <1>8
     DEF M!PassedOver, MP!PassedOver, M!StartSnapshot, MP!StartSnapshot, M!Usable, MP!Usable,
         M!HasAnyVersion, MP!HasAnyVersion, M!ContainsHigherVersion, MP!ContainsHigherVersion
<1>10. M!NoJob = MP!NoJob
  BY DEF M!NoJob, MP!NoJob
<1>11. QED  BY <1>1, <1>2, <1>3, <1>4, <1>5, <1>6, <1>7, <1>8, <1>9, <1>10

LEMMA ImplementsProved == Spec => MP!Spec
<1>1. M!Init => MP!Init
  BY SamePlans DEF M!Init, MP!Init
<1>2. \A f : M!Release(f) => MP!Release(f)
  BY SamePlans DEF M!Release, MP!Release
<1>3. \A b, v : M!TakeSnapshot(b, v) => MP!TakeSnapshot(b, v)
  BY SamePlans DEF M!TakeSnapshot, MP!TakeSnapshot
<1>4. \A b, target, clean : M!Begin(b, target, clean) => MP!Begin(b, target, clean)
  BY SamePlans DEF M!Begin, MP!Begin
<1>5. M!End \/ M!RunDrop \/ M!RunSnapshot => MP!End \/ MP!RunDrop \/ MP!RunSnapshot
  BY SamePlans DEF M!End, MP!End, M!RunDrop, MP!RunDrop, M!RunSnapshot, MP!RunSnapshot
<1>6. \A f : M!RunUp(f) \/ M!RunDown(f) => MP!RunUp(f) \/ MP!RunDown(f)
  BY SamePlans DEF M!RunUp, MP!RunUp, M!RunDown, MP!RunDown
<1>7. M!GiveUp <=> MP!GiveUp
  BY SamePlans DEF M!GiveUp, MP!GiveUp
<1>8. M!FailDrop \/ M!FailSnapshot => MP!FailDrop \/ MP!FailSnapshot
  BY <1>7 DEF M!FailDrop, MP!FailDrop, M!FailSnapshot, MP!FailSnapshot
<1>9. \A f : M!FailUp(f) \/ M!FailDown(f) => MP!FailUp(f) \/ MP!FailDown(f)
  BY <1>7, SamePlans DEF M!FailUp, MP!FailUp, M!FailDown, MP!FailDown
<1>10. M!Next => MP!Next
  BY <1>2, <1>3, <1>4, <1>5, <1>6, <1>8, <1>9, SamePlans
     DEF M!Next, MP!Next, M!Step, MP!Step, M!Fail, MP!Fail
<1>11. [M!Next]_M!vars => [MP!Next]_MP!vars
  BY <1>10 DEF M!vars, MP!vars
<1>12. QED  BY <1>1, <1>11, ImplementsMigration, PTL DEF Implements, M!Spec, MP!Spec

\* Whatever statement fails or is retried, and between any two statements, the
\* nodes that count as records are the files whose effect the database had before
\* the item that is being run, but for files whose import failed half way.
THEOREM StatementsKeepLedger == Spec => []M!LedgerExact
<1>1. MP!LedgerExact => M!LedgerExact
  BY SamePlans DEF M!LedgerExact, MP!LedgerExact
<1>2. QED
  BY <1>1, ImplementsProved, MP!LedgerIsExact, NumbersAssumption, FoldersAssumed,
     TargetAssumption, PTL

\* When the last statement of an import has run, the nodes record just the files
\* that its target includes, but for those the plan passed over.
THEOREM StatementsReachTarget == Spec => M!TargetReached
<1>1. M!End <=> MP!End
  BY SamePlans DEF M!End, MP!End
<1>2. [MP!End =>
          \A f \in repo : f.folder \in MP!PlanFolders(job.batch) =>
              /\ MP!Included(f, job.target) => f \in RecordedIn(nodes) \cup job.passed
              /\ f \in RecordedIn(nodes) =>
                   MP!Included(f, job.target) \/ f.folder \in ChangeOnly]_MP!vars
      => [M!End =>
            \A f \in repo : f.folder \in M!PlanFolders(job.batch) =>
                /\ M!Included(f, job.target) => f \in RecordedIn(nodes) \cup job.passed
                /\ f \in RecordedIn(nodes) =>
                     M!Included(f, job.target) \/ f.folder \in ChangeOnly]_M!vars
  BY <1>1, SamePlans DEF M!vars, MP!vars, M!Included, MP!Included
<1>3. MP!TargetReached => M!TargetReached
  BY <1>2, PTL DEF M!TargetReached, MP!TargetReached
<1>4. QED
  BY <1>3, ImplementsProved, MP!ImportsReachTarget, NumbersAssumption, FoldersAssumed,
     TargetAssumption, PTL

\* Whatever statements ran and failed before: a gap opens in the nodes of a folder
\* only where a file is released late, where an import goes on beyond a file its
\* plan passed over, or where a snapshot stops half way that contains it.  No file
\* whose statements fail leaves one.
THEOREM StatementGapsHaveCauses == Spec => M!GapsHaveCauses
<1>1. /\ \A g : M!Release(g) <=> MP!Release(g)
      /\ M!GiveUp <=> MP!GiveUp
  BY SamePlans DEF M!Release, MP!Release, M!GiveUp, MP!GiveUp
<1>2. M!FailSnapshot <=> MP!FailSnapshot
  BY <1>1 DEF M!FailSnapshot, MP!FailSnapshot
<1>3. M!Gaps = MP!Gaps /\ M!Gaps' = MP!Gaps'
  BY SamePlans DEF M!Gaps, MP!Gaps, M!Before, MP!Before
<1>4. [\A g \in MP!Gaps' \ MP!Gaps :
          \/ MP!Release(g)
          \/ phase = "run" /\ g \in job.passed
          \/ MP!FailSnapshot /\ \E s \in todo.start : g \in s.content]_MP!vars
      => [\A g \in M!Gaps' \ M!Gaps :
            \/ M!Release(g)
            \/ phase = "run" /\ g \in job.passed
            \/ M!FailSnapshot /\ \E s \in todo.start : g \in s.content]_M!vars
  BY <1>1, <1>2, <1>3 DEF M!vars, MP!vars
<1>5. MP!GapsHaveCauses => M!GapsHaveCauses
  BY <1>4, PTL DEF M!GapsHaveCauses, MP!GapsHaveCauses
<1>6. QED
  BY <1>5, ImplementsProved, MP!RecordGapsHaveCauses, NumbersAssumption, FoldersAssumed,
     TargetAssumption, PTL

LEMMA SameScripts ==
    /\ \A f : M!RunsUp(f) <=> MP!RunsUp(f)
    /\ \A f : M!RunsDown(f) <=> MP!RunsDown(f)
<1>1. M!GiveUp <=> MP!GiveUp
  BY SamePlans DEF M!GiveUp, MP!GiveUp
<1>2. QED
  BY <1>1, SamePlans DEF M!RunsUp, MP!RunsUp, M!RunUp, MP!RunUp, M!FailUp, MP!FailUp,
     M!RunsDown, MP!RunsDown, M!RunDown, MP!RunDown, M!FailDown, MP!FailDown

\* No file runs up on a database that has its effect nor down on one that has not,
\* where it runs when its record is written, or when a statement of it fails.
THEOREM StatementsRunOnce == Spec => M!RunsOnce
<1>1. /\ \A f : M!RunsUp(f) <=> MP!RunsUp(f)
      /\ \A f : M!RunsDown(f) <=> MP!RunsDown(f)
  BY SameScripts
<1>2. [\A f \in MP!Files \ broken :
          /\ MP!RunsUp(f) => f \notin AppliedBefore
          /\ MP!RunsDown(f) => f \in AppliedBefore]_MP!vars
      => [\A f \in M!Files \ broken :
            /\ M!RunsUp(f) => f \notin AppliedBefore
            /\ M!RunsDown(f) => f \in AppliedBefore]_M!vars
  BY <1>1, SamePlans DEF M!vars, MP!vars
<1>3. MP!RunsOnce => M!RunsOnce
  BY <1>2, PTL DEF M!RunsOnce, MP!RunsOnce
<1>4. QED
  BY <1>3, ImplementsProved, MP!ScriptsRunOnce, NumbersAssumption, FoldersAssumed,
     TargetAssumption, PTL

\* A file runs up when the nodes record all older files of the import, but for those
\* passed over, and down when they record no newer one, but for change files.
THEOREM StatementsRunInOrder == Spec => M!RunsInOrder
<1>1. [\A f \in MP!Files :
          LET others == {g \in repo : g.folder \in MP!PlanFolders(job.batch)}
          IN  /\ MP!RunsUp(f) => \A g \in others :
                    MP!Before(g, f) => g \in RecordedIn(nodes) \cup job.passed
              /\ MP!RunsDown(f) => \A g \in others \cap RecordedIn(nodes) :
                    MP!Before(f, g) => g.folder \in ChangeOnly]_MP!vars
      => [\A f \in M!Files :
            LET others == {g \in repo : g.folder \in M!PlanFolders(job.batch)}
            IN  /\ M!RunsUp(f) => \A g \in others :
                      M!Before(g, f) => g \in RecordedIn(nodes) \cup job.passed
                /\ M!RunsDown(f) => \A g \in others \cap RecordedIn(nodes) :
                      M!Before(f, g) => g.folder \in ChangeOnly]_M!vars
  BY SameScripts, SamePlans DEF M!vars, MP!vars
<1>2. MP!RunsInOrder => M!RunsInOrder
  BY <1>1, PTL DEF M!RunsInOrder, MP!RunsInOrder
<1>3. QED
  BY <1>2, ImplementsProved, MP!ScriptsRunInOrder, NumbersAssumption, FoldersAssumed,
     TargetAssumption, PTL

\* Between any two statements, an import has added no records but of files of its
\* batch that its target includes, and taken back none but of such as it excludes.
THEOREM StatementsStayInScope == Spec => M!StaysInScope
<1>1. [~drop =>
          /\ \A f \in (AppliedBefore' \ AppliedBefore) \cup (RecordedIn(nodes)' \ RecordedIn(nodes)) :
                f.folder \in MP!PlanFolders(job.batch) /\ MP!Included(f, job.target)
          /\ \A f \in (AppliedBefore \ AppliedBefore') \cup (RecordedIn(nodes) \ RecordedIn(nodes)') :
                f.folder \in MP!PlanFolders(job.batch) \ ChangeOnly
                /\ ~MP!Included(f, job.target)]_MP!vars
      => [~drop =>
            /\ \A f \in (AppliedBefore' \ AppliedBefore) \cup (RecordedIn(nodes)' \ RecordedIn(nodes)) :
                  f.folder \in M!PlanFolders(job.batch) /\ M!Included(f, job.target)
            /\ \A f \in (AppliedBefore \ AppliedBefore') \cup (RecordedIn(nodes) \ RecordedIn(nodes)') :
                  f.folder \in M!PlanFolders(job.batch) \ ChangeOnly
                  /\ ~M!Included(f, job.target)]_M!vars
  BY SamePlans DEF M!vars, MP!vars, M!Included, MP!Included
<1>2. MP!StaysInScope => M!StaysInScope
  BY <1>1, PTL DEF M!StaysInScope, MP!StaysInScope
<1>3. QED
  BY <1>2, ImplementsProved, MP!ImportsStayInScope, NumbersAssumption, FoldersAssumed,
     TargetAssumption, PTL

=============================================================================
