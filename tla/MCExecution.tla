---------------------------- MODULE MCExecution -----------------------------
(***************************************************************************)
(* Two versions, an up_down schema folder of cypher files and a seed       *)
(* folder of command files: one with two commands and an exit, one with    *)
(* nothing but an exit.  Both folders have the default labels.             *)
(***************************************************************************)
EXTENDS Execution, FiniteSets

MCVersions   == 1 .. 2
MCTimestamps == {1}
MCBatches    == [full |-> {"seed"}]
MCLabels     == [schema |-> {"GraphToolMigration", "SchemaVersion"},
                 seed   |-> {"GraphToolMigration", "SeedVersion"}]

\* The body of a file or snapshot.
MCContent(x, dir) ==
    IF dir = "start" \/ x.folder = "schema" THEN Cypher
    ELSE IF x.version = 1 THEN <<"comment", "seed", "seed", "exit", "unknown">>
    ELSE <<"exit">>

CONSTANTS MaxFiles, MaxSnaps, MaxBroken

\* The bounds of the state space; the model has none.
Small == /\ Cardinality(repo) <= MaxFiles
         /\ Cardinality(snaps) <= MaxSnaps
         /\ Cardinality(broken) <= MaxBroken

=============================================================================
