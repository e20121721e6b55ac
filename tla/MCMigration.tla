---------------------------- MODULE MCMigration -----------------------------
(***************************************************************************)
(* Two versions with two timestamps each, a schema folder with down        *)
(* scripts and a seed folder without, the implicit batch and one that      *)
(* adds the seeds.  There is one seed per version: number 2 of version 1   *)
(* and number 1 of version 2.                                              *)
(***************************************************************************)
EXTENDS Migration, FiniteSets

MCVersions   == 1 .. 2
MCTimestamps == 1 .. 2
MCBatches    == [full |-> {"seed"}]

CONSTANTS MaxFiles, MaxSnaps, MaxTotal

\* Seeds are on either side of a revision, and before and after a schema file.
OneSeed == {f \in Files : f.folder = "seed" /\ f.version + f.ts = 3}

\* The bounds of the state space; the model has none.  The last one is for the
\* files and the failures together.
Small == /\ \A f \in repo : f.folder = "seed" => f \in OneSeed
         /\ Cardinality(repo) <= MaxFiles
         /\ Cardinality(snaps) <= MaxSnaps
         /\ Cardinality(repo) + Cardinality(broken) <= MaxTotal

=============================================================================
