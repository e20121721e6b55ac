----------------------------- MODULE MCScanner ------------------------------
(***************************************************************************)
(* An up_down schema folder with a kept version and a change folder, names *)
(* of directories that are Equal or lack the v, and file names of every    *)
(* kind the scanner tells apart.                                           *)
(***************************************************************************)
EXTENDS Scanner

MCVersions == 1 .. 2
MCBatches  == [full |-> {"seed"}]
MCDirNames == {"v1", "v1.0", "v2", "1"}
MCRank     == [d \in MCDirNames |-> IF d = "v2" THEN 2 ELSE 1]

Named(ts, direction, word, type) ==
    [ts |-> ts, direction |-> direction, word |-> word, type |-> type]

MCNames == {Named(1, "up", TRUE, "cypher"), Named(1, "down", TRUE, "cypher"),
            Named(1, "DOWN", TRUE, "cypher"), Named(2, "down", TRUE, "cypher"),
            Named(0, "up", TRUE, "cypher")}

Snapshot(batch, dir, type) == [batch |-> batch, dir |-> dir, type |-> type]

MCSnapFiles == {Snapshot("schema", "v1.0", "run"), Snapshot("full", "v2", "cypher"),
                Snapshot("unknown", "v1", "cypher")}

Asked(ts, word, downType) ==
    [ts |-> ts, word |-> word, upType |-> "cypher", downType |-> downType]

MCWanted == {Asked(1, TRUE, "cypher"), Asked(2, TRUE, "run"),
             Asked(1, FALSE, "cypher")}

=============================================================================
