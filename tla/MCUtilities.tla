---------------------------- MODULE MCUtilities -----------------------------
(***************************************************************************)
(* Instances of Utilities for TLC: cypher-shell and one other command, and *)
(* what a comment of the code promises.                                    *)
(***************************************************************************)
EXTENDS Utilities

CONSTANTS i1, i2, v1

\* Adjacent cyphers are one step (AddCypher), and every plan begins with one.
MCNamesOf == <<{"cypher-shell"}, {"script"}>>

\* neo4j.go:257, "Create a copy with lock to avoid deadlocks (goroutine inside
\* startUtility) when waiting for processes to exit": the shutdown ends.
ShutdownEnds == ctxDone ~> ~Up

=============================================================================
