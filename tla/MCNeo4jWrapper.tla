--------------------------- MODULE MCNeo4jWrapper ---------------------------
(***************************************************************************)
(* Instances of Neo4jWrapper for TLC, and what the comments of             *)
(* supervisor/ promise about it.                                           *)
(***************************************************************************)
EXTENDS Neo4jWrapper, TLC

CONSTANTS r1, r2, r3

Symmetry == Permutations(Requests)

-----------------------------------------------------------------------------
(* What the comments say.                                                  *)

\* supervisor.go:89, "Always start Neo4j when supervisor is started": once the
\* main goroutine is past its Start there is a process.
StartedAtBoot == pc[MainThread] # "start" => proc[Main] # "unused"

\* neo4j.go:199, "Restart call Stop, Wait and Start": a restart whose Stop
\* interrupted the process leads to a new process.
RestartStarts ==
    \A r \in Requests :
        (pc[Restarter(r)] = "wait" /\ serviceState = "Stopping") ~> proc[r] # "unused"

\* supervisor.go:162, "Send stop all to neo4j first, takes the longest time":
\* once StopAll has returned, every Neo4j that runs has been interrupted.
ShutdownInterrupts ==
    pc[MainThread] \in {"waitAll", "done"} =>
        \A p \in Procs : Alive(p) => sigs[p] > 0

\* neo4j.go:131, "service is in '%s' state already, cannot be started again":
\* a service that runs is not started a second time.
OneNeo4j == \A p, q \in Procs : Alive(p) /\ Alive(q) => p = q

=============================================================================
