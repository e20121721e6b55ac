----------------------------- MODULE Utilities ------------------------------
(***************************************************************************)
(* The utilities of supervisor/neo4j.go: the processes that imports run    *)
(* (cypher-shell and the commands of .run files), the table utilsCmd that  *)
(* lists them by name, and the mutex utilsMux that protects the table from *)
(* imports, status requests and the shutdown of the main goroutine.        *)
(*                                                                         *)
(* Granularity.  A section under utilsMux that neither blocks nor leaves   *)
(* the mutex locked is one step.  The section of StopAll is not: while it  *)
(* signals, processes exit and are waited for.                             *)
(*                                                                         *)
(* The service is what Neo4jWrapper models, seen from an import: it is     *)
(* Running at times, and an import that begins makes it Updating.  A stop  *)
(* and a start (or a restart) may make it Running under an import.         *)
(***************************************************************************)
EXTENDS Naturals

CONSTANTS
    Imports,    \* the calls of update, each in a goroutine of its own
    Viewers,    \* the status requests
    Main,       \* the main goroutine
    Free,       \* the owner of a mutex nobody holds
    NoCmd,      \* the nil *TSCmd
    Names,      \* the names of the utilities
    MaxSteps,   \* the steps of an import that run a utility, at most
    NamesOf,    \* what each of these steps may run
    Faults      \* what may go wrong

\* startCmd: a utility cannot be executed; restart: Neo4j is stopped and
\* started again while an import runs; plan: an import fails before its first
\* step; interrupt: the supervisor gets a signal.
AllFaults == {"startCmd", "restart", "plan", "interrupt"}

Threads == Imports \cup Viewers \cup {Main}

\* The process of the k-th of these steps of an import.
Procs == [import : Imports, step : 1 .. MaxSteps, name : Names]

ASSUME ThreadsAssumption == /\ Imports \cap Viewers = {}
                            /\ Main \notin Imports \cup Viewers
                            /\ Free \notin Threads
                            /\ NoCmd \notin Procs
ASSUME StepsAssumption == MaxSteps \in Nat /\ NamesOf \in [1 .. MaxSteps -> SUBSET Names]
ASSUME FaultsAssumption == Faults \subseteq AllFaults

States == {"Starting", "Running", "Updating", "Failed"}

Labels == {"idle", "next", "await", "clean", "end", "done",
           "status", "run", "stopAll", "signal", "waitAll", "waiting"}

VARIABLES
    serviceState,   \* Neo4jWrapper.serviceState, as far as imports see it
    utilsMux,       \* the goroutine that locked the mutex
    utilsCmd,       \* Neo4jWrapper.utilsCmd: the process of each name
    proc,           \* what each process is doing
    sent,           \* the processes that got an interrupt
    cmd,            \* the process each import started last
    step,           \* how many processes each import has started
    pc,             \* where each goroutine is
    todo,           \* the processes StopAll has to signal, WaitAll to wait for
    ctxDone,        \* the root context is cancelled
    happened,       \* the faults that have occurred
    old             \* what ran or was listed when StopAll or WaitAll locked

service  == <<serviceState, happened>>
table    == <<utilsMux, utilsCmd>>
procs    == <<proc, sent>>
progress == <<cmd, step>>
shutdown == <<todo, ctxDone, old>>
vars     == <<service, table, procs, progress, pc, shutdown>>

Running(p)    == proc[p] = "running"
Registered(p) == p.name \in DOMAIN utilsCmd /\ utilsCmd[p.name] = p

\* The types.
TypeOK ==
    /\ serviceState \in States
    /\ happened \subseteq AllFaults
    /\ utilsMux \in Threads \cup {Free}
    /\ DOMAIN utilsCmd \subseteq Names
    /\ \A n \in DOMAIN utilsCmd : utilsCmd[n] \in Procs
    /\ proc \in [Procs -> {"unused", "running", "exited", "reaped"}]
    /\ sent \subseteq Procs
    /\ cmd \in [Imports -> Procs \cup {NoCmd}]
    /\ step \in [Imports -> 0 .. MaxSteps]
    /\ pc \in [Threads -> Labels]
    /\ todo \subseteq Procs
    /\ ctxDone \in BOOLEAN
    /\ old \subseteq Procs

Init ==
    /\ serviceState = "Starting"
    /\ happened = {}
    /\ utilsMux = Free
    /\ utilsCmd = [n \in {} |-> NoCmd]
    /\ proc = [p \in Procs |-> "unused"]
    /\ sent = {}
    /\ cmd = [i \in Imports |-> NoCmd]
    /\ step = [i \in Imports |-> 0]
    /\ pc = [t \in Threads |-> IF t = Main THEN "run" ELSE "idle"]
    /\ todo = {}
    /\ ctxDone = FALSE
    /\ old = {}

-----------------------------------------------------------------------------
(* The program runs until its main goroutine returns.                      *)
Up == pc[Main] # "done"

At(t, label)   == Up /\ pc[t] = label
Goto(t, label) == pc' = [pc EXCEPT ![t] = label]

Occurs(fault) == fault \in Faults /\ happened' = happened \cup {fault}

-----------------------------------------------------------------------------
(* The service.                                                            *)

\* Neo4j was started, or stopped and started again, and serves Bolt.
Serve ==
    /\ Up /\ ~ctxDone
    /\ serviceState \in {"Starting", "Failed"}
    /\ serviceState' = "Running"
    /\ UNCHANGED <<happened, table, procs, progress, pc, shutdown>>

\* The same while an import runs.
Restart ==
    /\ Up /\ ~ctxDone
    /\ serviceState = "Updating"
    /\ serviceState' = "Running"
    /\ Occurs("restart")
    /\ UNCHANGED <<table, procs, progress, pc, shutdown>>

-----------------------------------------------------------------------------
(* update: it must find the service Running; then it plans and runs its    *)
(* steps.  A utility that fails ends the import, but not with an error.    *)

\* Mutant of UpdateBegins: an import that is running does not refuse another.
UpdateJoins(i) ==
    /\ At(i, "idle")
    /\ ~ctxDone
    /\ serviceState \in {"Running", "Updating"}
    /\ serviceState' = "Updating"
    /\ Goto(i, "next")
    /\ UNCHANGED <<happened, table, procs, progress, shutdown>>

UpdateBegins(i) ==
    /\ At(i, "idle")
    /\ ~ctxDone
    /\ serviceState = "Running"
    /\ serviceState' = "Updating"
    /\ Goto(i, "next")
    /\ UNCHANGED <<happened, table, procs, progress, shutdown>>

UpdateRefused(i) ==
    /\ At(i, "idle")
    /\ ctxDone \/ serviceState # "Running"
    /\ Goto(i, "done")
    /\ UNCHANGED <<service, table, procs, progress, shutdown>>

\* setState fails once the context is cancelled.
SetState(state) == serviceState' = IF ctxDone THEN serviceState ELSE state

PlanFails(i) ==
    /\ At(i, "next")
    /\ step[i] = 0
    /\ Occurs("plan")
    /\ SetState("Failed")
    /\ Goto(i, "done")
    /\ UNCHANGED <<table, procs, progress, shutdown>>

\* The plan has no step left that runs a utility.
StepsDone(i) ==
    /\ At(i, "next")
    /\ Goto(i, "end")
    /\ UNCHANGED <<service, table, procs, progress, shutdown>>

UpdateEnds(i) ==
    /\ At(i, "end")
    /\ SetState("Running")
    /\ Goto(i, "done")
    /\ UNCHANGED <<happened, table, procs, progress, shutdown>>

-----------------------------------------------------------------------------
(* startUtility.  Its two early returns leave the mutex locked.            *)
CanStart(i, n) ==
    /\ At(i, "next")
    /\ utilsMux = Free
    /\ step[i] < MaxSteps
    /\ n \in NamesOf[step[i] + 1]

StartRefused(i, n) ==
    /\ CanStart(i, n)
    /\ n \in DOMAIN utilsCmd
    /\ utilsMux' = i
    /\ Goto(i, "end")
    /\ UNCHANGED <<service, utilsCmd, procs, progress, shutdown>>

StartFails(i, n) ==
    /\ CanStart(i, n)
    /\ n \notin DOMAIN utilsCmd
    /\ Occurs("startCmd")
    /\ utilsMux' = i
    /\ Goto(i, "end")
    /\ UNCHANGED <<serviceState, utilsCmd, procs, progress, shutdown>>

NewProc(i, n) == [import |-> i, step |-> step[i] + 1, name |-> n]

\* Mutant of StartOk: the process is started but not listed.
StartUnlisted(i, n) ==
    /\ CanStart(i, n)
    /\ n \notin DOMAIN utilsCmd
    /\ proc' = [proc EXCEPT ![NewProc(i, n)] = "running"]
    /\ cmd' = [cmd EXCEPT ![i] = NewProc(i, n)]
    /\ step' = [step EXCEPT ![i] = @ + 1]
    /\ Goto(i, "await")
    /\ UNCHANGED <<service, table, sent, shutdown>>

StartOk(i, n) ==
    /\ CanStart(i, n)
    /\ n \notin DOMAIN utilsCmd
    /\ proc' = [proc EXCEPT ![NewProc(i, n)] = "running"]
    /\ utilsCmd' = [m \in DOMAIN utilsCmd \cup {n} |->
                       IF m = n THEN NewProc(i, n) ELSE utilsCmd[m]]
    /\ cmd' = [cmd EXCEPT ![i] = NewProc(i, n)]
    /\ step' = [step EXCEPT ![i] = @ + 1]
    /\ Goto(i, "await")
    /\ UNCHANGED <<service, utilsMux, sent, shutdown>>

\* waitAndClean: WaitTS, then delete under the mutex.
WaitTS(i) ==
    /\ At(i, "await")
    /\ proc[cmd[i]] \in {"exited", "reaped"}
    /\ proc' = [proc EXCEPT ![cmd[i]] = "reaped"]
    /\ Goto(i, "clean")
    /\ UNCHANGED <<service, table, sent, progress, shutdown>>

\* Mutant of Clean: a utility that failed stays in the table.
CleanOnSuccess(i) ==
    /\ At(i, "clean")
    /\ utilsMux = Free
    /\ \/ /\ Goto(i, "next")
          /\ utilsCmd' = [m \in DOMAIN utilsCmd \ {cmd[i].name} |-> utilsCmd[m]]
       \/ Goto(i, "end") /\ UNCHANGED utilsCmd
    /\ UNCHANGED <<service, utilsMux, procs, progress, shutdown>>

\* Mutant of Clean: the entry is set to nil instead of deleted.
CleanLeavesNil(i) ==
    /\ At(i, "clean")
    /\ utilsMux = Free
    /\ utilsCmd' = [utilsCmd EXCEPT ![cmd[i].name] = NoCmd]
    /\ \/ Goto(i, "next")
       \/ Goto(i, "end")
    /\ UNCHANGED <<service, utilsMux, procs, progress, shutdown>>

Clean(i) ==
    /\ At(i, "clean")
    /\ utilsMux = Free
    /\ utilsCmd' = [m \in DOMAIN utilsCmd \ {cmd[i].name} |-> utilsCmd[m]]
    /\ \/ Goto(i, "next")   \* it exited with 0
       \/ Goto(i, "end")
    /\ UNCHANGED <<service, utilsMux, procs, progress, shutdown>>

-----------------------------------------------------------------------------
(* AllStates, for a status request.  State always returns (Neo4jWrapper).  *)
Request(v) ==
    /\ At(v, "idle")
    /\ Goto(v, "status")
    /\ UNCHANGED <<service, table, procs, progress, shutdown>>

AllStates(v) ==
    /\ At(v, "status")
    /\ utilsMux = Free
    /\ Goto(v, "done")
    /\ UNCHANGED <<service, table, procs, progress, shutdown>>

-----------------------------------------------------------------------------
(* The shutdown.  The context is cancelled before StopAll, so its Stop and *)
(* the Wait of WaitAll fail at once; only the utilities are left to model. *)
Interrupt ==
    /\ At(Main, "run")
    /\ Occurs("interrupt")
    /\ ctxDone' = TRUE
    /\ Goto(Main, "stopAll")
    /\ UNCHANGED <<serviceState, table, procs, progress, todo, old>>

StopAllLocks ==
    /\ At(Main, "stopAll")
    /\ utilsMux = Free
    /\ utilsMux' = Main
    /\ todo' = {utilsCmd[n] : n \in DOMAIN utilsCmd}
    /\ old' = {p \in Procs : Running(p) \/ Registered(p)}
    /\ Goto(Main, "signal")
    /\ UNCHANGED <<service, utilsCmd, procs, progress, ctxDone>>

StopAllSignals(p) ==
    /\ At(Main, "signal")
    /\ p \in todo
    /\ proc[p] # "reaped"
    /\ sent' = sent \cup {p}
    /\ todo' = todo \ {p}
    /\ UNCHANGED <<service, table, proc, progress, pc, ctxDone, old>>

\* Mutant of StopAllReturns: the loop is left after any signal.
StopAllReturnsEarly ==
    /\ At(Main, "signal")
    /\ utilsMux' = Free
    /\ todo' = {}
    /\ Goto(Main, "waitAll")
    /\ UNCHANGED <<service, utilsCmd, procs, progress, ctxDone, old>>

\* Mutant of StopAllReturns: the return inside the loop does not unlock.
StopAllReturnsLocked ==
    /\ At(Main, "signal")
    /\ todo = {} \/ \E p \in todo : proc[p] = "reaped"
    /\ utilsMux' = IF todo = {} THEN Free ELSE Main
    /\ todo' = {}
    /\ Goto(Main, "waitAll")
    /\ UNCHANGED <<service, utilsCmd, procs, progress, ctxDone, old>>

\* Every signal was sent, or one found a process that was waited for.
StopAllReturns ==
    /\ At(Main, "signal")
    /\ todo = {} \/ \E p \in todo : proc[p] = "reaped"
    /\ utilsMux' = Free
    /\ todo' = {}
    /\ Goto(Main, "waitAll")
    /\ UNCHANGED <<service, utilsCmd, procs, progress, ctxDone, old>>

\* Mutant of WaitAllCopies: only what was interrupted is waited for.
WaitAllCopiesSent ==
    /\ At(Main, "waitAll")
    /\ utilsMux = Free
    /\ todo' = {utilsCmd[n] : n \in DOMAIN utilsCmd} \cap sent
    /\ old' = {p \in Procs : Running(p) \/ Registered(p)}
    /\ Goto(Main, "waiting")
    /\ UNCHANGED <<service, table, procs, progress, ctxDone>>

WaitAllCopies ==
    /\ At(Main, "waitAll")
    /\ utilsMux = Free
    /\ todo' = {utilsCmd[n] : n \in DOMAIN utilsCmd}
    /\ old' = {p \in Procs : Running(p) \/ Registered(p)}
    /\ Goto(Main, "waiting")
    /\ UNCHANGED <<service, table, procs, progress, ctxDone>>

\* Mutant of WaitAllWaits: Wait instead of WaitTS, so that only one goroutine
\* is told that the process exited.
WaitAllWaitsAlone(p) ==
    /\ At(Main, "waiting")
    /\ p \in todo
    /\ proc[p] = "exited"
    /\ proc' = [proc EXCEPT ![p] = "reaped"]
    /\ todo' = todo \ {p}
    /\ UNCHANGED <<service, table, sent, progress, pc, ctxDone, old>>

WaitAllWaits(p) ==
    /\ At(Main, "waiting")
    /\ p \in todo
    /\ proc[p] \in {"exited", "reaped"}
    /\ proc' = [proc EXCEPT ![p] = "reaped"]
    /\ todo' = todo \ {p}
    /\ UNCHANGED <<service, table, sent, progress, pc, ctxDone, old>>

WaitAllReturns ==
    /\ At(Main, "waiting")
    /\ todo = {}
    /\ Goto(Main, "done")
    /\ UNCHANGED <<service, table, procs, progress, shutdown>>

-----------------------------------------------------------------------------
(* A utility exits, by itself or interrupted.  It outlives the program.    *)
Exit(p) ==
    /\ Running(p)
    /\ proc' = [proc EXCEPT ![p] = "exited"]
    /\ UNCHANGED <<service, table, sent, progress, pc, shutdown>>

-----------------------------------------------------------------------------
StartUtility(i) == \E n \in Names : StartRefused(i, n) \/ StartFails(i, n) \/ StartOk(i, n)

Update(i) == \/ PlanFails(i) \/ StartUtility(i) \/ WaitTS(i) \/ Clean(i)
             \/ StepsDone(i) \/ UpdateEnds(i)

StopAll == StopAllLocks \/ StopAllReturns \/ \E p \in Procs : StopAllSignals(p)
WaitAll == WaitAllCopies \/ WaitAllReturns \/ \E p \in Procs : WaitAllWaits(p)

Step == \/ \E i \in Imports : Update(i)
        \/ \E v \in Viewers : AllStates(v)
        \/ StopAll
        \/ WaitAll

Next == \/ Serve
        \/ Restart
        \/ \E i \in Imports : UpdateBegins(i) \/ UpdateRefused(i)
        \/ \E v \in Viewers : Request(v)
        \/ Interrupt
        \/ Step
        \/ \E p \in Procs : Exit(p)

Spec == Init /\ [][Next]_vars

\* Go runs some goroutine that can run; every utility ends, as scripts are
\* finite.  Each goroutine takes finitely many steps, so it is not passed over
\* forever.
Fairness == WF_vars(Step) /\ \A p \in Procs : WF_vars(Exit(p))

FairSpec == Spec /\ Fairness

-----------------------------------------------------------------------------
(* Correctness.                                                            *)

\* A section of an import is one step unless it forgets to unlock: an import
\* that is seen to hold the mutex will hold it forever.
Leaked == utilsMux \in Imports

\* Every utility that runs is in the table under its name.  So the shutdown and
\* the status see it, and no two utilities of one name run at once, whatever
\* imports, restarts, leaks and the shutdown interleave.
RunningIsListed == \A p \in Procs : Running(p) => Registered(p)

\* Every entry of the table has an import that waits for just this process and
\* is to delete it next: a name is not blocked by an import that has moved on.
\* (If the mutex has leaked the import hangs before it deletes the entry.)
EntryHasCleaner ==
    \A n \in DOMAIN utilsCmd :
        /\ cmd[utilsCmd[n].import] = utilsCmd[n]
        /\ pc[utilsCmd[n].import] \in {"await", "clean"}

\* The mutex leaks only when a utility cannot be executed or Neo4j is restarted
\* under an import: a name is never found in use otherwise, as imports are alone
\* and clean up before they end.
LeakNeedsFault == Leaked => happened \cap {"startCmd", "restart"} # {}

\* StopAll interrupts every utility that runs when it locks the table.  The one
\* excuse for a utility it leaves alone is another one of the table whose process
\* was waited for before StopAll came to it: the loop ends there with an error,
\* in the middle of the table.  (That takes two imports that overlap.)
StopAllInterrupts ==
    pc[Main] = "waitAll" =>
        \A p \in old : Running(p) =>
            \/ p \in sent
            \/ \E q \in old \ {p} : proc[q] = "reaped" /\ q \notin sent

\* A utility that outlives the program was started after WaitAll took its copy.
\* (They exist: WaitAll does not stop the import that starts them.)
OrphansAreLate == ~Up => \A p \in old : ~Running(p)

\* A status request is answered, and the shutdown ends, unless the mutex leaked:
\* nothing else can hang them.
StatusAnswered ==
    \A v \in Viewers : pc[v] = "status" ~> (pc[v] = "done" \/ Leaked \/ ~Up)

ShutdownEndsUnlessLeaked == ctxDone ~> (~Up \/ Leaked)

=============================================================================
