---------------------------- MODULE Neo4jWrapper ----------------------------
(***************************************************************************)
(* The service side of supervisor/neo4j.go with its callers: the HTTP      *)
(* handlers of server.go and the main goroutine of supervisor.go.  One     *)
(* Neo4jWrapper is shared by every goroutine of the program; it protects   *)
(* its state with a semaphore that can be tried (serviceSem), a mutex that *)
(* makes the Bolt checks exclusive (spinUpMux) and a channel that tells    *)
(* the goroutine doing the checks to give up (cancelWaitingChan).          *)
(*                                                                         *)
(* Granularity.  A section between serviceSem.Acquire and Release is one   *)
(* step for its body and one step for Release, so another goroutine can    *)
(* find the semaphore taken; a goroutine does nothing else in between.     *)
(* Everything the code reads without the semaphore is a step of its own.   *)
(*                                                                         *)
(* Identities.  A caller is the main goroutine or one HTTP request.  It    *)
(* runs at most one Start and one Stop, so the process it starts and the   *)
(* goroutines it spawns are named after it: no bound on them is needed     *)
(* beside the number of requests.                                          *)
(***************************************************************************)
EXTENDS Naturals

CONSTANTS
    Requests,   \* the HTTP requests the server receives
    Main,       \* the main goroutine
    NoCmd,      \* the nil *TSCmd
    Free,       \* the owner of a lock nobody holds
    Ops,        \* the end points the requests may use
    Faults,     \* what the environment may do
    QuitAfter   \* boltCheckQuitAfterSec / boltCheckSec

AllOps == {"start", "stop", "restart", "status", "update"}

\* startCmd: the process cannot be executed; crash: Neo4j exits on its own;
\* update: an import returns an error; interrupt: the supervisor gets a signal.
AllFaults == {"startCmd", "crash", "update", "interrupt"}

Callers == Requests \cup {Main}
Procs   == Callers

Roles == {"caller", "waiter", "cleaner", "restarter", "bootstrap"}

Threads     == Roles \X Callers
Caller(c)    == <<"caller", c>>
Waiter(c)    == <<"waiter", c>>
Cleaner(c)   == <<"cleaner", c>>
Restarter(c) == <<"restarter", c>>
MainThread   == Caller(Main)
Boot         == <<"bootstrap", Main>>

ASSUME NamesAssumption == /\ Main \notin Requests
                          /\ NoCmd \notin Callers
                          /\ Free \notin Threads
ASSUME OpsAssumption == Ops \subseteq AllOps /\ Faults \subseteq AllFaults
ASSUME QuitAfterAssumption == QuitAfter \in Nat

States == {"Stopped", "Failed", "Starting", "Updating", "Stopping", "Running"}

Labels == {"idle", "done",
           "start", "stop", "restart", "status", "update",
           "reply", "updating",
           "read", "wait", "await", "clean",
           "spinUp", "look", "arm", "poll",
           "cancelled", "timedOut", "connected", "peek",
           "spawn", "run", "close", "stopAll", "waitAll"}

VARIABLES
    serviceState,   \* Neo4jWrapper.serviceState
    serviceCmd,     \* Neo4jWrapper.serviceCmd, the process it points to
    serviceSem,     \* the goroutine that holds the semaphore
    spinUpMux,      \* the goroutine that holds the mutex
    cancelChan,     \* cancelWaitingChan: nil, or open with 0 or 1 element
    polls,          \* i, the counter of the Bolt checking loop
    proc,           \* what each process is doing
    sigs,           \* the interrupts delivered to each process
    pc,             \* where each goroutine is
    cmd,            \* the TSCmd a goroutine is waiting for
    ctxDone,        \* the root context is cancelled
    panicked        \* a goroutine dereferenced nil and killed the program

service == <<serviceState, serviceCmd>>
bolt    == <<spinUpMux, cancelChan, polls>>
os      == <<proc, sigs>>
vars    == <<service, serviceSem, bolt, os, pc, cmd, ctxDone, panicked>>

Alive(p) == proc[p] \in {"booting", "serving"}

\* The types.  The bound on polls is that the Bolt checks give up.
TypeOK ==
    /\ serviceState \in States
    /\ serviceCmd \in Procs \cup {NoCmd}
    /\ serviceSem \in Threads \cup {Free}
    /\ spinUpMux \in Threads \cup {Free}
    /\ cancelChan \in {"nil", "open", "full"}
    /\ polls \in 0 .. (QuitAfter + 1)
    /\ proc \in [Procs -> {"unused", "booting", "serving", "exited", "reaped"}]
    /\ sigs \in [Procs -> Nat]
    /\ pc \in [Threads -> Labels]
    /\ cmd \in [Threads -> Procs \cup {NoCmd}]
    /\ ctxDone \in BOOLEAN
    /\ panicked \in BOOLEAN

Init ==
    /\ serviceState = "Stopped"
    /\ serviceCmd = NoCmd
    /\ serviceSem = Free
    /\ spinUpMux = Free
    /\ cancelChan = "nil"
    /\ polls = 0
    /\ proc = [p \in Procs |-> "unused"]
    /\ sigs = [p \in Procs |-> 0]
    /\ pc = [t \in Threads |-> IF t = MainThread THEN "start" ELSE "idle"]
    /\ cmd = [t \in Threads |-> NoCmd]
    /\ ctxDone = FALSE
    /\ panicked = FALSE

-----------------------------------------------------------------------------
(* The program runs until its main goroutine returns or a panic kills it.  *)
Up == ~panicked /\ pc[MainThread] # "done"

At(t, label) == serviceSem # t /\ pc[t] = label

\* serviceSem.Acquire(w.context, 1): waits for the semaphore, and always fails
\* once the root context is cancelled.
Acquire(t) == ~ctxDone /\ serviceSem = Free /\ serviceSem' = t
AcquireFails == ctxDone /\ UNCHANGED serviceSem

Goto(t, label) == pc' = [pc EXCEPT ![t] = label]

\* Mutant of Release: the early return of a section forgets to release.
ReleaseUnlessReturned(t) ==
    /\ serviceSem = t
    /\ pc[t] # "done"
    /\ serviceSem' = Free
    /\ UNCHANGED <<service, bolt, os, pc, cmd, ctxDone, panicked>>

Release(t) ==
    /\ serviceSem = t
    /\ serviceSem' = Free
    /\ UNCHANGED <<service, bolt, os, pc, cmd, ctxDone, panicked>>

-----------------------------------------------------------------------------
(* Start: called by the start handler, by Main, and by a restarter.        *)
AfterStart(t, ok) ==
    IF t = MainThread THEN "spawn"
    ELSE IF t[1] = "caller" /\ ok THEN "reply" ELSE "done"

\* TryAcquire, which ignores the context, finds the semaphore taken.
StartBusy(t) ==
    /\ At(t, "start")
    /\ serviceSem # Free
    /\ Goto(t, AfterStart(t, FALSE))
    /\ UNCHANGED <<service, serviceSem, bolt, os, cmd, ctxDone, panicked>>

StartRefused(t) ==
    /\ At(t, "start")
    /\ serviceSem = Free
    /\ serviceCmd # NoCmd
    /\ serviceSem' = t
    /\ Goto(t, AfterStart(t, FALSE))
    /\ UNCHANGED <<service, bolt, os, cmd, ctxDone, panicked>>

\* Mutant of StartFails: the state is not set to Failed.
StartFailsStarting(t) ==
    /\ At(t, "start")
    /\ serviceSem = Free
    /\ serviceCmd = NoCmd
    /\ "startCmd" \in Faults
    /\ serviceSem' = t
    /\ serviceState' = "Starting"
    /\ Goto(t, AfterStart(t, FALSE))
    /\ UNCHANGED <<serviceCmd, bolt, os, cmd, ctxDone, panicked>>

StartFails(t) ==
    /\ At(t, "start")
    /\ serviceSem = Free
    /\ serviceCmd = NoCmd
    /\ "startCmd" \in Faults
    /\ serviceSem' = t
    /\ serviceState' = "Failed"
    /\ Goto(t, AfterStart(t, FALSE))
    /\ UNCHANGED <<serviceCmd, bolt, os, cmd, ctxDone, panicked>>

\* Mutant of StartOk: the check that there is no command is dropped.
StartUnchecked(t) ==
    /\ At(t, "start")
    /\ serviceSem = Free
    /\ serviceSem' = t
    /\ serviceState' = "Starting"
    /\ serviceCmd' = t[2]
    /\ proc' = [proc EXCEPT ![t[2]] = "booting"]
    /\ pc' = [pc EXCEPT ![t] = AfterStart(t, TRUE), ![Waiter(t[2])] = "spinUp"]
    /\ UNCHANGED <<bolt, sigs, cmd, ctxDone, panicked>>

StartOk(t) ==
    /\ At(t, "start")
    /\ serviceSem = Free
    /\ serviceCmd = NoCmd
    /\ serviceSem' = t
    /\ serviceState' = "Starting"
    /\ serviceCmd' = t[2]
    /\ proc' = [proc EXCEPT ![t[2]] = "booting"]
    /\ pc' = [pc EXCEPT ![t] = AfterStart(t, TRUE), ![Waiter(t[2])] = "spinUp"]
    /\ UNCHANGED <<bolt, sigs, cmd, ctxDone, panicked>>

-----------------------------------------------------------------------------
(* Stop: called by the stop and restart handlers and by StopAll of Main.   *)
(* Restart spawns its goroutine whatever Stop returned; that goroutine     *)
(* begins by acquiring the semaphore, so it is spawned with Stop's body.   *)
StopLabels == {"stop", "restart", "stopAll"}

AfterStop(t, ok) ==
    IF pc[t] = "stopAll" THEN "waitAll" ELSE IF ok THEN "reply" ELSE "done"

StopReturns(t, ok) ==
    pc' = [pc EXCEPT ![t] = AfterStop(t, ok),
                     ![Restarter(t[2])] = IF pc[t] = "restart" THEN "wait" ELSE @]

InStop(t) == \E l \in StopLabels : At(t, l)

StopNoContext(t) ==
    /\ InStop(t)
    /\ AcquireFails
    /\ StopReturns(t, FALSE)
    /\ UNCHANGED <<service, bolt, os, cmd, ctxDone, panicked>>

StopIgnored(t) ==
    /\ InStop(t)
    /\ Acquire(t)
    /\ serviceState = "Stopping"
    /\ StopReturns(t, TRUE)
    /\ UNCHANGED <<service, bolt, os, cmd, ctxDone, panicked>>

StopNothing(t) ==
    /\ InStop(t)
    /\ Acquire(t)
    /\ serviceState # "Stopping"
    /\ serviceCmd = NoCmd
    /\ StopReturns(t, FALSE)
    /\ UNCHANGED <<service, bolt, os, cmd, ctxDone, panicked>>

\* The select with a default: a full channel keeps its single element.
SendCancel == cancelChan' = IF cancelChan = "open" THEN "full" ELSE cancelChan

\* Process.Signal fails for a process that was waited for already.
StopTooLate(t) ==
    /\ InStop(t)
    /\ Acquire(t)
    /\ serviceState # "Stopping"
    /\ serviceCmd # NoCmd
    /\ SendCancel
    /\ proc[serviceCmd] = "reaped"
    /\ StopReturns(t, FALSE)
    /\ UNCHANGED <<service, spinUpMux, polls, os, cmd, ctxDone, panicked>>

StopSignals(t) ==
    /\ InStop(t)
    /\ Acquire(t)
    /\ serviceState # "Stopping"
    /\ serviceCmd # NoCmd
    /\ SendCancel
    /\ proc[serviceCmd] # "reaped"
    /\ sigs' = [sigs EXCEPT ![serviceCmd] = @ + 1]
    /\ serviceState' = "Stopping"
    /\ pc' = [pc EXCEPT ![t] = AfterStop(t, TRUE),
                        ![Restarter(t[2])] = IF pc[t] = "restart" THEN "wait" ELSE @,
                        ![Cleaner(t[2])] = "read"]
    /\ UNCHANGED <<serviceCmd, spinUpMux, polls, proc, cmd, ctxDone, panicked>>

-----------------------------------------------------------------------------
(* The goroutine Stop leaves behind.  It reads w.serviceCmd without the    *)
(* semaphore; WaitTS on the nil command dereferences nil.                  *)
CleanerPanics(t) ==
    /\ At(t, "read")
    /\ serviceCmd = NoCmd
    /\ panicked' = TRUE
    /\ UNCHANGED <<service, serviceSem, bolt, os, pc, cmd, ctxDone>>

\* Mutant of CleanerReads: the goroutine does not wait for the process.
CleanerDoesNotWait(t) ==
    /\ At(t, "read")
    /\ serviceCmd # NoCmd
    /\ Goto(t, "clean")
    /\ UNCHANGED <<service, serviceSem, bolt, os, cmd, ctxDone, panicked>>

CleanerReads(t) ==
    /\ At(t, "read")
    /\ serviceCmd # NoCmd
    /\ cmd' = [cmd EXCEPT ![t] = serviceCmd]
    /\ Goto(t, "await")
    /\ UNCHANGED <<service, serviceSem, bolt, os, ctxDone, panicked>>

\* Mutant of CleanerGivesUp: TryAcquire instead of Acquire.
CleanerTriesOnce(t) ==
    /\ At(t, "clean")
    /\ serviceSem # Free
    /\ Goto(t, "done")
    /\ UNCHANGED <<service, serviceSem, bolt, os, cmd, ctxDone, panicked>>

CleanerGivesUp(t) ==
    /\ At(t, "clean")
    /\ AcquireFails
    /\ Goto(t, "done")
    /\ UNCHANGED <<service, bolt, os, cmd, ctxDone, panicked>>

\* Mutant of CleanerCleans: the state is reset, the command is not.
CleanerKeepsCommand(t) ==
    /\ At(t, "clean")
    /\ Acquire(t)
    /\ serviceState' = "Stopped"
    /\ Goto(t, "done")
    /\ UNCHANGED <<serviceCmd, bolt, os, cmd, ctxDone, panicked>>

CleanerCleans(t) ==
    /\ At(t, "clean")
    /\ Acquire(t)
    /\ serviceCmd' = NoCmd
    /\ serviceState' = "Stopped"
    /\ Goto(t, "done")
    /\ UNCHANGED <<bolt, os, cmd, ctxDone, panicked>>

-----------------------------------------------------------------------------
(* Wait and WaitTS.  Wait copies the command under the semaphore; WaitTS   *)
(* returns once the process has exited, and reaps it the first time.       *)
AfterAwait(t) ==
    CASE t[1] = "cleaner"   -> "clean"
      [] t[1] = "restarter" -> "start"
      [] OTHER              -> "done"

WaitLabels == {"wait", "waitAll"}

WaitNoContext(t) ==
    /\ \E l \in WaitLabels : At(t, l)
    /\ AcquireFails
    /\ Goto(t, "done")
    /\ UNCHANGED <<service, bolt, os, cmd, ctxDone, panicked>>

WaitCopies(t) ==
    /\ \E l \in WaitLabels : At(t, l)
    /\ Acquire(t)
    /\ cmd' = [cmd EXCEPT ![t] = serviceCmd]
    /\ Goto(t, IF serviceCmd = NoCmd THEN AfterAwait(t) ELSE "await")
    /\ UNCHANGED <<service, bolt, os, ctxDone, panicked>>

WaitTS(t) ==
    /\ At(t, "await")
    /\ proc[cmd[t]] \in {"exited", "reaped"}
    /\ proc' = [proc EXCEPT ![cmd[t]] = "reaped"]
    /\ cmd' = [cmd EXCEPT ![t] = NoCmd]
    /\ Goto(t, AfterAwait(t))
    /\ UNCHANGED <<service, serviceSem, bolt, sigs, ctxDone, panicked>>

-----------------------------------------------------------------------------
(* WaitForNeo4j: run by the goroutine Start leaves behind and by           *)
(* bootstrapDB, which refreshes the data when it returns nil.  The mutex   *)
(* is released with the body of the last section: whoever takes it next    *)
(* begins by acquiring the semaphore.                                      *)
AfterSpinUp(t, ok) == IF t = Boot /\ ok THEN "update" ELSE "done"

LockSpinUp(t) ==
    /\ At(t, "spinUp")
    /\ spinUpMux = Free
    /\ spinUpMux' = t
    /\ Goto(t, "look")
    /\ UNCHANGED <<service, serviceSem, cancelChan, polls, os, cmd, ctxDone, panicked>>

\* Any of the three Acquires fails: the deferred Unlock runs, the channel stays.
SpinUpNoContext(t) ==
    /\ \E l \in {"look", "arm", "cancelled", "timedOut", "connected"} : At(t, l)
    /\ AcquireFails
    /\ spinUpMux' = Free
    /\ Goto(t, "done")
    /\ UNCHANGED <<service, cancelChan, polls, os, cmd, ctxDone, panicked>>

Look(t) ==
    /\ At(t, "look")
    /\ Acquire(t)
    /\ Goto(t, IF serviceState = "Starting" THEN "arm" ELSE "peek")
    /\ UNCHANGED <<service, bolt, os, cmd, ctxDone, panicked>>

Arm(t) ==
    /\ At(t, "arm")
    /\ Acquire(t)
    /\ cancelChan' = "open"
    /\ polls' = 0
    /\ Goto(t, "poll")
    /\ UNCHANGED <<service, spinUpMux, os, cmd, ctxDone, panicked>>

PollCancelled(t) ==
    /\ At(t, "poll")
    /\ cancelChan = "full"
    /\ cancelChan' = "open"
    /\ Goto(t, "cancelled")
    /\ UNCHANGED <<service, serviceSem, spinUpMux, polls, os, cmd, ctxDone, panicked>>

PollQuits(t) ==
    /\ At(t, "poll")
    /\ polls > QuitAfter
    /\ Goto(t, "timedOut")
    /\ UNCHANGED <<service, serviceSem, bolt, os, cmd, ctxDone, panicked>>

\* driver.VerifyConnectivity needs a live context and something that serves Bolt.
PollConnects(t) ==
    /\ At(t, "poll")
    /\ polls <= QuitAfter
    /\ ~ctxDone
    /\ \E p \in Procs : proc[p] = "serving"
    /\ Goto(t, "connected")
    /\ UNCHANGED <<service, serviceSem, bolt, os, cmd, ctxDone, panicked>>

\* Mutant of PollMisses: the checking loop has no limit.
PollMissesForever(t) ==
    /\ At(t, "poll")
    /\ polls' = polls + 1
    /\ UNCHANGED <<service, serviceSem, spinUpMux, cancelChan, os, pc, cmd, ctxDone, panicked>>

PollMisses(t) ==
    /\ At(t, "poll")
    /\ polls <= QuitAfter
    /\ polls' = polls + 1
    /\ UNCHANGED <<service, serviceSem, spinUpMux, cancelChan, os, pc, cmd, ctxDone, panicked>>

\* Mutant of PollEnds: the channel is closed but not set to nil.
PollEndsKeepsChannel(t) ==
    /\ \E l \in {"cancelled", "timedOut", "connected"} :
          /\ At(t, l)
          /\ serviceState' = CASE l = "connected" -> "Running"
                               [] l = "timedOut"  -> "Failed"
                               [] l = "cancelled" -> serviceState
          /\ Goto(t, AfterSpinUp(t, l # "timedOut"))
    /\ Acquire(t)
    /\ spinUpMux' = Free
    /\ polls' = 0
    /\ UNCHANGED <<serviceCmd, cancelChan, os, cmd, ctxDone, panicked>>

PollEnds(t) ==
    /\ \E l \in {"cancelled", "timedOut", "connected"} :
          /\ At(t, l)
          /\ serviceState' = CASE l = "connected" -> "Running"
                               [] l = "timedOut"  -> "Failed"
                               [] l = "cancelled" -> serviceState
          /\ Goto(t, AfterSpinUp(t, l # "timedOut"))
    /\ Acquire(t)
    /\ cancelChan' = "nil"
    /\ spinUpMux' = Free
    /\ polls' = 0
    /\ UNCHANGED <<serviceCmd, os, cmd, ctxDone, panicked>>

\* Mutant of Peek: whatever the state is now, the wait is over.
PeekAnyState(t) ==
    /\ At(t, "peek")
    /\ spinUpMux' = Free
    /\ Goto(t, AfterSpinUp(t, TRUE))
    /\ UNCHANGED <<service, serviceSem, cancelChan, polls, os, cmd, ctxDone, panicked>>

\* Not starting: the state is read again, without the semaphore.
Peek(t) ==
    /\ At(t, "peek")
    /\ spinUpMux' = Free
    /\ Goto(t, AfterSpinUp(t, serviceState = "Running"))
    /\ UNCHANGED <<service, serviceSem, cancelChan, polls, os, cmd, ctxDone, panicked>>

-----------------------------------------------------------------------------
(* update: run by the refresh-data and update-data handlers and by         *)
(* bootstrapDB.  What it does between its two sections (migrator,          *)
(* cypher-shell) leaves the service state alone.                           *)
UpdateNoContext(t) ==
    /\ \E l \in {"update", "updating"} : At(t, l)
    /\ AcquireFails
    /\ Goto(t, "done")
    /\ UNCHANGED <<service, bolt, os, cmd, ctxDone, panicked>>

UpdateRefused(t) ==
    /\ At(t, "update")
    /\ Acquire(t)
    /\ serviceState # "Running"
    /\ Goto(t, "done")
    /\ UNCHANGED <<service, bolt, os, cmd, ctxDone, panicked>>

\* Mutant of UpdateBegins: an update that is running does not refuse another.
UpdateJoins(t) ==
    /\ At(t, "update")
    /\ Acquire(t)
    /\ serviceState \in {"Running", "Updating"}
    /\ serviceState' = "Updating"
    /\ Goto(t, "updating")
    /\ UNCHANGED <<serviceCmd, bolt, os, cmd, ctxDone, panicked>>

UpdateBegins(t) ==
    /\ At(t, "update")
    /\ Acquire(t)
    /\ serviceState = "Running"
    /\ serviceState' = "Updating"
    /\ Goto(t, "updating")
    /\ UNCHANGED <<serviceCmd, bolt, os, cmd, ctxDone, panicked>>

UpdateEnds(t) ==
    /\ At(t, "updating")
    /\ Acquire(t)
    /\ \/ serviceState' = "Running"
       \/ "update" \in Faults /\ serviceState' = "Failed"
    /\ Goto(t, "done")
    /\ UNCHANGED <<serviceCmd, bolt, os, cmd, ctxDone, panicked>>

-----------------------------------------------------------------------------
(* The handlers and the main goroutine.                                    *)

\* A request reaches its handler while the server is open.
Arrive(r) ==
    /\ pc[Caller(r)] = "idle"
    /\ ~panicked /\ pc[MainThread] \in {"start", "spawn", "run", "close"}
    /\ \E op \in Ops : Goto(Caller(r), op)
    /\ UNCHANGED <<service, serviceSem, bolt, os, cmd, ctxDone, panicked>>

\* State: twice for the status handler (itself and AllStates), once for the
\* handlers that report the state after a successful operation.
State(t) ==
    /\ \E l \in {"status", "reply"} :
          /\ At(t, l)
          /\ Goto(t, IF l = "status" THEN "reply" ELSE "done")
    /\ AcquireFails \/ Acquire(t)
    /\ UNCHANGED <<service, bolt, os, cmd, ctxDone, panicked>>

SpawnBootstrap ==
    /\ At(MainThread, "spawn")
    /\ pc' = [pc EXCEPT ![MainThread] = "run", ![Boot] = "spinUp"]
    /\ UNCHANGED <<service, serviceSem, bolt, os, cmd, ctxDone, panicked>>

Interrupt ==
    /\ At(MainThread, "run")
    /\ "interrupt" \in Faults
    /\ ctxDone' = TRUE
    /\ Goto(MainThread, "close")
    /\ UNCHANGED <<service, serviceSem, bolt, os, cmd, panicked>>

CloseServer ==
    /\ At(MainThread, "close")
    /\ Goto(MainThread, "stopAll")
    /\ UNCHANGED <<service, serviceSem, bolt, os, cmd, ctxDone, panicked>>

-----------------------------------------------------------------------------
(* The Neo4j processes.  They outlive the supervisor.                      *)
Serve(p) ==
    /\ proc[p] = "booting"
    /\ \A q \in Procs : proc[q] # "serving"
    /\ proc' = [proc EXCEPT ![p] = "serving"]
    /\ UNCHANGED <<service, serviceSem, bolt, sigs, pc, cmd, ctxDone, panicked>>

Exit(p) ==
    /\ Alive(p)
    /\ proc' = [proc EXCEPT ![p] = "exited"]
    /\ UNCHANGED <<service, serviceSem, bolt, sigs, pc, cmd, ctxDone, panicked>>

Obey(p)  == sigs[p] > 0 /\ Exit(p)
Crash(p) == "crash" \in Faults /\ Exit(p)

-----------------------------------------------------------------------------
Start(t) == StartBusy(t) \/ StartRefused(t) \/ StartFails(t) \/ StartOk(t)

Stop(t) == \/ StopNoContext(t) \/ StopIgnored(t) \/ StopNothing(t)
           \/ StopTooLate(t) \/ StopSignals(t)

Clean(t) == CleanerPanics(t) \/ CleanerReads(t) \/ CleanerGivesUp(t) \/ CleanerCleans(t)

Wait(t) == WaitNoContext(t) \/ WaitCopies(t) \/ WaitTS(t)

WaitForNeo4j(t) ==
    \/ LockSpinUp(t) \/ SpinUpNoContext(t) \/ Look(t) \/ Arm(t)
    \/ PollCancelled(t) \/ PollQuits(t) \/ PollConnects(t) \/ PollMisses(t)
    \/ PollEnds(t) \/ Peek(t)

Update(t) == UpdateNoContext(t) \/ UpdateRefused(t) \/ UpdateBegins(t) \/ UpdateEnds(t)

\* The goroutines that exist: spawned and not returned, or about to Release.
Runnable == {t \in Threads : Up /\ (serviceSem = t \/ pc[t] \notin {"idle", "done"})}

Step(t) == /\ t \in Runnable
           /\ \/ Release(t) \/ Start(t) \/ Stop(t) \/ Clean(t) \/ Wait(t)
              \/ WaitForNeo4j(t) \/ Update(t) \/ State(t)

MainStep == Up /\ (SpawnBootstrap \/ CloseServer)
Signal    == Up /\ Interrupt

Next == \/ \E t \in Threads : Step(t)
        \/ \E r \in Requests : Arrive(r)
        \/ MainStep \/ Signal
        \/ \E p \in Procs : Serve(p) \/ Obey(p) \/ Crash(p)

Spec == Init /\ [][Next]_vars

\* Go runs some runnable goroutine as long as there is one, and Neo4j obeys an
\* interrupt.  Requests, crashes and signals need not come.  A goroutine takes
\* finitely many steps, so nothing stronger is needed: not even that the
\* semaphore serves its waiters in order.
Fairness == /\ WF_vars(MainStep \/ \E t \in Threads : Step(t))
            /\ \A p \in Procs : WF_vars(Obey(p))

FairSpec == Spec /\ Fairness

-----------------------------------------------------------------------------
(* Correctness.                                                            *)

Uninterrupted == \A p \in Procs : sigs[p] = 0

SingleInterrupt == \A p \in Procs : sigs[p] <= 1

\* As long as no process is interrupted twice, every Neo4j that runs is the one
\* the wrapper knows, so two never run on the same data, and no cleaner finds
\* nil: whatever Start, Stop, Restart and their goroutines interleave.
Tracked ==
    SingleInterrupt => /\ ~panicked
                       /\ \A p \in Procs : Alive(p) => serviceCmd = p

\* Tracked is not inductive.  What makes it so: as long as no process is
\* interrupted twice at most one cleaner is pending, there is a command for it,
\* it waits for that command, and comes to clear it when the process is reaped.
Pending(c) == pc[Cleaner(c)] \in {"read", "await", "clean"}

CleanerLabels ==
    /\ \A c \in Callers : pc[Cleaner(c)] \in {"idle", "read", "await", "clean", "done"}
    /\ \A t \in Threads : pc[t] \in {"read", "clean"} => \E c \in Callers : t = Cleaner(c)

OneCleaner ==
    \A c \in Callers : Pending(c) =>
        /\ serviceCmd # NoCmd
        /\ sigs[serviceCmd] > 0
        /\ pc[Cleaner(c)] = "await" => cmd[Cleaner(c)] = serviceCmd
        /\ pc[Cleaner(c)] = "clean" => proc[serviceCmd] = "reaped"
        /\ \A d \in Callers : Pending(d) => d = c

TrackedInv == CleanerLabels /\ (SingleInterrupt => Tracked /\ OneCleaner)

\* Until the first interrupt an update has the service for itself: there is no
\* second one, and neither a Bolt check that ends late nor a refused Start
\* changes the state under it.
UpdateOwnsState ==
    Uninterrupted =>
        \A t \in Threads : pc[t] = "updating" =>
            /\ serviceState = "Updating"
            /\ \A u \in Threads : pc[u] = "updating" => u = t

\* Between the Bolt checks and the import of the bootstrap the service stays
\* Running until a request stops it, or is importing, or until it is Failed
\* when some request was answered (its import failed, say): without any request
\* the initial import always finds the service Running.
BootFindsRunning ==
    (pc[Boot] = "update" /\ ~ctxDone /\ Uninterrupted /\ \A p \in Procs : proc[p] # "reaped") =>
        \/ serviceState = "Running"
        \/ serviceState = "Updating" /\ \E r \in Requests : pc[Caller(r)] = "updating"
        \/ serviceState = "Failed" /\ \E r \in Requests : pc[Caller(r)] = "done"

\* The command of a process that is gone is forgotten, otherwise neither Start
\* nor Stop could ever succeed again.  Once a process was interrupted a cleaner
\* is on its way until the command is cleared, however many stops, restarts and
\* crashes come.  A process nobody interrupted is waited for by a cleaner that
\* came too late for another one, which clears it, or by a restart whose Stop
\* found nothing to stop: the one way the command is left behind for good.
ReapedIsForgotten ==
    \A p \in Procs : (serviceCmd = p /\ ~ctxDone) =>
        /\ sigs[p] > 0 => \E c \in Callers : Pending(c)
        /\ sigs[p] = 0 /\ proc[p] = "reaped" =>
              \E c \in Callers : \/ pc[Cleaner(c)] = "clean"
                                \/ pc[Restarter(c)] \in {"start", "done"}

\* What the status handler reports agrees with the command Start and Stop look
\* at: Stopped means there is none, and until the first interrupt a state that
\* promises a process means there is one.
StateMatchesCommand ==
    /\ serviceState = "Stopped" => serviceCmd = NoCmd
    /\ Uninterrupted /\ serviceState \in {"Starting", "Updating", "Running"}
          => serviceCmd # NoCmd

\* Stop can reach the goroutine that checks Bolt: the channel exists exactly
\* while the owner of spinUpMux is checking, and is never left behind.
ChannelHasChecker ==
    ~ctxDone => (cancelChan # "nil" <=>
                 /\ spinUpMux # Free
                 /\ pc[spinUpMux] \in {"poll", "cancelled", "timedOut", "connected"})

\* A process that was interrupted is eventually forgotten, so that the service
\* can be started again.
StopCompletes ==
    \A p \in Procs : (serviceCmd = p /\ sigs[p] > 0) ~> (serviceCmd # p \/ ~Up)

\* No handler hangs: the two locks, the context and the waiting for a process
\* never leave a request without an answer.
RequestsAnswered ==
    \A r \in Requests : pc[Caller(r)] # "idle" ~> (pc[Caller(r)] = "done" \/ ~Up)

=============================================================================
