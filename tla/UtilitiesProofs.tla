-------------------------- MODULE UtilitiesProofs ---------------------------
(***************************************************************************)
(* Proofs about Utilities, for any imports, status requests, utilities and *)
(* faults.  The invariant is built in four layers: the types, the table of *)
(* utilities, the causes of a leaked mutex, and the shutdown.              *)
(***************************************************************************)
EXTENDS Utilities, TLAPS

USE ThreadsAssumption

-----------------------------------------------------------------------------
(* The types.                                                              *)

\* What StartOk makes of an import is one of its processes.
LEMMA NewProcType ==
    ASSUME TypeOK, NEW i \in Imports, NEW n \in Names, CanStart(i, n)
    PROVE  NewProc(i, n) \in Procs /\ step[i] + 1 \in 0 .. MaxSteps
  BY StepsAssumption DEF TypeOK, CanStart, NewProc, Procs

LEMMA TypeInit == Init => TypeOK
<1> SUFFICES ASSUME Init PROVE TypeOK
  OBVIOUS
<1>1. DOMAIN utilsCmd = {}
  BY DEF Init
<1>2. step \in [Imports -> 0 .. MaxSteps]
  BY StepsAssumption DEF Init
<1>3. pc \in [Threads -> Labels]
  BY DEF Init, Labels
<1>4. QED
  BY <1>1, <1>2, <1>3 DEF Init, TypeOK, States

LEMMA TypeStep == TypeOK /\ [Next]_vars => TypeOK'
<1> SUFFICES ASSUME TypeOK, [Next]_vars PROVE TypeOK'
  OBVIOUS
<1> USE DEF TypeOK, service, table, procs, progress, shutdown
<1>1. CASE Serve \/ Restart
  BY <1>1 DEF Serve, Restart, States, Occurs, AllFaults
<1>2. ASSUME NEW i \in Imports, UpdateBegins(i) \/ UpdateRefused(i) PROVE TypeOK'
  BY <1>2 DEF UpdateBegins, UpdateRefused, Goto, States, Labels
<1>3. ASSUME NEW v \in Viewers, Request(v) \/ AllStates(v) PROVE TypeOK'
  BY <1>3 DEF Request, AllStates, Goto, Labels
<1>4. CASE Interrupt
  BY <1>4 DEF Interrupt, Goto, Labels, Occurs, AllFaults
<1>5. ASSUME NEW i \in Imports, Update(i) PROVE TypeOK'
  <2>1. CASE PlanFails(i) \/ StepsDone(i) \/ UpdateEnds(i)
    BY <2>1 DEF PlanFails, StepsDone, UpdateEnds, SetState, Occurs, AllFaults, Goto, States, Labels
  <2>2. ASSUME NEW n \in Names, StartRefused(i, n) PROVE TypeOK'
    BY <2>2 DEF StartRefused, Goto, Labels, Threads
  <2>3. ASSUME NEW n \in Names, StartFails(i, n) PROVE TypeOK'
    BY <2>3 DEF StartFails, Goto, Labels, Threads, Occurs, AllFaults
  <2>4. ASSUME NEW n \in Names, StartOk(i, n) PROVE TypeOK'
    <3>1. NewProc(i, n) \in Procs /\ step[i] + 1 \in 0 .. MaxSteps
      BY <2>4, NewProcType DEF StartOk
    <3>2. /\ DOMAIN utilsCmd' = DOMAIN utilsCmd \cup {n}
          /\ \A m \in DOMAIN utilsCmd' : utilsCmd'[m] \in Procs
      BY <2>4, <3>1 DEF StartOk
    <3>3. QED
      BY <2>4, <3>1, <3>2 DEF StartOk, Goto, Labels
  <2>5. CASE WaitTS(i)
    BY <2>5 DEF WaitTS, Goto, Labels
  <2>6. CASE Clean(i)
    BY <2>6 DEF Clean, Goto, Labels
  <2>7. QED  BY <1>5, <2>1, <2>2, <2>3, <2>4, <2>5, <2>6 DEF Update, StartUtility
<1>6. CASE StopAll
  BY <1>6 DEF StopAll, StopAllLocks, StopAllReturns, StopAllSignals, Goto, Labels, Threads
<1>7. CASE WaitAll
  BY <1>7 DEF WaitAll, WaitAllCopies, WaitAllReturns, WaitAllWaits, Goto, Labels, Threads
<1>8. ASSUME NEW p \in Procs, Exit(p) PROVE TypeOK'
  BY <1>8 DEF Exit
<1>9. CASE UNCHANGED vars
  BY <1>9 DEF vars
<1>10. QED
  BY <1>1, <1>2, <1>3, <1>4, <1>5, <1>6, <1>7, <1>8, <1>9 DEF Next, Step

\* Every variable keeps its type.
THEOREM UtilitiesTypeCorrect == Spec => []TypeOK
<1>1. QED  BY TypeInit, TypeStep, PTL DEF Spec

-----------------------------------------------------------------------------
(* The table.                                                              *)

\* What makes the table right: an entry is listed under its own name, it has been
\* started, an import that waits or cleans up has its process in the table, and
\* one that cleans up has waited.  Processes beyond the step of their import are
\* unused.
TableInv ==
    /\ RunningIsListed
    /\ EntryHasCleaner
    /\ \A n \in DOMAIN utilsCmd : utilsCmd[n].name = n
    /\ \A n \in DOMAIN utilsCmd : proc[utilsCmd[n]] # "unused"
    /\ \A i \in Imports : pc[i] \in {"await", "clean"} =>
          cmd[i] \in Procs /\ cmd[i].import = i /\ Registered(cmd[i])
    /\ \A i \in Imports : pc[i] = "clean" => proc[cmd[i]] = "reaped"
    /\ \A p \in Procs : proc[p] # "unused" => p.step <= step[p.import]

\* Steps that start, wait for and clean up nothing, and processes that exit.
Quiet ==
    /\ UNCHANGED <<utilsCmd, cmd, step>>
    /\ \A p \in Procs : /\ proc'[p] = proc[p] \/ proc'[p] = "reaped"
                                              \/ (proc'[p] = "exited" /\ proc[p] = "running")
                        /\ proc[p] = "reaped" => proc'[p] = "reaped"
                        /\ proc[p] = "unused" => proc'[p] = "unused"
    /\ \A i \in Imports : /\ pc[i] \in {"await", "clean"} => pc'[i] = pc[i]
                          /\ pc'[i] \in {"await", "clean"} => pc'[i] = pc[i]

LEMMA QuietSteps ==
    ASSUME TypeOK, [Next]_vars
    PROVE  \/ Quiet
           \/ \E i \in Imports : \/ \E n \in Names : StartOk(i, n)
                                 \/ WaitTS(i)
                                 \/ Clean(i)
<1> USE DEF TypeOK, Threads, service, table, procs, progress, shutdown, Quiet, Goto
<1>1. CASE Serve \/ Restart \/ Interrupt
  BY <1>1 DEF Serve, Restart, Interrupt
<1>2. ASSUME NEW i \in Imports, UpdateBegins(i) \/ UpdateRefused(i) PROVE Quiet
  BY <1>2 DEF UpdateBegins, UpdateRefused, At
<1>3. ASSUME NEW v \in Viewers, Request(v) \/ AllStates(v) PROVE Quiet
  BY <1>3 DEF Request, AllStates, Threads
<1>4. ASSUME NEW i \in Imports, PlanFails(i) \/ StepsDone(i) \/ UpdateEnds(i) PROVE Quiet
  BY <1>4 DEF PlanFails, StepsDone, UpdateEnds, At
<1>5. ASSUME NEW i \in Imports, NEW n \in Names, StartRefused(i, n) \/ StartFails(i, n) PROVE Quiet
  BY <1>5 DEF StartRefused, StartFails, CanStart, At
<1>6. CASE StopAll
  BY <1>6 DEF StopAll, StopAllLocks, StopAllReturns, StopAllSignals
<1>7. CASE WaitAll
  <2>1. ASSUME NEW p \in Procs, WaitAllWaits(p) PROVE Quiet
    BY <2>1 DEF WaitAllWaits
  <2>2. QED  BY <1>7, <2>1 DEF WaitAll, WaitAllCopies, WaitAllReturns
<1>8. ASSUME NEW p \in Procs, Exit(p) PROVE Quiet
  BY <1>8 DEF Exit, Running
<1>9. CASE UNCHANGED vars
  BY <1>9 DEF vars
<1> HIDE DEF TypeOK, Threads, service, table, procs, progress, shutdown, Quiet, Goto
<1>10. QED
  BY <1>1, <1>2, <1>3, <1>4, <1>5, <1>6, <1>7, <1>8, <1>9
     DEF Next, Step, Update, StartUtility

LEMMA TableInit == Init => TableInv
<1> SUFFICES ASSUME Init PROVE TableInv
  OBVIOUS
<1>1. DOMAIN utilsCmd = {}
  BY DEF Init
<1>2. \A i \in Imports : pc[i] = "idle"
  BY DEF Init, Threads
<1>3. \A p \in Procs : proc[p] = "unused"
  BY DEF Init
<1>4. QED
  BY <1>1, <1>2, <1>3 DEF TableInv, RunningIsListed, EntryHasCleaner, Running

LEMMA TableStep == TypeOK /\ TableInv /\ [Next]_vars => TableInv'
<1> SUFFICES ASSUME TypeOK, TableInv, [Next]_vars PROVE TableInv'
  OBVIOUS
<1> USE DEF TableInv, RunningIsListed, EntryHasCleaner, Registered, Running
<1>1. CASE Quiet
  <2>1. \A n \in DOMAIN utilsCmd : utilsCmd[n] \in Procs
    BY DEF TypeOK
  <2>2. \A p \in Procs : p.import \in Imports
    BY DEF Procs
  <2> USE <1>1 DEF Quiet
  <2>3. RunningIsListed'
    OBVIOUS
  <2>4. EntryHasCleaner' /\ \A n \in DOMAIN utilsCmd' : utilsCmd'[n].name = n
    BY <2>1, <2>2
  <2>9. \A n \in DOMAIN utilsCmd' : proc'[utilsCmd'[n]] # "unused"
    BY <2>1
  <2>5. \A i \in Imports : pc'[i] \in {"await", "clean"} =>
          cmd'[i] \in Procs /\ cmd'[i].import = i /\ Registered(cmd[i])'
    OBVIOUS
  <2>6. \A i \in Imports : pc'[i] = "clean" => proc'[cmd'[i]] = "reaped"
    OBVIOUS
  <2>7. \A p \in Procs : proc'[p] # "unused" => p.step <= step'[p.import]
    OBVIOUS
  <2>8. QED  BY <2>3, <2>4, <2>5, <2>6, <2>7, <2>9
<1>2. ASSUME NEW i \in Imports, NEW n \in Names, StartOk(i, n) PROVE TableInv'
  <2> DEFINE new == NewProc(i, n)
  <2>1. new \in Procs /\ new.import = i /\ new.name = n /\ new.step = step[i] + 1
    BY <1>2, NewProcType DEF StartOk, NewProc
  <2>2. pc[i] = "next" /\ n \notin DOMAIN utilsCmd /\ step[i] \in Nat
    BY <1>2, StepsAssumption DEF StartOk, CanStart, At, TypeOK
  <2>3. /\ proc' = [proc EXCEPT ![new] = "running"]
        /\ cmd' = [cmd EXCEPT ![i] = new]
        /\ step' = [step EXCEPT ![i] = @ + 1]
        /\ pc' = [pc EXCEPT ![i] = "await"]
        /\ DOMAIN utilsCmd' = DOMAIN utilsCmd \cup {n}
        /\ utilsCmd'[n] = new
        /\ \A m \in DOMAIN utilsCmd : utilsCmd'[m] = utilsCmd[m]
    BY <1>2, <2>2 DEF StartOk, Goto
  <2>4. proc[new] = "unused"
    <3>1. proc[new] # "unused" => new.step <= step[new.import]
      BY <2>1
    <3>2. QED  BY <2>1, <2>2, <3>1
  <2>5. \A m \in DOMAIN utilsCmd : utilsCmd[m] \in Procs /\ utilsCmd[m].import \in Imports \ {i}
    BY <2>2 DEF TypeOK, Procs
  <2>t. /\ proc \in [Procs -> {"unused", "running", "exited", "reaped"}]
        /\ cmd \in [Imports -> Procs \cup {NoCmd}]
        /\ step \in [Imports -> 0 .. MaxSteps]
        /\ pc \in [Threads -> Labels]
        /\ \A j \in Imports : j \in Threads
        /\ \A p \in Procs : p.import \in Imports /\ p.step \in Nat
    BY StepsAssumption DEF TypeOK, Threads, Procs
  <2> HIDE DEF new
  <2>6. RunningIsListed'
    BY <2>1, <2>2, <2>3, <2>t
  <2>7. EntryHasCleaner' /\ \A m \in DOMAIN utilsCmd' : utilsCmd'[m].name = m
    BY <2>1, <2>2, <2>3, <2>5, <2>t
  <2>12. \A m \in DOMAIN utilsCmd' : proc'[utilsCmd'[m]] # "unused"
    BY <2>1, <2>2, <2>3, <2>5, <2>t
  <2>8. \A j \in Imports : pc'[j] \in {"await", "clean"} =>
          cmd'[j] \in Procs /\ cmd'[j].import = j /\ Registered(cmd[j])'
    BY <2>1, <2>2, <2>3, <2>t
  <2>9. \A j \in Imports : pc'[j] = "clean" => proc'[cmd'[j]] = "reaped"
    BY <2>1, <2>2, <2>3, <2>4, <2>t
  <2>10. \A p \in Procs : proc'[p] # "unused" => p.step <= step'[p.import]
    <3>1. \A j \in Imports : step[j] \in Nat /\ step[j] <= step'[j]
      BY <2>3, <2>t, StepsAssumption
    <3>2. step'[i] = step[i] + 1
      BY <2>3, <2>t
    <3>3. new.step <= step'[new.import]
      BY <3>1, <3>2, <2>1, <2>2
    <3>4. ASSUME NEW p \in Procs, p # new, proc'[p] # "unused" PROVE p.step <= step'[p.import]
      <4>1. p.step <= step[p.import]
        BY <3>4, <2>3, <2>t
      <4>2. p.step \in Nat /\ step[p.import] \in Nat /\ step'[p.import] \in Nat
            /\ step[p.import] <= step'[p.import]
        BY <3>1, <3>2, <2>3, <2>t
      <4>3. QED  BY <4>1, <4>2
    <3>5. QED  BY <3>3, <3>4
  <2>11. QED  BY <2>6, <2>7, <2>8, <2>9, <2>10, <2>12
<1>3. ASSUME NEW i \in Imports, WaitTS(i) PROVE TableInv'
  <2>1. /\ pc[i] = "await" /\ proc[cmd[i]] # "unused" /\ cmd[i] \in Procs
        /\ proc' = [proc EXCEPT ![cmd[i]] = "reaped"]
        /\ pc' = [pc EXCEPT ![i] = "clean"]
        /\ UNCHANGED <<utilsCmd, cmd, step>>
    BY <1>3 DEF WaitTS, At, Goto, table, progress
  <2>2. /\ proc \in [Procs -> {"unused", "running", "exited", "reaped"}]
        /\ pc \in [Threads -> Labels]
        /\ \A j \in Imports : j \in Threads
        /\ \A n \in DOMAIN utilsCmd : utilsCmd[n] \in Procs
        /\ \A p \in Procs : p.import \in Imports
    BY DEF TypeOK, Threads, Procs
  <2>3. QED  BY <2>1, <2>2
<1>4. ASSUME NEW i \in Imports, Clean(i) PROVE TableInv'
  <2> DEFINE gone == cmd[i].name
  <2>1. /\ pc[i] = "clean" /\ cmd[i] \in Procs /\ proc[cmd[i]] = "reaped"
        /\ Registered(cmd[i])
        /\ DOMAIN utilsCmd' = DOMAIN utilsCmd \ {gone}
        /\ \A m \in DOMAIN utilsCmd' : utilsCmd'[m] = utilsCmd[m]
        /\ \E l \in {"next", "end"} : pc' = [pc EXCEPT ![i] = l]
        /\ UNCHANGED <<proc, cmd, step>>
    BY <1>4 DEF Clean, At, Goto, procs, progress
  <2>2. /\ pc \in [Threads -> Labels]
        /\ \A j \in Imports : j \in Threads
        /\ \A n \in DOMAIN utilsCmd : utilsCmd[n] \in Procs
        /\ \A p \in Procs : p.import \in Imports
    BY DEF TypeOK, Threads, Procs
  <2>3. \A j \in Imports \ {i} : pc[j] \in {"await", "clean"} => cmd[j].name # gone
    <3>1. ASSUME NEW j \in Imports \ {i}, pc[j] \in {"await", "clean"}, cmd[j].name = gone
          PROVE  FALSE
      <4>1. utilsCmd[gone] = cmd[j] /\ utilsCmd[gone] = cmd[i]
        BY <2>1, <3>1
      <4>2. cmd[j].import = j /\ cmd[i].import = i
        BY <2>1, <3>1
      <4>3. QED  BY <4>1, <4>2
    <3>2. QED  BY <3>1
  <2>4. RunningIsListed'
    BY <2>1, <2>2
  <2>5. EntryHasCleaner' /\ \A n \in DOMAIN utilsCmd' : utilsCmd'[n].name = n
    <3>1. \A n \in DOMAIN utilsCmd' : utilsCmd[n].import # i
      BY <2>1, <2>2
    <3>2. QED  BY <2>1, <2>2, <3>1
  <2>6. QED  BY <2>1, <2>2, <2>3, <2>4, <2>5
<1>5. QED
  BY <1>1, <1>2, <1>3, <1>4, QuietSteps

\* Every utility that runs is in the table under its name.
THEOREM NoHiddenUtility == Spec => []RunningIsListed
<1>1. TableInv => RunningIsListed
  BY DEF TableInv
<1>2. QED  BY <1>1, TypeInit, TypeStep, TableInit, TableStep, PTL DEF Spec

\* Every entry of the table has an import that will delete it.
THEOREM NoStaleEntry == Spec => []EntryHasCleaner
<1>1. TableInv => EntryHasCleaner
  BY DEF TableInv
<1>2. QED  BY <1>1, TypeInit, TypeStep, TableInit, TableStep, PTL DEF Spec

-----------------------------------------------------------------------------
(* The leak.                                                               *)
Active == {i \in Imports : pc[i] \in {"next", "await", "clean", "end"}}

\* As long as Neo4j is not restarted under an import, an active import is alone
\* and the service is Updating.
Alone == "restart" \notin happened =>
            \A i \in Active : serviceState = "Updating" /\ Active = {i}

LeakInv == Alone /\ LeakNeedsFault

LEMMA LeakInit == Init => LeakInv
  BY DEF Init, LeakInv, Alone, Active, LeakNeedsFault, Leaked, Threads

LEMMA LeakStep == TypeOK /\ TableInv /\ LeakInv /\ [Next]_vars => LeakInv'
<1> SUFFICES ASSUME TypeOK, TableInv, LeakInv, [Next]_vars PROVE LeakInv'
  OBVIOUS
<1> DEFINE busy == {"next", "await", "clean", "end"}
<1>t. /\ pc \in [Threads -> Labels]
      /\ Imports \subseteq Threads
      /\ Main \notin Imports
      /\ \A v \in Viewers : v \notin Imports
      /\ \A n \in DOMAIN utilsCmd : utilsCmd[n].import \in Imports
  BY DEF TypeOK, Threads, Procs
<1> USE DEF LeakInv, Alone, Active, LeakNeedsFault, Leaked, Goto, At
<1>1. CASE Serve \/ Restart
  BY <1>1, <1>t DEF Serve, Restart, Occurs, table, shutdown
<1>2. ASSUME NEW i \in Imports, UpdateBegins(i) \/ UpdateRefused(i) PROVE LeakInv'
  BY <1>2, <1>t DEF UpdateBegins, UpdateRefused, service, table
<1>3. ASSUME NEW v \in Viewers, Request(v) \/ AllStates(v) PROVE LeakInv'
  BY <1>3, <1>t DEF Request, AllStates, service, table
<1>4. CASE Interrupt
  BY <1>4, <1>t DEF Interrupt, Occurs, table
<1>5. ASSUME NEW i \in Imports, Update(i) PROVE LeakInv'
  <2>1. CASE PlanFails(i)
    BY <2>1, <1>t DEF PlanFails, SetState, Occurs, table
  <2>2. CASE StepsDone(i) \/ UpdateEnds(i)
    BY <2>2, <1>t DEF StepsDone, UpdateEnds, SetState, service, table
  <2>3. ASSUME NEW n \in Names, StartRefused(i, n) PROVE LeakInv'
    <3>1. pc[i] = "next" /\ n \in DOMAIN utilsCmd
      BY <2>3 DEF StartRefused, CanStart
    <3>2. PICK j \in Imports : pc[j] \in {"await", "clean"}
      BY <3>1, <1>t DEF TableInv, EntryHasCleaner
    <3>3. i \in Active /\ j \in Active /\ i # j
      BY <3>1, <3>2
    <3>4. "restart" \in happened
      BY <3>3
    <3>5. QED  BY <2>3, <3>4, <1>t DEF StartRefused, service
  <2>4. ASSUME NEW n \in Names, StartFails(i, n) PROVE LeakInv'
    BY <2>4, <1>t DEF StartFails, CanStart, Occurs
  <2>5. ASSUME NEW n \in Names, StartOk(i, n) PROVE LeakInv'
    BY <2>5, <1>t DEF StartOk, CanStart, service
  <2>6. CASE WaitTS(i) \/ Clean(i)
    BY <2>6, <1>t DEF WaitTS, Clean, service, table
  <2>7. QED  BY <1>5, <2>1, <2>2, <2>3, <2>4, <2>5, <2>6 DEF Update, StartUtility
<1>6. CASE StopAll
  BY <1>6, <1>t DEF StopAll, StopAllLocks, StopAllReturns, StopAllSignals, service, table
<1>7. CASE WaitAll
  BY <1>7, <1>t DEF WaitAll, WaitAllCopies, WaitAllReturns, WaitAllWaits, service, table
<1>8. ASSUME NEW p \in Procs, Exit(p) PROVE LeakInv'
  BY <1>8 DEF Exit, service, table
<1>9. CASE UNCHANGED vars
  BY <1>9 DEF vars, service, table
<1>10. QED
  BY <1>1, <1>2, <1>3, <1>4, <1>5, <1>6, <1>7, <1>8, <1>9 DEF Next, Step

\* The mutex leaks only when a utility cannot be executed or Neo4j is restarted
\* under an import.
THEOREM LeaksHaveCauses == Spec => []LeakNeedsFault
<1>1. LeakInv => LeakNeedsFault
  BY DEF LeakInv
<1>2. QED
  BY <1>1, TypeInit, TypeStep, TableInit, TableStep, LeakInit, LeakStep, PTL DEF Spec

-----------------------------------------------------------------------------
(* The shutdown.                                                           *)

\* Nothing is interrupted before StopAll locks.  While it signals it holds the
\* mutex, so what it has to signal stays in the table; what ran when it locked is
\* signalled already or still to be.  What ran when WaitAll copied the table has
\* exited or is still to be waited for.
ShutdownInv ==
    /\ \A p \in old : p \in Procs /\ proc[p] # "unused"
    /\ pc[Main] \in {"run", "stopAll"} => sent = {}
    /\ pc[Main] = "signal" =>
          /\ utilsMux = Main
          /\ todo \subseteq old /\ todo \cap sent = {}
          /\ \A p \in old : Running(p) => p \in todo \/ p \in sent
    /\ pc[Main] = "waiting" => \A p \in old : Running(p) => p \in todo
    /\ StopAllInterrupts
    /\ OrphansAreLate

LEMMA ShutdownInit == Init => ShutdownInv
  BY DEF Init, ShutdownInv, StopAllInterrupts, OrphansAreLate, Threads

LEMMA ShutdownStep ==
    TypeOK /\ TableInv /\ ShutdownInv /\ [Next]_vars => ShutdownInv'
<1> SUFFICES ASSUME TypeOK, TableInv, ShutdownInv, [Next]_vars PROVE ShutdownInv'
  OBVIOUS
<1>t. /\ pc \in [Threads -> Labels]
      /\ proc \in [Procs -> {"unused", "running", "exited", "reaped"}]
      /\ Imports \subseteq Threads /\ Viewers \subseteq Threads /\ Main \in Threads
      /\ Main \notin Imports /\ Main \notin Viewers /\ Main # Free
      /\ todo \subseteq Procs /\ old \subseteq Procs
  BY DEF TypeOK, Threads
<1> USE DEF ShutdownInv, StopAllInterrupts, OrphansAreLate, Up, Goto, At, Running
<1>1. CASE Serve \/ Restart
  BY <1>1, <1>t DEF Serve, Restart, Occurs, table, procs, shutdown, Registered
<1>2. ASSUME NEW i \in Imports, UpdateBegins(i) \/ UpdateRefused(i) PROVE ShutdownInv'
  BY <1>2, <1>t DEF UpdateBegins, UpdateRefused, service, table, procs, shutdown, Registered
<1>3. ASSUME NEW v \in Viewers, Request(v) \/ AllStates(v) PROVE ShutdownInv'
  BY <1>3, <1>t DEF Request, AllStates, service, table, procs, shutdown, Registered
<1>4. CASE Interrupt
  BY <1>4, <1>t DEF Interrupt, Occurs, table, procs, Registered
<1>5. ASSUME NEW i \in Imports, Update(i) PROVE ShutdownInv'
  <2>1. CASE PlanFails(i)
    BY <2>1, <1>t DEF PlanFails, Occurs, table, procs, shutdown, Registered
  <2>2. CASE StepsDone(i) \/ UpdateEnds(i)
    BY <2>2, <1>t DEF StepsDone, UpdateEnds, service, table, procs, shutdown, Registered
  <2>3. ASSUME NEW n \in Names, StartRefused(i, n) \/ StartFails(i, n) PROVE ShutdownInv'
    BY <2>3, <1>t
       DEF StartRefused, StartFails, CanStart, Occurs, service, procs, shutdown, Registered
  <2>4. ASSUME NEW n \in Names, StartOk(i, n) PROVE ShutdownInv'
    <3> DEFINE new == NewProc(i, n)
    <3>1. new \in Procs /\ step[i] \in Nat
      BY <2>4, NewProcType, StepsAssumption DEF StartOk, TypeOK
    <3>2. proc[new] = "unused"
      <4>1. proc[new] # "unused" => step[i] + 1 <= step[i]
        BY <3>1 DEF TableInv, NewProc
      <4>2. QED  BY <3>1, <4>1
    <3>3. proc' = [proc EXCEPT ![new] = "running"] /\ new \notin old
      BY <2>4, <3>2 DEF StartOk
    <3>4. pc[Main] # "signal" /\ pc' = [pc EXCEPT ![i] = "await"]
          /\ UNCHANGED <<happened, sent, todo, old>>
      BY <2>4, <1>t DEF StartOk, CanStart, service, shutdown
    <3> HIDE DEF new
    <3>5. QED  BY <3>1, <3>3, <3>4, <1>t
  <2>5. CASE WaitTS(i)
    <3>1. cmd[i] \in Procs
      BY <2>5 DEF WaitTS, TableInv
    <3>2. QED  BY <2>5, <3>1, <1>t DEF WaitTS, service, table, shutdown, Registered
  <2>6. CASE Clean(i)
    BY <2>6, <1>t DEF Clean, service, procs, shutdown
  <2>7. QED  BY <1>5, <2>1, <2>2, <2>3, <2>4, <2>5, <2>6 DEF Update, StartUtility
<1>6. CASE StopAll
  <2>1. CASE StopAllLocks
    <3>1. \A p \in Procs : Running(p) => Registered(p) /\ p \in todo'
      BY <2>1 DEF StopAllLocks, TableInv, RunningIsListed, Registered
    <3>2. \A p \in todo' : p \in Procs /\ Registered(p)
      BY <2>1 DEF StopAllLocks, TableInv, Registered, TypeOK
    <3>3. \A p \in old' : p \in Procs /\ proc[p] # "unused"
      BY <2>1 DEF StopAllLocks, TableInv, Registered
    <3>4. todo' \subseteq old' /\ sent' = {}
      BY <2>1, <3>2 DEF StopAllLocks, procs
    <3>5. QED  BY <2>1, <3>1, <3>3, <3>4, <1>t DEF StopAllLocks, service, procs
  <2>2. ASSUME NEW p \in Procs, StopAllSignals(p) PROVE ShutdownInv'
    BY <2>2, <1>t DEF StopAllSignals, service, table
  <2>3. CASE StopAllReturns
    <3>1. ASSUME NEW p \in old, Running(p), p \notin sent
          PROVE  \E q \in old \ {p} : proc[q] = "reaped" /\ q \notin sent
      <4>1. p \in todo
        BY <2>3, <3>1 DEF StopAllReturns
      <4>2. PICK q \in todo : proc[q] = "reaped"
        BY <2>3, <4>1 DEF StopAllReturns
      <4>3. q \in old /\ q \notin sent /\ q # p
        BY <2>3, <3>1, <4>2 DEF StopAllReturns
      <4>4. QED  BY <4>2, <4>3
    <3>2. QED  BY <2>3, <3>1, <1>t DEF StopAllReturns, service, procs
  <2>4. QED  BY <1>6, <2>1, <2>2, <2>3 DEF StopAll
<1>7. CASE WaitAll
  <2>1. CASE WaitAllCopies
    <3>1. \A p \in Procs : Running(p) => p \in todo'
      BY <2>1 DEF WaitAllCopies, TableInv, RunningIsListed, Registered
    <3>2. \A p \in old' : p \in Procs /\ proc[p] # "unused"
      BY <2>1 DEF WaitAllCopies, TableInv, Registered
    <3>3. QED  BY <2>1, <3>1, <3>2, <1>t DEF WaitAllCopies, service, procs
  <2>2. ASSUME NEW p \in Procs, WaitAllWaits(p) PROVE ShutdownInv'
    BY <2>2, <1>t DEF WaitAllWaits, service, table
  <2>3. CASE WaitAllReturns
    BY <2>3, <1>t DEF WaitAllReturns, service, procs, shutdown
  <2>4. QED  BY <1>7, <2>1, <2>2, <2>3 DEF WaitAll
<1>8. ASSUME NEW p \in Procs, Exit(p) PROVE ShutdownInv'
  BY <1>8, <1>t DEF Exit, service, table, shutdown, Registered
<1>9. CASE UNCHANGED vars
  BY <1>9 DEF vars, service, table, procs, shutdown, Registered
<1>10. QED
  BY <1>1, <1>2, <1>3, <1>4, <1>5, <1>6, <1>7, <1>8, <1>9 DEF Next, Step

LEMMA ShutdownInvariant == Spec => []ShutdownInv
BY TypeInit, TypeStep, TableInit, TableStep, ShutdownInit, ShutdownStep, PTL DEF Spec

\* StopAll interrupts every utility that runs when it locks the table, up to the
\* first whose process was waited for meanwhile; imports may overlap.
THEOREM ShutdownReachesAll == Spec => []StopAllInterrupts
<1>1. ShutdownInv => StopAllInterrupts
  BY DEF ShutdownInv
<1>2. QED  BY <1>1, ShutdownInvariant, PTL

\* WaitAll waits for every utility that runs when it copies the table: the program
\* is outlived only by one that was started later.
THEOREM OrphansComeLate == Spec => []OrphansAreLate
<1>1. ShutdownInv => OrphansAreLate
  BY DEF ShutdownInv
<1>2. QED  BY <1>1, ShutdownInvariant, PTL

=============================================================================
