--------------------------- MODULE ServiceProofs ----------------------------
(***************************************************************************)
(* More proofs about Neo4jWrapper: what the state of the service and the   *)
(* channel of the Bolt checks say, for any number of requests, any set of  *)
(* end points and faults and any limit on the checks.                      *)
(***************************************************************************)
EXTENDS Neo4jWrapperProofs

-----------------------------------------------------------------------------
(* Where each goroutine can be.                                            *)

\* The labels of WaitForNeo4j under spinUpMux.
MuxLabels == {"look", "arm", "poll", "cancelled", "timedOut", "connected", "peek"}

RequestLabels == {"idle", "start", "stop", "restart", "status", "update", "reply",
                  "updating", "done"}
MainLabels    == {"start", "spawn", "run", "close", "stopAll", "waitAll", "await", "done"}
WaiterLabels  == MuxLabels \cup {"idle", "spinUp", "done"}

LabelsOf(t) ==
    CASE t[1] = "waiter"    -> WaiterLabels
      [] t[1] = "cleaner"   -> {"idle", "read", "await", "clean", "done"}
      [] t[1] = "restarter" -> {"idle", "wait", "await", "start", "done"}
      [] t[1] = "bootstrap" -> IF t = Boot THEN WaiterLabels \cup {"update", "updating"}
                               ELSE {"idle"}
      [] t[1] = "caller"    -> IF t = MainThread THEN MainLabels ELSE RequestLabels

InPlace == \A t \in Threads : pc[t] \in LabelsOf(t)

LEMMA ThreadRoles ==
    /\ \A t \in Threads : t = <<t[1], t[2]>> /\ t[1] \in Roles /\ t[2] \in Callers
    /\ \A c \in Callers : /\ Caller(c)[1] = "caller" /\ Caller(c)[2] = c
                          /\ Waiter(c)[1] = "waiter" /\ Waiter(c)[2] = c
                          /\ Cleaner(c)[1] = "cleaner" /\ Cleaner(c)[2] = c
                          /\ Restarter(c)[1] = "restarter" /\ Restarter(c)[2] = c
    /\ MainThread[1] = "caller" /\ MainThread[2] = Main
    /\ Boot[1] = "bootstrap"
    /\ \A t \in Threads : /\ t[1] = "caller" => t = Caller(t[2])
                          /\ t[1] = "waiter" => t = Waiter(t[2])
                          /\ t[1] = "cleaner" => t = Cleaner(t[2])
                          /\ t[1] = "restarter" => t = Restarter(t[2])
  BY DEF Threads, Roles, Caller, Waiter, Cleaner, Restarter, MainThread, Boot

\* Which goroutine can be where, read from the labels.
LEMMA Places ==
    ASSUME InPlace, NEW t \in Threads
    PROVE  /\ pc[t] \in MuxLabels \cup {"spinUp"} => t[1] = "waiter" \/ t = Boot
           /\ pc[t] \in {"read", "clean"} => t[1] = "cleaner"
           /\ pc[t] = "await" => t[1] \in {"cleaner", "restarter"} \/ t = MainThread
           /\ pc[t] = "start" => t[1] \in {"restarter", "caller"}
           /\ pc[t] = "wait" => t[1] = "restarter"
           /\ pc[t] \in {"spawn", "run", "close", "stopAll", "waitAll"} => t = MainThread
           /\ pc[t] \in {"stop", "restart", "status", "reply"} => t[1] = "caller" /\ t # MainThread
           /\ pc[t] \in {"update", "updating"} => t = Boot \/ (t[1] = "caller" /\ t # MainThread)
  BY ThreadRoles DEF InPlace, LabelsOf, WaiterLabels, MuxLabels, MainLabels, RequestLabels, Roles

LEMMA InitInPlace == Init => InPlace
  BY ThreadRoles DEF Init, InPlace, LabelsOf, WaiterLabels, MainLabels, RequestLabels, Roles

\* One goroutine moves, and none is spawned.
LEMMA MoveInPlace ==
    ASSUME TypeOK, InPlace, NEW t \in Threads, NEW label, Goto(t, label), label \in LabelsOf(t)
    PROVE  InPlace'
  BY DEF TypeOK, InPlace, Goto, LabelsOf

LEMMA StepInPlace == TypeOK /\ InPlace /\ [Next]_vars => InPlace'
<1> SUFFICES ASSUME TypeOK, InPlace, [Next]_vars PROVE InPlace'
  OBVIOUS
<1> USE DEF At, Goto
<1>1. ASSUME UNCHANGED pc PROVE InPlace'
  BY <1>1 DEF InPlace, LabelsOf
<1>2. ASSUME NEW t \in Threads, Start(t) PROVE InPlace'
  <2>1. t[1] \in {"restarter", "caller"} /\ pc[t] = "start"
    BY <1>2, Places DEF Start, StartBusy, StartRefused, StartFails, StartOk
  <2>2. \A ok \in BOOLEAN : AfterStart(t, ok) \in LabelsOf(t)
    BY <2>1, ThreadRoles DEF AfterStart, LabelsOf, MainLabels, RequestLabels
  <2>3. CASE StartBusy(t) \/ StartRefused(t) \/ StartFails(t)
    BY <2>2, <2>3, MoveInPlace DEF StartBusy, StartRefused, StartFails
  <2>4. CASE StartOk(t)
    <3>1. "spinUp" \in LabelsOf(Waiter(t[2]))
      BY ThreadRoles DEF LabelsOf, WaiterLabels
    <3>2. pc' = [pc EXCEPT ![t] = AfterStart(t, TRUE), ![Waiter(t[2])] = "spinUp"]
      BY <2>4 DEF StartOk
    <3>3. \A u \in Threads : pc'[u] \in LabelsOf(u)
      BY <2>2, <3>1, <3>2, ThreadTypes DEF TypeOK, InPlace
    <3>4. QED  BY <3>3 DEF InPlace, LabelsOf
  <2>5. QED  BY <1>2, <2>3, <2>4 DEF Start
<1>3. ASSUME NEW t \in Threads, Stop(t) PROVE InPlace'
  <2>1. pc[t] \in StopLabels /\ t[1] = "caller" /\ (pc[t] = "stopAll" <=> t = MainThread)
    <3>1. pc[t] \in StopLabels
      BY <1>3 DEF Stop, StopNoContext, StopIgnored, StopNothing, StopTooLate, StopSignals,
                  InStop, StopLabels
    <3>2. QED  BY <3>1, Places, ThreadRoles DEF StopLabels
  <2>2. /\ \A ok \in BOOLEAN : AfterStop(t, ok) \in LabelsOf(t)
        /\ "wait" \in LabelsOf(Restarter(t[2]))
        /\ "read" \in LabelsOf(Cleaner(t[2]))
    BY <2>1, ThreadRoles DEF AfterStop, LabelsOf, MainLabels, RequestLabels
  <2>3. CASE StopNoContext(t) \/ StopIgnored(t) \/ StopNothing(t) \/ StopTooLate(t)
    <3>1. PICK ok \in BOOLEAN : StopReturns(t, ok)
      BY <2>3 DEF StopNoContext, StopIgnored, StopNothing, StopTooLate
    <3>2. \A u \in Threads : pc'[u] \in LabelsOf(u)
      BY <2>2, <3>1, ThreadTypes DEF StopReturns, TypeOK, InPlace
    <3>3. QED  BY <3>2 DEF InPlace, LabelsOf
  <2>4. CASE StopSignals(t)
    <3>1. \A u \in Threads : pc'[u] \in LabelsOf(u)
      BY <2>2, <2>4, ThreadTypes DEF StopSignals, TypeOK, InPlace
    <3>2. QED  BY <3>1 DEF InPlace, LabelsOf
  <2>5. QED  BY <1>3, <2>3, <2>4 DEF Stop
<1>4. ASSUME NEW t \in Threads, Clean(t) PROVE InPlace'
  <2>1. {"await", "done"} \subseteq LabelsOf(t)
    BY <1>4, Places
       DEF Clean, CleanerPanics, CleanerReads, CleanerGivesUp, CleanerCleans, LabelsOf
  <2>2. UNCHANGED pc \/ Goto(t, "await") \/ Goto(t, "done")
    BY <1>4 DEF Clean, CleanerPanics, CleanerReads, CleanerGivesUp, CleanerCleans
  <2>3. QED  BY <1>1, <2>1, <2>2, MoveInPlace
<1>5. ASSUME NEW t \in Threads, Wait(t) PROVE InPlace'
  <2>1. /\ t[1] \in {"cleaner", "restarter"} \/ t = MainThread
        /\ \E label \in {"done", "await", AfterAwait(t)} : Goto(t, label)
    BY <1>5, Places DEF Wait, WaitNoContext, WaitCopies, WaitTS, WaitLabels
  <2>2. {"done", "await", AfterAwait(t)} \subseteq LabelsOf(t)
    BY <2>1, ThreadRoles DEF LabelsOf, AfterAwait, MainLabels
  <2>3. QED  BY <2>1, <2>2, MoveInPlace
<1>6. ASSUME NEW t \in Threads, WaitForNeo4j(t) PROVE InPlace'
  <2>1. /\ t[1] = "waiter" \/ t = Boot
        /\ \/ UNCHANGED pc
           \/ \E label \in MuxLabels \cup {"done"} : Goto(t, label)
           \/ \E ok \in BOOLEAN : Goto(t, AfterSpinUp(t, ok))
    <3>1. pc[t] \in MuxLabels \cup {"spinUp"}
      BY <1>6 DEF WaitForNeo4j, LockSpinUp, SpinUpNoContext, Look, Arm, PollCancelled, PollQuits,
                  PollConnects, PollMisses, PollEnds, Peek, MuxLabels
    <3>2. t[1] = "waiter" \/ t = Boot
      BY <3>1, Places
    <3>3. CASE PollEnds(t) \/ Peek(t) \/ PollMisses(t)
      BY <3>2, <3>3 DEF PollEnds, Peek, PollMisses
    <3>4. CASE ~(PollEnds(t) \/ Peek(t) \/ PollMisses(t))
      BY <1>6, <3>2, <3>4
         DEF WaitForNeo4j, LockSpinUp, SpinUpNoContext, Look, Arm, PollCancelled, PollQuits,
             PollConnects, MuxLabels
    <3>5. QED  BY <3>3, <3>4
  <2>2. /\ MuxLabels \cup {"done"} \subseteq LabelsOf(t)
        /\ \A ok \in BOOLEAN : AfterSpinUp(t, ok) \in LabelsOf(t)
    BY <2>1, ThreadRoles DEF LabelsOf, WaiterLabels, AfterSpinUp
  <2>3. QED  BY <1>1, <2>1, <2>2, MoveInPlace
<1>7. ASSUME NEW t \in Threads, Update(t) \/ State(t) PROVE InPlace'
  <2>1. /\ t = Boot \/ (t[1] = "caller" /\ t # MainThread)
        /\ \/ Goto(t, "done")
           \/ pc[t] = "update" /\ Goto(t, "updating")
           \/ pc[t] = "status" /\ Goto(t, "reply")
    BY <1>7, Places
       DEF Update, UpdateNoContext, UpdateRefused, UpdateBegins, UpdateEnds, State
  <2>2. /\ "done" \in LabelsOf(t) /\ "updating" \in LabelsOf(t)
        /\ pc[t] = "status" => "reply" \in LabelsOf(t)
    BY <2>1, Places, ThreadRoles DEF LabelsOf, WaiterLabels, RequestLabels
  <2>3. QED  BY <2>1, <2>2, MoveInPlace
<1>8. ASSUME NEW r \in Requests, Arrive(r) PROVE InPlace'
  <2>1. Ops \subseteq LabelsOf(Caller(r)) /\ Caller(r) \in Threads
    BY NamesAssumption, OpsAssumption, ThreadTypes, ThreadRoles
       DEF AllOps, LabelsOf, RequestLabels, Callers
  <2>2. QED  BY <1>8, <2>1, MoveInPlace DEF Arrive
<1>9. CASE MainStep \/ Signal
  <2>1. LabelsOf(MainThread) = MainLabels /\ "spinUp" \in LabelsOf(Boot) /\ Boot # MainThread
    BY ThreadRoles DEF LabelsOf, WaiterLabels
  <2>2. CASE SpawnBootstrap
    <3>1. pc' = [pc EXCEPT ![MainThread] = "run", ![Boot] = "spinUp"]
      BY <2>2 DEF SpawnBootstrap
    <3>2. \A u \in Threads : pc'[u] \in LabelsOf(u)
      BY <2>1, <3>1, ThreadTypes DEF TypeOK, InPlace, MainLabels
    <3>3. QED  BY <3>2 DEF InPlace, LabelsOf
  <2>3. CASE CloseServer \/ Interrupt
    BY <2>1, <2>3, MoveInPlace, ThreadTypes DEF CloseServer, Interrupt, MainLabels
  <2>4. QED  BY <1>9, <2>2, <2>3 DEF MainStep, Signal
<1>10. ASSUME UNCHANGED vars \/ (\E t \in Threads : Release(t))
              \/ (\E p \in Procs : Serve(p) \/ Obey(p) \/ Crash(p))
       PROVE  InPlace'
  BY <1>1, <1>10 DEF Release, Serve, Obey, Crash, Exit, vars
<1>11. QED
  BY <1>2, <1>3, <1>4, <1>5, <1>6, <1>7, <1>8, <1>9, <1>10 DEF Next, Step

-----------------------------------------------------------------------------
(* A caller starts at most one process, and each goroutine is spawned once. *)

StartsOnce ==
    /\ \A c \in Callers :
         /\ proc[c] # "unused" \/ pc[Waiter(c)] # "idle" \/ pc[Restarter(c)] # "idle"
               => pc[Caller(c)] \notin {"idle", "start", "restart"}
         /\ proc[c] # "unused" \/ pc[Waiter(c)] # "idle"
               => pc[Restarter(c)] \in {"idle", "done"}
    /\ pc[Boot] # "idle" => pc[MainThread] \notin {"start", "spawn"}

LEMMA InitStartsOnce == Init => StartsOnce
  BY ThreadTypes, ThreadRoles DEF Init, StartsOnce, Procs

\* A goroutine that runs moves forward, and no process is started.
LEMMA MoveStartsOnce ==
    ASSUME TypeOK, StartsOnce, NEW t \in Threads, NEW label, Goto(t, label),
           pc[t] \notin {"idle", "done"},
           t[1] = "caller" => label \notin {"idle", "start", "restart"},
           t = MainThread /\ label = "spawn" => pc[t] = "start",
           \A p \in Procs : proc[p] = "unused" => proc'[p] = "unused"
    PROVE  StartsOnce'
<1>1. \A u \in Threads : pc'[u] = IF u = t THEN label ELSE pc[u]
  BY DEF TypeOK, Goto
<1> USE ThreadTypes, ThreadRoles
<1>2. ASSUME NEW c \in Callers
      PROVE  /\ proc'[c] # "unused" \/ pc'[Waiter(c)] # "idle" \/ pc'[Restarter(c)] # "idle"
                   => pc'[Caller(c)] \notin {"idle", "start", "restart"}
             /\ proc'[c] # "unused" \/ pc'[Waiter(c)] # "idle"
                   => pc'[Restarter(c)] \in {"idle", "done"}
  <2>1. /\ proc'[c] # "unused" => proc[c] # "unused"
        /\ pc'[Waiter(c)] # "idle" => pc[Waiter(c)] # "idle"
        /\ pc'[Restarter(c)] # "idle" => pc[Restarter(c)] # "idle"
    BY <1>1 DEF Procs
  <2>2. \/ pc'[Caller(c)] \notin {"idle", "start", "restart"}
        \/ pc'[Caller(c)] = pc[Caller(c)]
    BY <1>1
  <2>3. \/ pc'[Restarter(c)] = pc[Restarter(c)]
        \/ pc[Restarter(c)] \notin {"idle", "done"}
    BY <1>1
  <2>4. QED  BY <2>1, <2>2, <2>3 DEF StartsOnce
<1>3. pc'[Boot] # "idle" => pc'[MainThread] \notin {"start", "spawn"}
  BY <1>1 DEF StartsOnce
<1>4. QED  BY <1>2, <1>3 DEF StartsOnce, Waiter, Restarter, Caller, Boot, MainThread

LEMMA StepStartsOnce ==
    TypeOK /\ InPlace /\ StartsOnce /\ [Next]_vars => StartsOnce'
<1> SUFFICES ASSUME TypeOK, InPlace, StartsOnce, [Next]_vars PROVE StartsOnce'
  OBVIOUS
<1> USE DEF At, os
<1>1. ASSUME UNCHANGED pc, \A p \in Procs : proc[p] = "unused" => proc'[p] = "unused"
      PROVE  StartsOnce'
  BY <1>1 DEF StartsOnce, Waiter, Restarter, Caller, Boot, MainThread, Procs
<1>2. ASSUME NEW t \in Threads, Start(t) PROVE StartsOnce'
  <2>1. t[1] \in {"restarter", "caller"} /\ pc[t] = "start"
    BY <1>2, Places DEF Start, StartBusy, StartRefused, StartFails, StartOk
  <2>2. \A ok \in BOOLEAN : AfterStart(t, ok) \notin {"idle", "start", "restart"}
    BY DEF AfterStart
  <2>3. CASE StartBusy(t) \/ StartRefused(t) \/ StartFails(t)
    BY <2>1, <2>2, <2>3, MoveStartsOnce DEF StartBusy, StartRefused, StartFails
  <2>4. CASE StartOk(t)
    <3> DEFINE a == t[2]
    <3>1. a \in Callers /\ (t = Caller(a) \/ t = Restarter(a))
      BY <2>1, ThreadTypes, ThreadRoles
    <3>2. /\ \A u \in Threads : pc'[u] = IF u = Waiter(a) THEN "spinUp"
                                         ELSE IF u = t THEN AfterStart(t, TRUE) ELSE pc[u]
          /\ \A p \in Procs : proc'[p] = IF p = a THEN "booting" ELSE proc[p]
      BY <2>4, <3>1, ThreadTypes DEF StartOk, TypeOK, Procs
    <3>3. /\ t = MainThread => AfterStart(t, TRUE) = "spawn"
          /\ t = Caller(a) => AfterStart(t, TRUE) \in {"spawn", "reply"}
          /\ t = Restarter(a) => AfterStart(t, TRUE) = "done"
      BY <3>1, ThreadRoles DEF AfterStart
    <3> HIDE DEF a
    <3>0. \A c \in Callers :
            /\ {Waiter(c), Restarter(c), Caller(c)} \subseteq Threads
            /\ Waiter(c) # Restarter(c) /\ Waiter(c) # Caller(c) /\ Restarter(c) # Caller(c)
            /\ Restarter(c) # Waiter(a) /\ Caller(c) # Waiter(a) /\ Waiter(c) # t
            /\ c # a => Waiter(c) # Waiter(a) /\ Restarter(c) # t /\ Caller(c) # t
      BY <3>1, ThreadTypes, ThreadRoles
    <3>4. ASSUME NEW c \in Callers
          PROVE  /\ proc'[c] # "unused" \/ pc'[Waiter(c)] # "idle" \/ pc'[Restarter(c)] # "idle"
                       => pc'[Caller(c)] \notin {"idle", "start", "restart"}
                 /\ proc'[c] # "unused" \/ pc'[Waiter(c)] # "idle"
                       => pc'[Restarter(c)] \in {"idle", "done"}
      <4>1. CASE c = a
        <5>1. CASE t = Caller(a)
          <6>1. /\ pc'[Caller(a)] \in {"spawn", "reply"} /\ pc'[Restarter(a)] = pc[Restarter(a)]
                /\ pc[Caller(a)] = "start"
            BY <2>1, <3>1, <3>2, <3>3, <3>0, <5>1
          <6>2. pc[Restarter(a)] = "idle"
            BY <3>1, <6>1 DEF StartsOnce
          <6>3. QED  BY <4>1, <6>1, <6>2
        <5>2. CASE t = Restarter(a)
          <6>1. /\ pc'[Restarter(a)] = "done" /\ pc'[Caller(a)] = pc[Caller(a)]
                /\ pc[Restarter(a)] = "start"
            BY <2>1, <3>1, <3>2, <3>3, <3>0, <5>2
          <6>2. pc[Caller(a)] \notin {"idle", "start", "restart"}
            BY <3>1, <6>1 DEF StartsOnce
          <6>3. QED  BY <4>1, <6>1, <6>2
        <5>3. QED  BY <3>1, <5>1, <5>2
      <4>2. CASE c # a
        <5>1. /\ pc'[Waiter(c)] = pc[Waiter(c)]
              /\ pc'[Restarter(c)] = pc[Restarter(c)]
              /\ pc'[Caller(c)] = pc[Caller(c)]
              /\ proc'[c] = proc[c]
          BY <3>2, <3>0, <4>2 DEF Procs
        <5>2. QED  BY <5>1 DEF StartsOnce
      <4>3. QED  BY <4>1, <4>2
    <3>5. pc'[Boot] # "idle" => pc'[MainThread] \notin {"start", "spawn"}
      BY <2>1, <3>1, <3>2, <3>3, ThreadTypes, ThreadRoles DEF StartsOnce
    <3>6. QED  BY <3>4, <3>5 DEF StartsOnce, Waiter, Restarter, Caller, Boot, MainThread
  <2>5. QED  BY <1>2, <2>3, <2>4 DEF Start
<1>3. ASSUME NEW t \in Threads, Stop(t) PROVE StartsOnce'
  <2> DEFINE a == t[2]
  <2>1. pc[t] \in StopLabels /\ a \in Callers /\ t = Caller(a)
    <3>1. pc[t] \in StopLabels
      BY <1>3 DEF Stop, StopNoContext, StopIgnored, StopNothing, StopTooLate, StopSignals,
                  InStop, StopLabels
    <3>2. t[1] = "caller"
      BY <3>1, Places, ThreadRoles DEF StopLabels
    <3>3. QED  BY <3>1, <3>2, ThreadTypes, ThreadRoles
  <2>2. PICK ok \in BOOLEAN :
          \A u \in Threads :
             pc'[u] = IF u = t THEN AfterStop(t, ok)
                      ELSE IF u = Restarter(a) /\ pc[t] = "restart" THEN "wait"
                      ELSE IF u = Cleaner(a) THEN pc'[u] ELSE pc[u]
    <3>1. Restarter(a) # t /\ Cleaner(a) # t /\ Restarter(a) # Cleaner(a)
      BY <2>1, ThreadRoles
    <3>2. CASE StopNoContext(t) \/ StopIgnored(t) \/ StopNothing(t) \/ StopTooLate(t)
      <4>1. PICK ok \in BOOLEAN : StopReturns(t, ok)
        BY <3>2 DEF StopNoContext, StopIgnored, StopNothing, StopTooLate
      <4>2. QED  BY <3>1, <4>1 DEF StopReturns, TypeOK
    <3>3. CASE StopSignals(t)
      BY <3>1, <3>3 DEF StopSignals, TypeOK
    <3>4. QED  BY <1>3, <3>2, <3>3 DEF Stop
  <2>3. proc' = proc
    BY <1>3 DEF Stop, StopNoContext, StopIgnored, StopNothing, StopTooLate, StopSignals
  <2>4. AfterStop(t, ok) \in {"waitAll", "reply", "done"}
    BY DEF AfterStop
  <2> HIDE DEF a
  <2>5. ASSUME NEW c \in Callers
        PROVE  /\ proc'[c] # "unused" \/ pc'[Waiter(c)] # "idle" \/ pc'[Restarter(c)] # "idle"
                     => pc'[Caller(c)] \notin {"idle", "start", "restart"}
               /\ proc'[c] # "unused" \/ pc'[Waiter(c)] # "idle"
                     => pc'[Restarter(c)] \in {"idle", "done"}
    <3>1. pc'[Waiter(c)] = pc[Waiter(c)]
      BY <2>1, <2>2, ThreadTypes, ThreadRoles
    <3>2. CASE c = a
      BY <2>1, <2>2, <2>3, <2>4, <3>1, <3>2, ThreadTypes, ThreadRoles DEF StartsOnce
    <3>3. CASE c # a
      <4>1. pc'[Restarter(c)] = pc[Restarter(c)] /\ pc'[Caller(c)] = pc[Caller(c)]
        BY <2>1, <2>2, <3>3, ThreadTypes, ThreadRoles
      <4>2. QED  BY <2>3, <3>1, <4>1 DEF StartsOnce
    <3>4. QED  BY <3>2, <3>3
  <2>6. pc'[Boot] # "idle" => pc'[MainThread] \notin {"start", "spawn"}
    BY <2>1, <2>2, <2>4, ThreadTypes, ThreadRoles DEF StartsOnce
  <2>7. QED  BY <2>5, <2>6 DEF StartsOnce, Waiter, Restarter, Caller, Boot, MainThread
<1>4. ASSUME NEW t \in Threads, Clean(t) \/ Wait(t) PROVE StartsOnce'
  <2>1. /\ pc[t] \in {"read", "clean", "wait", "waitAll", "await"}
        /\ \A p \in Procs : proc[p] = "unused" => proc'[p] = "unused"
        /\ UNCHANGED pc \/ \E label \in {"done", "await", "clean", AfterAwait(t)} : Goto(t, label)
    <3>1. CASE Clean(t)
      BY <3>1 DEF Clean, CleanerPanics, CleanerReads, CleanerGivesUp, CleanerCleans
    <3>2. CASE WaitTS(t)
      BY <3>2 DEF WaitTS, TypeOK
    <3>3. CASE WaitNoContext(t) \/ WaitCopies(t)
      BY <3>3 DEF WaitNoContext, WaitCopies, WaitLabels
    <3>4. QED  BY <1>4, <3>1, <3>2, <3>3 DEF Wait
  <2>2. t[1] = "caller" => AfterAwait(t) \notin {"idle", "start", "restart"}
    BY DEF AfterAwait
  <2>3. AfterAwait(t) # "spawn"
    BY DEF AfterAwait
  <2>4. QED  BY <1>1, <2>1, <2>2, <2>3, MoveStartsOnce
<1>5. ASSUME NEW t \in Threads, WaitForNeo4j(t) PROVE StartsOnce'
  <2>1. pc[t] \in MuxLabels \cup {"spinUp"} /\ proc' = proc
    BY <1>5 DEF WaitForNeo4j, LockSpinUp, SpinUpNoContext, Look, Arm, PollCancelled, PollQuits,
                PollConnects, PollMisses, PollEnds, Peek, MuxLabels
  <2>2. t[1] # "caller" /\ t # MainThread
    BY <2>1, Places, ThreadRoles
  <2>3. UNCHANGED pc \/ \E label \in Labels : Goto(t, label)
    <3>1. \A ok \in BOOLEAN : AfterSpinUp(t, ok) \in Labels
      BY LabelTypes
    <3>2. CASE PollEnds(t) \/ Peek(t) \/ PollMisses(t)
      BY <3>1, <3>2 DEF PollEnds, Peek, PollMisses
    <3>3. CASE ~(PollEnds(t) \/ Peek(t) \/ PollMisses(t))
      BY <1>5, <3>3
         DEF WaitForNeo4j, LockSpinUp, SpinUpNoContext, Look, Arm, PollCancelled, PollQuits,
             PollConnects, Labels
    <3>4. QED  BY <3>2, <3>3
  <2>4. QED  BY <1>1, <2>1, <2>2, <2>3, MoveStartsOnce DEF MuxLabels
<1>6. ASSUME NEW t \in Threads, Update(t) \/ State(t) PROVE StartsOnce'
  <2>1. /\ pc[t] \in {"update", "updating", "status", "reply"}
        /\ \E label \in {"done", "updating", "reply"} : Goto(t, label)
        /\ proc' = proc
    BY <1>6 DEF Update, UpdateNoContext, UpdateRefused, UpdateBegins, UpdateEnds, State
  <2>2. QED  BY <2>1, MoveStartsOnce
<1>7. ASSUME NEW r \in Requests, Arrive(r) PROVE StartsOnce'
  <2>1. r \in Callers /\ Caller(r) \in Threads /\ Caller(r) # MainThread
    BY NamesAssumption, ThreadTypes, ThreadRoles DEF Callers
  <2>2. /\ pc[Caller(r)] = "idle" /\ proc' = proc
        /\ \E op \in Ops : \A u \in Threads : pc'[u] = IF u = Caller(r) THEN op ELSE pc[u]
    BY <1>7, <2>1 DEF Arrive, Goto, TypeOK
  <2>3. ASSUME NEW c \in Callers
        PROVE  /\ proc'[c] # "unused" \/ pc'[Waiter(c)] # "idle" \/ pc'[Restarter(c)] # "idle"
                     => pc'[Caller(c)] \notin {"idle", "start", "restart"}
               /\ proc'[c] # "unused" \/ pc'[Waiter(c)] # "idle"
                     => pc'[Restarter(c)] \in {"idle", "done"}
    <3>1. pc'[Waiter(c)] = pc[Waiter(c)] /\ pc'[Restarter(c)] = pc[Restarter(c)]
      BY <2>1, <2>2, ThreadTypes, ThreadRoles
    <3>2. pc'[Caller(c)] = pc[Caller(c)] \/ pc[Caller(c)] = "idle"
      BY <2>2, ThreadTypes
    <3>3. QED  BY <2>2, <3>1, <3>2 DEF StartsOnce
  <2>4. pc'[Boot] = pc[Boot] /\ pc'[MainThread] = pc[MainThread]
    BY <2>1, <2>2, ThreadTypes, ThreadRoles
  <2>5. QED  BY <2>3, <2>4 DEF StartsOnce, Waiter, Restarter, Caller, Boot, MainThread
<1>8. CASE MainStep \/ Signal
  <2>1. CASE SpawnBootstrap
    <3>1. /\ \A u \in Threads : pc'[u] = IF u = Boot THEN "spinUp"
                                         ELSE IF u = MainThread THEN "run" ELSE pc[u]
          /\ pc[MainThread] = "spawn"
          /\ proc' = proc
      BY <2>1, ThreadTypes, ThreadRoles DEF SpawnBootstrap, TypeOK
    <3>2. QED
      BY <3>1, ThreadTypes, ThreadRoles
         DEF StartsOnce, Waiter, Restarter, Caller, Boot, MainThread, Roles
  <2>2. CASE CloseServer \/ Interrupt
    BY <2>2, MoveStartsOnce, ThreadTypes DEF CloseServer, Interrupt
  <2>3. QED  BY <1>8, <2>1, <2>2 DEF MainStep, Signal
<1>9. ASSUME UNCHANGED vars \/ (\E t \in Threads : Release(t)) PROVE StartsOnce'
  BY <1>1, <1>9 DEF Release, vars
<1>10. ASSUME NEW p \in Procs, Serve(p) \/ Obey(p) \/ Crash(p) PROVE StartsOnce'
  BY <1>1, <1>10 DEF Serve, Obey, Crash, Exit, Alive, TypeOK
<1>11. QED
  BY <1>2, <1>3, <1>4, <1>5, <1>6, <1>7, <1>8, <1>9, <1>10 DEF Next, Step

-----------------------------------------------------------------------------
(* The mutex of the Bolt checks and the channel that cancels them.         *)

MuxOwned == \A t \in Threads : pc[t] \in MuxLabels <=> spinUpMux = t

\* What a step outside WaitForNeo4j leaves alone.
MuxFrame ==
    /\ \A t \in Threads : \/ pc'[t] = pc[t]
                          \/ pc[t] \notin MuxLabels /\ pc'[t] \notin MuxLabels
    /\ spinUpMux' = spinUpMux
    /\ cancelChan' = "nil" <=> cancelChan = "nil"
    /\ ctxDone => ctxDone'

LEMMA OthersKeepMux ==
    ASSUME TypeOK, InPlace, StartsOnce, [Next]_vars,
           \A t \in Threads : ~WaitForNeo4j(t)
    PROVE  MuxFrame
<1> USE DEF At, Goto, SendCancel, bolt
<1>1. ASSUME NEW t \in Threads, Start(t) PROVE MuxFrame
  <2>1. t[1] \in {"restarter", "caller"} /\ pc[t] = "start"
    BY <1>1, Places DEF Start, StartBusy, StartRefused, StartFails, StartOk
  <2>2. \A ok \in BOOLEAN : AfterStart(t, ok) \notin MuxLabels
    BY DEF AfterStart, MuxLabels
  <2>3. CASE StartBusy(t) \/ StartRefused(t) \/ StartFails(t)
    BY <2>1, <2>2, <2>3 DEF StartBusy, StartRefused, StartFails, MuxFrame, TypeOK, MuxLabels
  <2>4. CASE StartOk(t)
    <3>1. pc[Waiter(t[2])] = "idle" /\ Waiter(t[2]) \in Threads
      BY <2>1, ThreadTypes, ThreadRoles DEF StartsOnce
    <3>2. \A u \in Threads :
             pc'[u] = IF u = Waiter(t[2]) THEN "spinUp"
                      ELSE IF u = t THEN AfterStart(t, TRUE) ELSE pc[u]
      BY <2>4, <3>1 DEF StartOk, TypeOK
    <3>3. AfterStart(t, TRUE) \notin MuxLabels
      BY <2>2
    <3>4. \A u \in Threads : \/ pc'[u] = pc[u]
                             \/ pc[u] \notin MuxLabels /\ pc'[u] \notin MuxLabels
      BY <2>1, <3>1, <3>2, <3>3 DEF MuxLabels
    <3>5. QED  BY <2>4, <3>4 DEF StartOk, MuxFrame
  <2>5. QED  BY <1>1, <2>3, <2>4 DEF Start
<1>2. ASSUME NEW t \in Threads, Stop(t) PROVE MuxFrame
  <2>1. pc[t] \in StopLabels
    BY <1>2 DEF Stop, StopNoContext, StopIgnored, StopNothing, StopTooLate, StopSignals,
                InStop, StopLabels
  <2>2. \A ok \in BOOLEAN : AfterStop(t, ok) \notin MuxLabels
    BY DEF AfterStop, MuxLabels
  <2>3. \A c \in Callers : pc[Restarter(c)] \notin MuxLabels /\ pc[Cleaner(c)] \notin MuxLabels
    BY ThreadTypes, ThreadRoles, Places
  <2>4. \A u \in Threads : \/ pc'[u] = pc[u]
                           \/ pc[u] \notin MuxLabels /\ pc'[u] \notin MuxLabels
    <3>1. CASE StopNoContext(t) \/ StopIgnored(t) \/ StopNothing(t) \/ StopTooLate(t)
      <4>1. PICK ok \in BOOLEAN : StopReturns(t, ok)
        BY <3>1 DEF StopNoContext, StopIgnored, StopNothing, StopTooLate
      <4>2. QED
        BY <2>1, <2>2, <2>3, <4>1, ThreadTypes DEF StopReturns, TypeOK, MuxLabels, StopLabels
    <3>2. CASE StopSignals(t)
      BY <2>1, <2>2, <2>3, <3>2, ThreadTypes DEF StopSignals, TypeOK, MuxLabels, StopLabels
    <3>3. QED  BY <1>2, <3>1, <3>2 DEF Stop
  <2>5. /\ spinUpMux' = spinUpMux /\ ctxDone' = ctxDone
        /\ cancelChan' = "nil" <=> cancelChan = "nil"
    BY <1>2 DEF Stop, StopNoContext, StopIgnored, StopNothing, StopTooLate, StopSignals
  <2>6. QED  BY <2>4, <2>5 DEF MuxFrame
<1>3. ASSUME NEW t \in Threads, Clean(t) \/ Wait(t) PROVE MuxFrame
  <2>1. /\ pc[t] \in {"read", "clean", "wait", "waitAll", "await"}
        /\ UNCHANGED pc \/ \E label \in {"done", "await", "clean", AfterAwait(t)} : Goto(t, label)
        /\ spinUpMux' = spinUpMux /\ ctxDone' = ctxDone /\ cancelChan' = cancelChan
    <3>1. CASE Clean(t)
      BY <3>1 DEF Clean, CleanerPanics, CleanerReads, CleanerGivesUp, CleanerCleans
    <3>2. CASE Wait(t)
      BY <3>2 DEF Wait, WaitTS, WaitNoContext, WaitCopies, WaitLabels
    <3>3. QED  BY <1>3, <3>1, <3>2
  <2>2. {"done", "await", "clean", AfterAwait(t)} \cap MuxLabels = {}
    BY DEF AfterAwait, MuxLabels
  <2>3. QED  BY <2>1, <2>2 DEF MuxFrame, MuxLabels, TypeOK
<1>4. ASSUME NEW t \in Threads, Update(t) \/ State(t) PROVE MuxFrame
  <2>1. /\ pc[t] \in {"update", "updating", "status", "reply"}
        /\ \E label \in {"done", "updating", "reply"} : Goto(t, label)
        /\ spinUpMux' = spinUpMux /\ ctxDone' = ctxDone /\ cancelChan' = cancelChan
    BY <1>4 DEF Update, UpdateNoContext, UpdateRefused, UpdateBegins, UpdateEnds, State
  <2>2. QED  BY <2>1 DEF MuxFrame, MuxLabels, TypeOK
<1>5. ASSUME NEW r \in Requests, Arrive(r) PROVE MuxFrame
  BY <1>5, OpsAssumption DEF Arrive, MuxFrame, MuxLabels, TypeOK, AllOps
<1>6. CASE MainStep \/ Signal
  <2>1. CASE SpawnBootstrap
    <3>1. pc[Boot] = "idle" /\ pc[MainThread] = "spawn"
      BY <2>1 DEF SpawnBootstrap, StartsOnce
    <3>2. QED  BY <2>1, <3>1 DEF SpawnBootstrap, MuxFrame, MuxLabels, TypeOK
  <2>2. CASE CloseServer \/ Interrupt
    BY <2>2 DEF CloseServer, Interrupt, MuxFrame, MuxLabels, TypeOK
  <2>3. QED  BY <1>6, <2>1, <2>2 DEF MainStep, Signal
<1>7. ASSUME UNCHANGED vars \/ (\E t \in Threads : Release(t)) PROVE MuxFrame
  BY <1>7 DEF Release, vars, MuxFrame
<1>8. ASSUME NEW p \in Procs, Serve(p) \/ Obey(p) \/ Crash(p) PROVE MuxFrame
  BY <1>8 DEF Serve, Obey, Crash, Exit, MuxFrame
<1>9. QED
  BY <1>1, <1>2, <1>3, <1>4, <1>5, <1>6, <1>7, <1>8 DEF Next, Step

LEMMA FrameKeepsMux == MuxOwned /\ MuxFrame => MuxOwned'
  BY DEF MuxOwned, MuxFrame

LEMMA FrameKeepsChannel ==
    ASSUME TypeOK, MuxOwned, ChannelHasChecker, MuxFrame
    PROVE  ChannelHasChecker'
<1>1. spinUpMux # Free => spinUpMux \in Threads /\ pc[spinUpMux] \in MuxLabels
  BY DEF TypeOK, MuxOwned
<1>2. spinUpMux # Free => pc'[spinUpMux] = pc[spinUpMux]
  BY <1>1 DEF MuxFrame
<1>3. QED  BY <1>2 DEF MuxFrame, ChannelHasChecker

\* The channel belongs to the owner of the mutex, step by step.
LEMMA CheckerSteps ==
    ASSUME TypeOK, InPlace, MuxOwned, ChannelHasChecker, NEW t \in Threads, WaitForNeo4j(t)
    PROVE  MuxOwned' /\ ChannelHasChecker'
<1> USE DEF At, Goto, Acquire, AcquireFails, bolt
<1>1. t # Free
  BY NamesAssumption
<1>2. ASSUME NEW label \in MuxLabels, pc[t] \in MuxLabels, Goto(t, label),
             UNCHANGED <<spinUpMux, ctxDone>>,
             cancelChan' # "nil" <=>
                \/ ctxDone /\ cancelChan # "nil"
                \/ label \in {"poll", "cancelled", "timedOut", "connected"}
      PROVE  MuxOwned' /\ ChannelHasChecker'
  <2>1. spinUpMux = t /\ \A u \in Threads : pc'[u] = IF u = t THEN label ELSE pc[u]
    BY <1>2 DEF MuxOwned, TypeOK
  <2>2. MuxOwned'
    BY <1>2, <2>1 DEF MuxOwned
  <2>3. ChannelHasChecker'
    BY <1>1, <1>2, <2>1 DEF ChannelHasChecker
  <2>4. QED  BY <2>2, <2>3
<1>3. ASSUME NEW label \in Labels \ MuxLabels, pc[t] \in MuxLabels, Goto(t, label),
             spinUpMux' = Free, ctxDone' = ctxDone, ~ctxDone => cancelChan' = "nil"
      PROVE  MuxOwned' /\ ChannelHasChecker'
  <2>1. spinUpMux = t /\ \A u \in Threads : pc'[u] = IF u = t THEN label ELSE pc[u]
    BY <1>3 DEF MuxOwned, TypeOK
  <2>2. MuxOwned'
    BY <1>3, <2>1, NamesAssumption DEF MuxOwned
  <2>3. ChannelHasChecker'
    BY <1>3 DEF ChannelHasChecker
  <2>4. QED  BY <2>2, <2>3
<1>4. CASE LockSpinUp(t)
  <2>1. spinUpMux = Free /\ spinUpMux' = t
        /\ \A u \in Threads : pc'[u] = IF u = t THEN "look" ELSE pc[u]
    BY <1>4 DEF LockSpinUp, TypeOK
  <2>2. MuxOwned'
    BY <2>1, NamesAssumption DEF MuxOwned, MuxLabels
  <2>3. ChannelHasChecker'
    BY <1>1, <1>4, <2>1 DEF LockSpinUp, ChannelHasChecker
  <2>4. QED  BY <2>2, <2>3
<1>5. CASE SpinUpNoContext(t)
  BY <1>3, <1>5 DEF SpinUpNoContext, MuxLabels, Labels
<1>6. CASE Look(t)
  <2>1. ~ctxDone => cancelChan = "nil"
    BY <1>6 DEF Look, ChannelHasChecker, MuxOwned, MuxLabels
  <2>2. QED  BY <1>2, <1>6, <2>1 DEF Look, MuxLabels
<1>7. CASE Arm(t)
  BY <1>2, <1>7 DEF Arm, MuxLabels
<1>8. CASE PollCancelled(t) \/ PollQuits(t) \/ PollConnects(t)
  <2>1. ~ctxDone => cancelChan # "nil"
    BY <1>1, <1>8
       DEF PollCancelled, PollQuits, PollConnects, ChannelHasChecker, MuxOwned, MuxLabels
  <2>2. CASE cancelChan' # "nil"
    BY <1>2, <1>8, <2>2 DEF PollCancelled, PollQuits, PollConnects, MuxLabels
  <2>3. CASE cancelChan' = "nil"
    <3>1. ctxDone /\ ctxDone'
      BY <1>8, <2>1, <2>3 DEF PollCancelled, PollQuits, PollConnects, TypeOK
    <3>2. ChannelHasChecker'
      BY <3>1 DEF ChannelHasChecker
    <3>3. PICK label \in MuxLabels : Goto(t, label)
      BY <1>8 DEF PollCancelled, PollQuits, PollConnects, MuxLabels
    <3>4. pc[t] \in MuxLabels /\ spinUpMux' = spinUpMux
      BY <1>8 DEF PollCancelled, PollQuits, PollConnects, MuxLabels
    <3>5. MuxOwned'
      BY <3>3, <3>4 DEF MuxOwned, TypeOK
    <3>6. QED  BY <3>2, <3>5
  <2>4. QED  BY <2>2, <2>3
<1>9. CASE PollMisses(t)
  BY <1>9 DEF PollMisses, MuxOwned, ChannelHasChecker
<1>10. CASE PollEnds(t)
  <2>1. pc[t] \in MuxLabels
    BY <1>10 DEF PollEnds, MuxLabels
  <2>2. PICK ok \in BOOLEAN : Goto(t, AfterSpinUp(t, ok))
    BY <1>10 DEF PollEnds
  <2>3. AfterSpinUp(t, ok) \in Labels \ MuxLabels
    BY DEF AfterSpinUp, Labels, MuxLabels
  <2>4. QED  BY <1>3, <1>10, <2>1, <2>2, <2>3 DEF PollEnds
<1>11. CASE Peek(t)
  <2>1. pc[t] \in MuxLabels /\ (~ctxDone => cancelChan = "nil")
    BY <1>1, <1>11 DEF Peek, ChannelHasChecker, MuxOwned, MuxLabels
  <2>2. PICK ok \in BOOLEAN : Goto(t, AfterSpinUp(t, ok))
    BY <1>11 DEF Peek
  <2>3. AfterSpinUp(t, ok) \in Labels \ MuxLabels
    BY DEF AfterSpinUp, Labels, MuxLabels
  <2>4. QED  BY <1>3, <1>11, <2>1, <2>2, <2>3 DEF Peek
<1>12. QED
  BY <1>4, <1>5, <1>6, <1>7, <1>8, <1>9, <1>10, <1>11 DEF WaitForNeo4j

LEMMA ChannelInvariant == Spec => [](InPlace /\ StartsOnce /\ MuxOwned /\ ChannelHasChecker)
<1> DEFINE Inv == InPlace /\ StartsOnce /\ MuxOwned /\ ChannelHasChecker
<1>1. Init => Inv
  <2>1. Init => MuxOwned /\ ChannelHasChecker
    BY NamesAssumption DEF Init, MuxOwned, MuxLabels, ChannelHasChecker
  <2>2. QED  BY <2>1, InitInPlace, InitStartsOnce
<1>2. TypeOK /\ Inv /\ [Next]_vars => Inv'
  <2> SUFFICES ASSUME TypeOK, Inv, [Next]_vars PROVE MuxOwned' /\ ChannelHasChecker'
    BY StepInPlace, StepStartsOnce
  <2>1. CASE \E t \in Threads : WaitForNeo4j(t)
    BY <2>1, CheckerSteps
  <2>2. CASE \A t \in Threads : ~WaitForNeo4j(t)
    BY <2>2, OthersKeepMux, FrameKeepsMux, FrameKeepsChannel
  <2>3. QED  BY <2>1, <2>2
<1>3. Inv => InPlace /\ StartsOnce /\ MuxOwned /\ ChannelHasChecker
  OBVIOUS
<1> HIDE DEF Inv
<1>4. QED  BY <1>1, <1>2, <1>3, TypeCorrect, PTL DEF Spec

\* While the root context lives, cancelWaitingChan exists exactly as long as the
\* goroutine that owns spinUpMux is checking Bolt: a Stop can always reach the
\* checks, and never leaves its message for a later start.
THEOREM ChecksCanBeCancelled == Spec => []ChannelHasChecker
BY ChannelInvariant, PTL

-----------------------------------------------------------------------------
(* The state of the service until the first interrupt.                     *)

Checking == {"arm", "poll", "cancelled", "timedOut", "connected"}

Unreaped == \A p \in Procs : proc[p] # "reaped"

\* Whoever checks Bolt found the state Starting, whoever updates found it
\* Running, and each of them has it until he is done: Start is refused because
\* there is a command, and nobody is there to clear the command.
OwnerInv ==
    /\ serviceState = "Stopped" => serviceCmd = NoCmd
    /\ Uninterrupted =>
         /\ serviceState \in {"Starting", "Updating", "Running"} => serviceCmd # NoCmd
         /\ \A t \in Threads : pc[t] \in Checking => serviceState = "Starting"
         /\ \A t \in Threads : pc[t] = "updating" =>
              /\ serviceState = "Updating"
              /\ \A u \in Threads : pc[u] = "updating" => u = t

BootInv ==
    Uninterrupted =>
        /\ Unreaped => cancelChan # "full" /\ \A t \in Threads : pc[t] # "cancelled"
        /\ pc[Boot] = "update" => serviceCmd # NoCmd
        /\ BootFindsRunning

\* The steps that change the state, the command, or who checks Bolt.
Loud(t) == \/ StartFails(t) \/ StartOk(t) \/ StopSignals(t) \/ CleanerCleans(t)
           \/ Look(t) \/ PollEnds(t) \/ UpdateBegins(t) \/ UpdateEnds(t)

\* What every other step leaves alone.
Quiet ==
    /\ serviceState' = serviceState /\ serviceCmd' = serviceCmd
    /\ sigs' = sigs
    /\ ctxDone => ctxDone'
    /\ Unreaped' => Unreaped
    /\ Unreaped' /\ cancelChan' = "full" => cancelChan = "full"
    /\ \A t \in Threads :
         /\ pc'[t] \in Checking => pc[t] \in Checking
         /\ pc'[t] = "updating" => pc[t] = "updating"
         /\ pc'[t] = "cancelled" => pc[t] = "cancelled" \/ cancelChan = "full"
    /\ pc'[Boot] = "update" => pc[Boot] = "update" \/ serviceState = "Running"
    /\ ~ctxDone => \A r \in Requests :
                      pc[Caller(r)] \in {"updating", "done"} => pc'[Caller(r)] = pc[Caller(r)]

LEMMA QuietKeeps ==
    ASSUME OwnerInv, BootInv, Quiet
    PROVE  OwnerInv' /\ BootInv'
<1>1. Uninterrupted' => Uninterrupted
  BY DEF Quiet, Uninterrupted
<1>2. OwnerInv'
  BY <1>1 DEF OwnerInv, Quiet
<1>3. BootInv'
  <2> SUFFICES ASSUME Uninterrupted'
               PROVE  /\ Unreaped' => /\ cancelChan' # "full"
                                      /\ \A t \in Threads : pc'[t] # "cancelled"
                      /\ pc'[Boot] = "update" => serviceCmd' # NoCmd
                      /\ BootFindsRunning'
    BY DEF BootInv, Boot
  <2>1. Unreaped' => cancelChan' # "full" /\ \A t \in Threads : pc'[t] # "cancelled"
    BY <1>1 DEF BootInv, Quiet
  <2>2. pc'[Boot] = "update" => serviceCmd' # NoCmd
    BY <1>1 DEF BootInv, OwnerInv, Quiet
  <2>3. BootFindsRunning'
    <3> SUFFICES ASSUME pc'[Boot] = "update", ~ctxDone', Unreaped'
                 PROVE  \/ serviceState' = "Running"
                        \/ /\ serviceState' = "Updating"
                           /\ \E r \in Requests : pc'[Caller(r)] = "updating"
                        \/ /\ serviceState' = "Failed"
                           /\ \E r \in Requests : pc'[Caller(r)] = "done"
      BY DEF BootFindsRunning, Unreaped, Boot, Caller
    <3>1. ~ctxDone /\ Unreaped /\ (pc[Boot] = "update" \/ serviceState = "Running")
      BY DEF Quiet
    <3>2. \/ serviceState = "Running"
          \/ serviceState = "Updating" /\ \E r \in Requests : pc[Caller(r)] = "updating"
          \/ serviceState = "Failed" /\ \E r \in Requests : pc[Caller(r)] = "done"
      BY <1>1, <3>1 DEF BootInv, BootFindsRunning, Unreaped
    <3>3. QED  BY <3>1, <3>2 DEF Quiet
  <2>4. QED  BY <2>1, <2>2, <2>3
<1>4. QED  BY <1>2, <1>3

\* One goroutine moves between labels that say nothing about the state.
LEMMA MoveIsQuiet ==
    ASSUME TypeOK, NEW t \in Threads, NEW label, Goto(t, label),
           label \notin Checking \cup {"updating", "update"},
           pc[t] # "done", ~ctxDone => pc[t] # "updating",
           UNCHANGED <<serviceState, serviceCmd, sigs>>, ctxDone => ctxDone',
           Unreaped' => Unreaped,
           Unreaped' /\ cancelChan' = "full" => cancelChan = "full"
    PROVE  Quiet
<1>1. \A u \in Threads : pc'[u] = IF u = t THEN label ELSE pc[u]
  BY DEF TypeOK, Goto
<1>2. \A u \in Threads :
         /\ pc'[u] \in Checking => pc[u] \in Checking
         /\ pc'[u] = "updating" => pc[u] = "updating"
         /\ pc'[u] = "cancelled" => pc[u] = "cancelled" \/ cancelChan = "full"
         /\ pc'[u] = "update" => pc[u] = "update"
  BY <1>1 DEF Checking
<1>3. ~ctxDone => \A u \in Threads : pc[u] \in {"updating", "done"} => pc'[u] = pc[u]
  BY <1>1
<1>4. QED  BY <1>2, <1>3, ThreadTypes DEF Quiet, Callers

LEMMA OthersAreQuiet ==
    ASSUME TypeOK, InPlace, StartsOnce, [Next]_vars, \A t \in Threads : ~Loud(t)
    PROVE  Quiet
<1> USE DEF At, Acquire, AcquireFails, service, bolt, os, Unreaped
<1>1. ASSUME UNCHANGED pc, UNCHANGED <<serviceState, serviceCmd, sigs, cancelChan, ctxDone>>,
             Unreaped' => Unreaped
      PROVE  Quiet
  BY <1>1 DEF Quiet
<1>2. ASSUME NEW t \in Threads, StartBusy(t) \/ StartRefused(t) PROVE Quiet
  <2>1. AfterStart(t, FALSE) \in {"spawn", "done"}
    BY DEF AfterStart
  <2>2. /\ pc[t] = "start" /\ Goto(t, AfterStart(t, FALSE))
        /\ UNCHANGED <<serviceState, serviceCmd, sigs, cancelChan, ctxDone, proc>>
    BY <1>2 DEF StartBusy, StartRefused
  <2>3. QED  BY <2>1, <2>2, MoveIsQuiet DEF Checking
<1>3. ASSUME NEW t \in Threads,
             StopNoContext(t) \/ StopIgnored(t) \/ StopNothing(t) \/ StopTooLate(t)
      PROVE  Quiet
  <2>1. pc[t] \in StopLabels
    BY <1>3 DEF StopNoContext, StopIgnored, StopNothing, StopTooLate, InStop, StopLabels
  <2>2. t[1] = "caller" /\ t = Caller(t[2]) /\ t # Boot
    BY <2>1, Places, ThreadRoles DEF StopLabels
  <2>3. PICK ok \in BOOLEAN : StopReturns(t, ok)
    BY <1>3 DEF StopNoContext, StopIgnored, StopNothing, StopTooLate
  <2>4. AfterStop(t, ok) \in {"waitAll", "reply", "done"}
    BY DEF AfterStop
  <2>5. \A u \in Threads : pc'[u] \in {pc[u], "waitAll", "reply", "done", "wait"}
    BY <2>3, <2>4 DEF StopReturns, TypeOK
  <2>6. \A r \in Requests : Caller(r) # t => pc'[Caller(r)] = pc[Caller(r)]
    BY <2>2, <2>3, ThreadTypes, ThreadRoles DEF StopReturns, TypeOK, Callers
  <2>7. /\ UNCHANGED <<serviceState, serviceCmd, sigs, ctxDone, proc>>
        /\ Unreaped' /\ cancelChan' = "full" => cancelChan = "full"
    BY <1>3 DEF StopNoContext, StopIgnored, StopNothing, StopTooLate, SendCancel, TypeOK
  <2>8. \A u \in Threads :
           /\ pc'[u] \in Checking => pc[u] \in Checking
           /\ pc'[u] = "updating" => pc[u] = "updating"
           /\ pc'[u] = "cancelled" => pc[u] = "cancelled"
           /\ pc'[u] = "update" => pc[u] = "update"
    BY <2>5 DEF Checking
  <2>9. QED  BY <2>1, <2>6, <2>7, <2>8, ThreadTypes DEF Quiet, StopLabels
<1>4. ASSUME NEW t \in Threads, Clean(t) PROVE Quiet
  BY <1>1, <1>4, MoveIsQuiet
     DEF Clean, CleanerPanics, CleanerReads, CleanerGivesUp, Loud, Checking
<1>5. ASSUME NEW t \in Threads, Wait(t) PROVE Quiet
  <2>1. AfterAwait(t) \in {"clean", "start", "done"}
    BY DEF AfterAwait
  <2>2. CASE WaitTS(t)
    <3>1. Unreaped' => Unreaped
      BY <2>2 DEF WaitTS, TypeOK
    <3>2. QED  BY <2>1, <2>2, <3>1, MoveIsQuiet DEF WaitTS, Checking
  <2>3. CASE WaitNoContext(t) \/ WaitCopies(t)
    BY <2>1, <2>3, MoveIsQuiet DEF WaitNoContext, WaitCopies, WaitLabels, Checking
  <2>4. QED  BY <1>5, <2>2, <2>3 DEF Wait
<1>6. ASSUME NEW t \in Threads, WaitForNeo4j(t) PROVE Quiet
  <2> USE DEF Checking
  <2>1. CASE LockSpinUp(t) \/ SpinUpNoContext(t)
    BY <2>1, MoveIsQuiet DEF LockSpinUp, SpinUpNoContext
  <2>2. ASSUME NEW label \in Checking, pc[t] \in Checking, Goto(t, label),
               label = "cancelled" => cancelChan = "full",
               UNCHANGED <<serviceState, serviceCmd, sigs, ctxDone, proc>>,
               cancelChan' = "full" => cancelChan = "full"
        PROVE  Quiet
    <3>1. \A u \in Threads : pc'[u] = IF u = t THEN label ELSE pc[u]
      BY <2>2 DEF Goto, TypeOK
    <3>2. QED  BY <2>2, <3>1, ThreadTypes DEF Quiet, Callers
  <2>3. CASE Arm(t) \/ PollCancelled(t) \/ PollQuits(t) \/ PollConnects(t)
    BY <2>2, <2>3 DEF Arm, PollCancelled, PollQuits, PollConnects
  <2>4. CASE PollMisses(t)
    BY <1>1, <2>4 DEF PollMisses
  <2>5. CASE Peek(t)
    <3>1. \A u \in Threads :
             pc'[u] = IF u = t THEN AfterSpinUp(t, serviceState = "Running") ELSE pc[u]
      BY <2>5 DEF Peek, Goto, TypeOK
    <3>2. /\ AfterSpinUp(t, serviceState = "Running") \in {"update", "done"}
          /\ AfterSpinUp(t, serviceState = "Running") = "update" => serviceState = "Running"
      BY DEF AfterSpinUp
    <3>3. pc[t] = "peek"
      BY <2>5 DEF Peek
    <3>4. QED  BY <2>5, <3>1, <3>2, <3>3, ThreadTypes DEF Peek, Quiet, Callers
  <2>6. QED  BY <1>6, <2>1, <2>3, <2>4, <2>5 DEF WaitForNeo4j, Loud
<1>7. ASSUME NEW t \in Threads, Update(t) \/ State(t) PROVE Quiet
  BY <1>7, MoveIsQuiet
     DEF Update, UpdateNoContext, UpdateRefused, State, Loud, Checking
<1>8. ASSUME NEW r \in Requests, Arrive(r) PROVE Quiet
  <2>1. Caller(r) \in Threads /\ Caller(r) # Boot
    BY ThreadTypes, ThreadRoles DEF Callers
  <2>2. PICK op \in AllOps : Goto(Caller(r), op)
    BY <1>8, OpsAssumption DEF Arrive
  <2>3. \A u \in Threads : pc'[u] = IF u = Caller(r) THEN op ELSE pc[u]
    BY <2>2 DEF Goto, TypeOK
  <2>4. QED
    BY <1>8, <2>1, <2>3, ThreadTypes DEF Arrive, Quiet, Callers, Checking, AllOps
<1>9. CASE MainStep \/ Signal
  <2>1. CASE SpawnBootstrap
    <3>1. /\ pc[MainThread] = "spawn"
          /\ \A u \in Threads : pc'[u] = IF u = Boot THEN "spinUp"
                                         ELSE IF u = MainThread THEN "run" ELSE pc[u]
      BY <2>1, ThreadRoles DEF SpawnBootstrap, TypeOK
    <3>2. /\ pc[Boot] = "idle"
          /\ UNCHANGED <<serviceState, serviceCmd, sigs, cancelChan, ctxDone, proc>>
      BY <2>1, <3>1 DEF SpawnBootstrap, StartsOnce
    <3>3. \A r \in Requests : pc[Caller(r)] \in {"updating", "done"} => pc'[Caller(r)] = pc[Caller(r)]
      BY <3>1, <3>2, ThreadTypes DEF Callers
    <3>4. pc'[Boot] # "update"
      BY <3>1, ThreadTypes
    <3>5. QED  BY <3>1, <3>2, <3>3, <3>4 DEF Quiet, Checking
  <2>2. CASE CloseServer \/ Interrupt
    BY <2>2, MoveIsQuiet, ThreadTypes DEF CloseServer, Interrupt, Checking
  <2>3. QED  BY <1>9, <2>1, <2>2 DEF MainStep, Signal
<1>10. ASSUME UNCHANGED vars \/ (\E t \in Threads : Release(t)) PROVE Quiet
  BY <1>1, <1>10 DEF Release, vars
<1>11. ASSUME NEW p \in Procs, Serve(p) \/ Obey(p) \/ Crash(p) PROVE Quiet
  <2>1. Unreaped' => Unreaped
    BY <1>11 DEF Serve, Obey, Crash, Exit, Alive, TypeOK
  <2>2. QED  BY <1>1, <1>11, <2>1 DEF Serve, Obey, Crash, Exit
<1>12. QED
  BY <1>2, <1>3, <1>4, <1>5, <1>6, <1>7, <1>8, <1>9, <1>10, <1>11
     DEF Next, Step, Start, Stop, Loud

LEMMA LoudKeeps ==
    ASSUME TypeOK, InPlace, StartsOnce, MuxOwned, TrackedInv, OwnerInv, BootInv,
           NEW t \in Threads, Loud(t)
    PROVE  OwnerInv' /\ BootInv'
<1> USE DEF At, Acquire, Goto, service, bolt, os
<1>1. CASE StartFails(t) \/ StartOk(t)
  <2> DEFINE a == t[2]
  <2>1. /\ serviceCmd = NoCmd /\ sigs' = sigs /\ cancelChan' = cancelChan
        /\ serviceState' \in {"Failed", "Starting"}
        /\ serviceState' = "Starting" => serviceCmd' = a
        /\ pc[t] = "start"
    BY <1>1 DEF StartFails, StartOk
  <2>2. a \in Procs /\ a # NoCmd
    BY ThreadTypes, NamesAssumption DEF Procs
  <2>3. t = Caller(a) \/ t = Restarter(a)
    BY <2>1, Places, ThreadRoles
  <2>4. proc[a] = "unused"
    BY <2>1, <2>2, <2>3 DEF StartsOnce, Procs
  <2>5. Unreaped' => Unreaped
    BY <1>1, <2>4 DEF StartFails, StartOk, Unreaped, TypeOK
  <2>6. \A u \in Threads : pc'[u] \in {pc[u], "spinUp", "spawn", "reply", "done"}
    <3>1. AfterStart(t, TRUE) \in {"spawn", "reply", "done"}
          /\ AfterStart(t, FALSE) \in {"spawn", "reply", "done"}
      BY DEF AfterStart
    <3>2. QED  BY <1>1, <3>1 DEF StartFails, StartOk, TypeOK
  <2>7. ASSUME Uninterrupted'
        PROVE  /\ \A u \in Threads : pc'[u] \notin Checking \cup {"updating"}
               /\ pc'[Boot] # "update"
               /\ Unreaped' => cancelChan' # "full"
    <3>1. Uninterrupted
      BY <2>1, <2>7 DEF Uninterrupted
    <3>2. /\ \A u \in Threads : pc[u] \notin Checking \cup {"updating"}
          /\ pc[Boot] # "update"
      BY <2>1, <3>1 DEF OwnerInv, BootInv
    <3>3. QED
      BY <2>1, <2>5, <2>6, <3>1, <3>2, ThreadTypes DEF BootInv, Checking
  <2>8. OwnerInv'
    BY <2>1, <2>2, <2>7 DEF OwnerInv
  <2>9. BootInv'
    BY <2>7 DEF BootInv, BootFindsRunning, Boot, Checking
  <2>10. QED  BY <2>8, <2>9
<1>2. CASE StopSignals(t)
  <2>1. ~Uninterrupted'
    BY <1>2 DEF StopSignals, Uninterrupted, TypeOK
  <2>2. serviceState' = "Stopping"
    BY <1>2 DEF StopSignals
  <2>3. QED  BY <2>1, <2>2 DEF OwnerInv, BootInv
<1>3. CASE CleanerCleans(t)
  <2>1. PICK c \in Callers : t = Cleaner(c)
    BY <1>3 DEF CleanerCleans, TrackedInv, CleanerLabels
  <2>2. Pending(c)
    BY <1>3, <2>1 DEF CleanerCleans, Pending
  <2>3. Uninterrupted => SingleInterrupt
    BY DEF Uninterrupted, SingleInterrupt
  <2>4. ~Uninterrupted
    BY <2>2, <2>3 DEF TrackedInv, OneCleaner, Uninterrupted, TypeOK
  <2>5. ~Uninterrupted'
    BY <1>3, <2>4 DEF CleanerCleans, Uninterrupted
  <2>6. serviceCmd' = NoCmd
    BY <1>3 DEF CleanerCleans
  <2>7. QED  BY <2>5, <2>6 DEF OwnerInv, BootInv
<1>4. CASE Look(t)
  <2>1. /\ pc[t] = "look"
        /\ \A u \in Threads :
              pc'[u] = IF u = t THEN IF serviceState = "Starting" THEN "arm" ELSE "peek"
                       ELSE pc[u]
        /\ UNCHANGED <<service, sigs, cancelChan, ctxDone, proc>>
    BY <1>4 DEF Look, TypeOK
  <2>2. t = Boot \/ \A r \in Requests : t # Caller(r)
    BY <2>1, Places, ThreadRoles DEF MuxLabels, Callers
  <2>3. OwnerInv'
    BY <2>1 DEF OwnerInv, Uninterrupted, Checking
  <2>4. /\ pc'[Boot] = "update" => pc[Boot] = "update"
        /\ \A r \in Requests : pc[Caller(r)] \in {"updating", "done"} => pc'[Caller(r)] = pc[Caller(r)]
        /\ \A u \in Threads : pc'[u] = "cancelled" => pc[u] = "cancelled"
    BY <2>1, ThreadTypes DEF Callers
  <2>5. BootInv'
    BY <2>1, <2>4 DEF BootInv, Unreaped, Uninterrupted, BootFindsRunning, Boot, Caller
  <2>6. QED  BY <2>3, <2>5
<1>5. CASE PollEnds(t)
  <2>1. PICK l \in {"cancelled", "timedOut", "connected"} :
           /\ pc[t] = l
           /\ serviceState' = CASE l = "connected" -> "Running"
                                [] l = "timedOut"  -> "Failed"
                                [] l = "cancelled" -> serviceState
           /\ pc' = [pc EXCEPT ![t] = AfterSpinUp(t, l # "timedOut")]
    BY <1>5 DEF PollEnds
  <2>2. UNCHANGED <<serviceCmd, sigs, ctxDone, proc>> /\ cancelChan' = "nil"
    BY <1>5 DEF PollEnds
  <2>3. \A u \in Threads : u # t => pc[u] \notin Checking
    BY <2>1 DEF MuxOwned, MuxLabels, Checking
  <2>4. AfterSpinUp(t, l # "timedOut") \in {"update", "done"}
    BY DEF AfterSpinUp
  <2>5. \A u \in Threads : pc'[u] = IF u = t THEN AfterSpinUp(t, l # "timedOut") ELSE pc[u]
    BY <2>1 DEF TypeOK
  <2>6. ASSUME Uninterrupted'
        PROVE  /\ Uninterrupted /\ serviceState = "Starting" /\ serviceCmd # NoCmd
               /\ \A u \in Threads : pc'[u] \notin Checking \cup {"updating"}
    <3>1. Uninterrupted
      BY <2>2, <2>6 DEF Uninterrupted
    <3>2. serviceState = "Starting"
      BY <2>1, <3>1 DEF OwnerInv, Checking
    <3>3. \A u \in Threads : pc[u] # "updating"
      BY <3>1, <3>2 DEF OwnerInv
    <3>4. serviceCmd # NoCmd
      BY <3>1, <3>2 DEF OwnerInv
    <3>5. \A u \in Threads : pc'[u] \notin Checking \cup {"updating"}
      BY <2>3, <2>4, <2>5, <3>3 DEF Checking
    <3>6. QED  BY <3>1, <3>2, <3>4, <3>5
  <2>7. serviceState' = "Stopped" => serviceState = "Stopped"
    BY <2>1
  <2>8. OwnerInv'
    BY <2>2, <2>6, <2>7 DEF OwnerInv
  <2>9. BootFindsRunning'
    <3> SUFFICES ASSUME pc'[Boot] = "update", ~ctxDone', Uninterrupted', Unreaped'
                 PROVE  serviceState' = "Running"
      BY DEF BootFindsRunning, Unreaped, Boot
    <3>1. Unreaped /\ ~ctxDone /\ Uninterrupted
      BY <2>2, <2>6 DEF Unreaped
    <3>2. l # "cancelled"
      BY <2>1, <3>1 DEF BootInv
    <3>3. CASE t = Boot
      <4>1. l # "timedOut"
        BY <2>5, <3>3, ThreadTypes DEF AfterSpinUp
      <4>2. QED  BY <2>1, <3>2, <4>1
    <3>4. CASE t # Boot
      <4>1. pc[Boot] = "update"
        BY <2>5, <3>4, ThreadTypes
      <4>2. serviceState # "Starting"
        BY <3>1, <4>1 DEF BootInv, BootFindsRunning, Unreaped
      <4>3. QED  BY <2>6, <4>2
    <3>5. QED  BY <3>3, <3>4
  <2>10. BootInv'
    <3> SUFFICES ASSUME Uninterrupted'
                 PROVE  /\ cancelChan' # "full"
                        /\ \A u \in Threads : pc'[u] # "cancelled"
                        /\ serviceCmd' # NoCmd
      BY <2>9 DEF BootInv, Boot
    <3>1. QED  BY <2>2, <2>6 DEF Checking
  <2>11. QED  BY <2>8, <2>10
<1>6. CASE UpdateBegins(t) \/ UpdateEnds(t)
  <2>1. /\ \/ pc[t] = "update" /\ serviceState = "Running"
              /\ serviceState' = "Updating" /\ pc' = [pc EXCEPT ![t] = "updating"]
           \/ pc[t] = "updating" /\ serviceState' \in {"Running", "Failed"}
              /\ pc' = [pc EXCEPT ![t] = "done"]
        /\ UNCHANGED <<serviceCmd, sigs, cancelChan, ctxDone, proc>>
    BY <1>6 DEF UpdateBegins, UpdateEnds
  <2>2. t = Boot \/ \E r \in Requests : t = Caller(r)
    BY <2>1, Places, ThreadTypes, ThreadRoles DEF Callers, MainThread
  <2>3. \A u \in Threads : pc'[u] = IF u = t THEN pc'[t] ELSE pc[u]
    BY <2>1 DEF TypeOK
  <2>4. pc'[t] \in {"updating", "done"}
    BY <2>1 DEF TypeOK
  <2>5. Uninterrupted' => Uninterrupted
    BY <2>1 DEF Uninterrupted
  <2>6. ASSUME Uninterrupted'
        PROVE  /\ serviceCmd' # NoCmd
               /\ serviceState \in {"Running", "Updating"}
               /\ \A u \in Threads : pc'[u] \notin Checking
               /\ \A u \in Threads : pc'[u] = "updating" => u = t /\ serviceState' = "Updating"
    <3>1. serviceState \in {"Running", "Updating"}
      BY <2>1, <2>5, <2>6 DEF OwnerInv
    <3>2. serviceCmd' # NoCmd
      BY <2>1, <2>5, <2>6, <3>1 DEF OwnerInv
    <3>3. \A u \in Threads : pc[u] \notin Checking
      BY <2>5, <2>6, <3>1 DEF OwnerInv
    <3>4. \A u \in Threads : u # t => pc[u] # "updating"
      BY <2>1, <2>5, <2>6 DEF OwnerInv
    <3>5. pc'[t] = "updating" => serviceState' = "Updating"
      BY <2>1 DEF TypeOK
    <3>6. QED  BY <2>3, <2>4, <3>1, <3>2, <3>3, <3>4, <3>5 DEF Checking
  <2>7. OwnerInv'
    BY <2>1, <2>6 DEF OwnerInv
  <2>8. BootInv'
    <3> SUFFICES ASSUME Uninterrupted'
                 PROVE  /\ Unreaped' => /\ cancelChan' # "full"
                                        /\ \A u \in Threads : pc'[u] # "cancelled"
                        /\ serviceCmd' # NoCmd
                        /\ BootFindsRunning'
      BY DEF BootInv, Boot
    <3>1. Unreaped' => cancelChan' # "full" /\ \A u \in Threads : pc'[u] # "cancelled"
      BY <2>1, <2>5, <2>6 DEF BootInv, Unreaped, Checking
    <3>2. BootFindsRunning'
      <4> SUFFICES ASSUME pc'[Boot] = "update"
                   PROVE  \/ serviceState' = "Running"
                          \/ /\ serviceState' = "Updating"
                             /\ \E r \in Requests : pc'[Caller(r)] = "updating"
                          \/ /\ serviceState' = "Failed"
                             /\ \E r \in Requests : pc'[Caller(r)] = "done"
        BY DEF BootFindsRunning, Boot, Caller
      <4>1. PICK r \in Requests : t = Caller(r)
        BY <2>2, <2>4
      <4>2. \/ serviceState' = "Updating" /\ pc'[t] = "updating"
            \/ serviceState' \in {"Running", "Failed"} /\ pc'[t] = "done"
        BY <2>1 DEF TypeOK
      <4>3. QED  BY <4>1, <4>2
    <3>3. QED  BY <2>6, <3>1, <3>2
  <2>9. QED  BY <2>7, <2>8
<1>7. QED  BY <1>1, <1>2, <1>3, <1>4, <1>5, <1>6 DEF Loud

LEMMA ServiceInvariant == Spec => [](OwnerInv /\ BootInv)
<1> DEFINE Where == InPlace /\ StartsOnce /\ MuxOwned
           Inv   == OwnerInv /\ BootInv
<1>1. Init => Inv
  BY ThreadTypes, ThreadRoles
     DEF Init, OwnerInv, BootInv, BootFindsRunning, Checking
<1>2. TypeOK /\ Where /\ TrackedInv /\ Inv /\ [Next]_vars => Inv'
  <2> SUFFICES ASSUME TypeOK, Where, TrackedInv, Inv, [Next]_vars PROVE Inv'
    OBVIOUS
  <2>1. CASE \E t \in Threads : Loud(t)
    BY <2>1, LoudKeeps
  <2>2. CASE \A t \in Threads : ~Loud(t)
    BY <2>2, OthersAreQuiet, QuietKeeps
  <2>3. QED  BY <2>1, <2>2
<1>3. Spec => []Where
  BY ChannelInvariant, PTL
<1>4. Inv => OwnerInv /\ BootInv
  OBVIOUS
<1> HIDE DEF Where, Inv
<1>5. QED  BY <1>1, <1>2, <1>3, <1>4, TypeCorrect, TrackedInvariant, PTL DEF Spec

\* Until the first interrupt an update has the service for itself, whatever
\* other requests, Bolt checks and the bootstrap do meanwhile.
THEOREM UpdateIsAlone == Spec => []UpdateOwnsState
<1>1. OwnerInv => UpdateOwnsState
  BY DEF OwnerInv, UpdateOwnsState
<1>2. QED  BY <1>1, ServiceInvariant, PTL

\* Stopped always means that Start finds no command, and until the first
\* interrupt a state that promises a process means there is one.
THEOREM StateTellsCommand == Spec => []StateMatchesCommand
<1>1. OwnerInv => StateMatchesCommand
  BY DEF OwnerInv, StateMatchesCommand
<1>2. QED  BY <1>1, ServiceInvariant, PTL

\* Between its Bolt checks and its import the bootstrap loses the service to
\* requests only, never to a second check that ends late or to a refused start.
THEOREM BootIsNotLost == Spec => []BootFindsRunning
<1>1. BootInv => BootFindsRunning
  BY DEF BootInv, BootFindsRunning
<1>2. QED  BY <1>1, ServiceInvariant, PTL

-----------------------------------------------------------------------------
(* Whoever waits for Neo4j while the context lives, and what he leaves.    *)

ClosingIsCancelled ==
    pc[MainThread] \in {"close", "stopAll", "waitAll", "await"} => ctxDone

SigsStarted ==
    /\ \A p \in Procs : proc[p] = "unused" => sigs[p] = 0
    /\ serviceCmd # NoCmd => proc[serviceCmd] # "unused"

ForgetInv == SigsStarted /\ ClosingIsCancelled /\ ReapedIsForgotten

\* What a step leaves alone that neither waits for a process nor touches the
\* command, and that interrupts nobody.
ForgetFrame ==
    /\ \A c \in Callers :
         /\ Pending(c) => Pending(c)' \/ ctxDone
         /\ pc[Cleaner(c)] = "clean" => pc'[Cleaner(c)] = "clean" \/ ctxDone
         /\ pc[Restarter(c)] \in {"start", "done"} => pc'[Restarter(c)] \in {"start", "done"}
    /\ ctxDone => ctxDone'
    /\ pc'[MainThread] \in {"close", "stopAll", "waitAll", "await"}
          => ctxDone' \/ pc[MainThread] \in {"close", "stopAll", "waitAll", "await"}
    /\ serviceCmd' = serviceCmd
    /\ sigs' = sigs
    /\ \A p \in Procs : /\ proc'[p] = "reaped" => proc[p] = "reaped"
                        /\ proc'[p] = "unused" <=> proc[p] = "unused"

LEMMA FrameForgets ==
    ASSUME TypeOK, ForgetInv, ForgetFrame
    PROVE  ForgetInv'
<1>1. SigsStarted'
  BY DEF ForgetInv, ForgetFrame, SigsStarted, TypeOK
<1>2. ClosingIsCancelled'
  BY DEF ForgetInv, ForgetFrame, ClosingIsCancelled, MainThread, Caller
<1>3. ReapedIsForgotten'
  BY DEF ForgetInv, ForgetFrame, ReapedIsForgotten, Pending, Cleaner, Restarter
<1>4. QED  BY <1>1, <1>2, <1>3 DEF ForgetInv

\* One goroutine moves, and no process is waited for.
LEMMA MoveForgets ==
    ASSUME TypeOK, ForgetInv, NEW t \in Threads, NEW label, Goto(t, label),
           pc[t] # "done",
           t[1] = "cleaner" => (label \in {"await", "clean"} /\ pc[t] # "clean") \/ ctxDone,
           t[1] = "restarter" => pc[t] # "start" \/ label = "done",
           ctxDone => ctxDone',
           t = MainThread /\ label \in {"close", "stopAll", "waitAll", "await"} => ctxDone',
           serviceCmd' = serviceCmd, proc' = proc, sigs' = sigs
    PROVE  ForgetInv'
<1>1. \A u \in Threads : pc'[u] = IF u = t THEN label ELSE pc[u]
  BY DEF TypeOK, Goto
<1>2. \A c \in Callers : /\ Cleaner(c) \in Threads /\ Cleaner(c)[1] = "cleaner"
                         /\ Restarter(c) \in Threads /\ Restarter(c)[1] = "restarter"
  BY ThreadTypes, ThreadRoles
<1>3. ASSUME NEW c \in Callers
      PROVE  /\ Pending(c) => Pending(c)' \/ ctxDone
             /\ pc[Cleaner(c)] = "clean" => pc'[Cleaner(c)] = "clean" \/ ctxDone
             /\ pc[Restarter(c)] \in {"start", "done"} => pc'[Restarter(c)] \in {"start", "done"}
  <2>1. pc[Cleaner(c)] = "clean" => pc'[Cleaner(c)] = "clean" \/ ctxDone
    BY <1>1, <1>2
  <2>2. pc[Restarter(c)] \in {"start", "done"} => pc'[Restarter(c)] \in {"start", "done"}
    BY <1>1, <1>2
  <2>3. Pending(c) => pc'[Cleaner(c)] \in {"read", "await", "clean"} \/ ctxDone
    BY <1>1, <1>2 DEF Pending
  <2>4. QED  BY <2>1, <2>2, <2>3 DEF Pending, Cleaner
<1>4. ForgetFrame
  BY <1>1, <1>3, ThreadTypes DEF ForgetFrame
<1>5. QED  BY <1>4, FrameForgets

\* A process that is gone is waited for.
LEMMA WaitForgets ==
    ASSUME TypeOK, InPlace, ForgetInv, NEW t \in Threads, WaitTS(t)
    PROVE  ForgetInv'
<1> USE DEF At
<1>1. /\ pc[t] = "await" /\ UNCHANGED <<serviceCmd, ctxDone, sigs>>
      /\ \A p \in Procs : proc'[p] = "unused" => proc[p] = "unused"
      /\ \A p \in Procs : proc[p] = "unused" => sigs[p] = 0
      /\ \A u \in Threads : pc'[u] = IF u = t THEN AfterAwait(t) ELSE pc[u]
  <2>1. pc[t] = "await" /\ UNCHANGED <<serviceCmd, ctxDone, sigs>>
    BY DEF WaitTS, service, bolt
  <2>2. \A p \in Procs : proc'[p] = "unused" => proc[p] = "unused"
    BY DEF WaitTS, TypeOK
  <2>3. \A u \in Threads : pc'[u] = IF u = t THEN AfterAwait(t) ELSE pc[u]
    BY DEF WaitTS, Goto, TypeOK
  <2>4. QED  BY <2>1, <2>2, <2>3 DEF ForgetInv, SigsStarted
<1>2. SigsStarted'
  BY <1>1, NamesAssumption DEF ForgetInv, SigsStarted, TypeOK
<1>3. t = MainThread => ctxDone
  BY <1>1 DEF ForgetInv, ClosingIsCancelled
<1>4. ClosingIsCancelled'
  BY <1>1, <1>3, ThreadTypes DEF ForgetInv, ClosingIsCancelled, MainThread, Caller
<1>5. ASSUME NEW p \in Procs, serviceCmd = p, ~ctxDone
      PROVE  /\ sigs[p] > 0 => \E c \in Callers : Pending(c)'
             /\ \E c \in Callers : pc'[Cleaner(c)] = "clean" \/ pc'[Restarter(c)] \in {"start", "done"}
  <2>1. t[1] \in {"cleaner", "restarter"} /\ t[2] \in Callers
    BY <1>1, <1>3, <1>5, Places, ThreadRoles
  <2>2. CASE t[1] = "cleaner"
    <3>1. t = Cleaner(t[2]) /\ pc'[t] = "clean"
      BY <1>1, <2>2, ThreadRoles DEF AfterAwait
    <3>2. Pending(t[2])'
      BY <3>1 DEF Pending, Cleaner
    <3>3. QED  BY <2>1, <3>1, <3>2
  <2>3. CASE t[1] = "restarter"
    <3>1. t = Restarter(t[2]) /\ pc'[t] = "start"
      BY <1>1, <2>3, ThreadRoles DEF AfterAwait
    <3>2. \A c \in Callers : Cleaner(c) # t /\ Cleaner(c) \in Threads
      BY <2>3, ThreadRoles, ThreadTypes
    <3>3. \A c \in Callers : Pending(c) => Pending(c)'
      BY <1>1, <3>2 DEF Pending, Cleaner
    <3>4. sigs[p] > 0 => \E c \in Callers : Pending(c)
      BY <1>5 DEF ForgetInv, ReapedIsForgotten
    <3>5. QED  BY <2>1, <3>1, <3>3, <3>4
  <2>4. QED  BY <2>1, <2>2, <2>3
<1>6. ReapedIsForgotten'
  BY <1>1, <1>5 DEF ReapedIsForgotten, Cleaner, Restarter
<1>7. QED  BY <1>2, <1>4, <1>6 DEF ForgetInv

LEMMA StepForgets ==
    ASSUME TypeOK, InPlace, StartsOnce, ForgetInv, [Next]_vars
    PROVE  ForgetInv'
<1> USE DEF At, Acquire, AcquireFails, service, bolt, os
<1>1. ASSUME UNCHANGED <<pc, serviceCmd, ctxDone, sigs>>,
             \A p \in Procs : /\ proc'[p] = "reaped" => proc[p] = "reaped"
                              /\ proc'[p] = "unused" <=> proc[p] = "unused"
      PROVE  ForgetInv'
  BY <1>1, FrameForgets DEF ForgetFrame, Pending, Cleaner
<1>2. ASSUME NEW t \in Threads, Start(t) PROVE ForgetInv'
  <2>1. \A ok \in BOOLEAN : AfterStart(t, ok) \in {"spawn", "reply", "done"}
    BY DEF AfterStart
  <2>2. pc[t] = "start" /\ t[1] \in {"restarter", "caller"}
    BY <1>2, Places DEF Start, StartBusy, StartRefused, StartFails, StartOk
  <2>3. t[1] = "restarter" => AfterStart(t, TRUE) = "done" /\ AfterStart(t, FALSE) = "done"
    BY ThreadRoles DEF AfterStart
  <2>4. CASE StartBusy(t) \/ StartRefused(t) \/ StartFails(t)
    <3>1. /\ Goto(t, AfterStart(t, FALSE))
          /\ UNCHANGED <<serviceCmd, ctxDone, proc, sigs>>
      BY <2>4 DEF StartBusy, StartRefused, StartFails
    <3>2. QED  BY <2>1, <2>2, <2>3, <3>1, MoveForgets
  <2>5. CASE StartOk(t)
    <3>1. t[2] \in Procs /\ Waiter(t[2]) # MainThread
      BY ThreadTypes, ThreadRoles DEF Procs
    <3>2. /\ UNCHANGED <<ctxDone, sigs>>
          /\ serviceCmd' = t[2] /\ proc' = [proc EXCEPT ![t[2]] = "booting"]
          /\ \A u \in Threads : pc'[u] = IF u = Waiter(t[2]) THEN "spinUp"
                                         ELSE IF u = t THEN AfterStart(t, TRUE) ELSE pc[u]
      BY <2>5, <3>1 DEF StartOk, TypeOK
    <3>3. proc[t[2]] = "unused"
      BY <2>2, ThreadRoles DEF StartsOnce
    <3>4. sigs[t[2]] = 0
      BY <3>1, <3>3 DEF ForgetInv, SigsStarted
    <3>5. SigsStarted'
      BY <3>1, <3>2 DEF ForgetInv, SigsStarted, TypeOK
    <3>6. ClosingIsCancelled'
      BY <2>1, <3>1, <3>2, ThreadTypes DEF ForgetInv, ClosingIsCancelled, MainThread, Caller
    <3>7. proc'[t[2]] = "booting"
      BY <3>1, <3>2 DEF TypeOK
    <3>8. ReapedIsForgotten'
      BY <3>2, <3>4, <3>7 DEF ReapedIsForgotten
    <3>9. QED  BY <3>5, <3>6, <3>8 DEF ForgetInv
  <2>6. QED  BY <1>2, <2>4, <2>5 DEF Start
<1>3. ASSUME NEW t \in Threads, Stop(t) PROVE ForgetInv'
  <2>1. pc[t] \in StopLabels /\ t[1] = "caller" /\ t[2] \in Callers /\ t = Caller(t[2])
    <3>1. pc[t] \in StopLabels
      BY <1>3 DEF Stop, StopNoContext, StopIgnored, StopNothing, StopTooLate, StopSignals,
                  InStop, StopLabels
    <3>2. t[1] = "caller"
      BY <3>1, Places, ThreadRoles DEF StopLabels
    <3>3. QED  BY <3>1, <3>2, ThreadRoles
  <2>2. \A ok \in BOOLEAN : AfterStop(t, ok) \in {"waitAll", "reply", "done"}
    BY DEF AfterStop
  <2>3. UNCHANGED <<serviceCmd, ctxDone, proc>>
    BY <1>3 DEF Stop, StopNoContext, StopIgnored, StopNothing, StopTooLate, StopSignals
  <2>4. t = MainThread => ctxDone
    <3>1. t = MainThread => pc[t] = "stopAll"
      BY <2>1, Places, ThreadTypes DEF StopLabels
    <3>2. QED  BY <2>1, <3>1 DEF ForgetInv, ClosingIsCancelled
  <2>5. pc[t] = "restart" => pc[Restarter(t[2])] = "idle"
    BY <2>1 DEF StartsOnce
  <2>6. /\ Restarter(t[2]) # t /\ Cleaner(t[2]) # t /\ Cleaner(t[2]) # Restarter(t[2])
        /\ Restarter(t[2]) # MainThread /\ Cleaner(t[2]) # MainThread
        /\ Restarter(t[2]) \in Threads /\ Cleaner(t[2]) \in Threads
        /\ \A c \in Callers : /\ Cleaner(c) # t /\ Cleaner(c) # Restarter(t[2])
                              /\ Restarter(c) # t /\ Restarter(c) # Cleaner(t[2])
                              /\ Cleaner(c) \in Threads /\ Restarter(c) \in Threads
    BY <2>1, ThreadTypes, ThreadRoles
  <2>7. CASE StopNoContext(t) \/ StopIgnored(t) \/ StopNothing(t) \/ StopTooLate(t)
    <3>1. sigs' = sigs /\ \E ok \in BOOLEAN : StopReturns(t, ok)
      BY <2>7 DEF StopNoContext, StopIgnored, StopNothing, StopTooLate
    <3>2. PICK ok \in BOOLEAN : StopReturns(t, ok)
      BY <3>1
    <3>3. \A u \in Threads : pc'[u] = IF u = t THEN AfterStop(t, ok)
                                      ELSE IF u = Restarter(t[2]) /\ pc[t] = "restart" THEN "wait"
                                      ELSE pc[u]
      BY <2>6, <3>2 DEF StopReturns, TypeOK
    <3>4. \A c \in Callers :
             /\ pc'[Cleaner(c)] = pc[Cleaner(c)]
             /\ pc[Restarter(c)] \in {"start", "done"} => pc'[Restarter(c)] \in {"start", "done"}
      BY <2>5, <2>6, <3>3
    <3>5. pc'[MainThread] \in {"close", "stopAll", "waitAll", "await"}
             => ctxDone' \/ pc[MainThread] \in {"close", "stopAll", "waitAll", "await"}
      BY <2>2, <2>3, <2>4, <2>6, <3>3, ThreadTypes
    <3>6. ForgetFrame
      BY <2>3, <3>1, <3>4, <3>5 DEF ForgetFrame, Pending, Cleaner
    <3>7. QED  BY <3>6, FrameForgets
  <2>8. CASE StopSignals(t)
    <3>1. /\ ~ctxDone /\ serviceCmd # NoCmd /\ serviceCmd \in Procs
          /\ proc[serviceCmd] # "reaped"
          /\ sigs' = [sigs EXCEPT ![serviceCmd] = @ + 1]
      BY <2>8 DEF StopSignals, TypeOK
    <3>2. \A u \in Threads : pc'[u] = IF u = Cleaner(t[2]) THEN "read"
                                      ELSE IF u = t THEN AfterStop(t, TRUE)
                                      ELSE IF u = Restarter(t[2]) /\ pc[t] = "restart" THEN "wait"
                                      ELSE pc[u]
      BY <2>6, <2>8 DEF StopSignals, TypeOK
    <3>3. SigsStarted'
      BY <2>3, <3>1 DEF ForgetInv, SigsStarted, TypeOK
    <3>4. ClosingIsCancelled'
      <4>1. pc'[MainThread] = pc[MainThread]
        BY <2>4, <2>6, <3>1, <3>2, ThreadTypes
      <4>2. QED  BY <2>3, <4>1 DEF ForgetInv, ClosingIsCancelled, MainThread, Caller
    <3>5. Pending(t[2])'
      BY <2>6, <3>2 DEF Pending, Cleaner
    <3>6. ReapedIsForgotten'
      BY <2>1, <2>3, <3>1, <3>5 DEF ReapedIsForgotten
    <3>7. QED  BY <3>3, <3>4, <3>6 DEF ForgetInv
  <2>9. QED  BY <1>3, <2>7, <2>8 DEF Stop
<1>4. ASSUME NEW t \in Threads, Clean(t) PROVE ForgetInv'
  <2>1. CASE CleanerPanics(t)
    BY <1>1, <2>1 DEF CleanerPanics
  <2>2. CASE CleanerReads(t) \/ CleanerGivesUp(t)
    <3>1. t # MainThread /\ t[1] = "cleaner"
      BY <2>2, Places, ThreadRoles DEF CleanerReads, CleanerGivesUp
    <3>2. QED  BY <2>2, <3>1, MoveForgets DEF CleanerReads, CleanerGivesUp
  <2>3. CASE CleanerCleans(t)
    <3>1. /\ pc[t] = "clean" /\ serviceCmd' = NoCmd /\ UNCHANGED <<ctxDone, proc, sigs>>
          /\ \A u \in Threads : pc'[u] = IF u = t THEN "done" ELSE pc[u]
      BY <2>3 DEF CleanerCleans, Goto, TypeOK
    <3>2. SigsStarted'
      BY <3>1 DEF ForgetInv, SigsStarted
    <3>3. ClosingIsCancelled'
      BY <3>1, ThreadTypes DEF ForgetInv, ClosingIsCancelled, MainThread, Caller
    <3>4. ReapedIsForgotten'
      BY <3>1, NamesAssumption DEF ReapedIsForgotten, Procs
    <3>5. QED  BY <3>2, <3>3, <3>4 DEF ForgetInv
  <2>4. QED  BY <1>4, <2>1, <2>2, <2>3 DEF Clean
<1>5. ASSUME NEW t \in Threads, Wait(t) PROVE ForgetInv'
  <2>1. CASE WaitTS(t)
    BY <2>1, WaitForgets
  <2>2. CASE WaitNoContext(t) \/ WaitCopies(t)
    <3>1. /\ pc[t] \in {"wait", "waitAll"}
          /\ UNCHANGED <<serviceCmd, ctxDone, proc, sigs>>
          /\ \E label \in {"done", "await", AfterAwait(t)} : Goto(t, label)
      BY <2>2 DEF WaitNoContext, WaitCopies, WaitLabels
    <3>2. t[1] # "cleaner"
      BY <3>1, Places, ThreadRoles
    <3>3. t = MainThread => ctxDone
      BY <3>1, Places, ThreadRoles DEF ForgetInv, ClosingIsCancelled
    <3>4. QED  BY <3>1, <3>2, <3>3, MoveForgets
  <2>3. QED  BY <1>5, <2>1, <2>2 DEF Wait
<1>6. ASSUME NEW t \in Threads, WaitForNeo4j(t) PROVE ForgetInv'
  <2>1. /\ pc[t] \in MuxLabels \cup {"spinUp"}
        /\ UNCHANGED <<serviceCmd, ctxDone, proc, sigs>>
    BY <1>6 DEF WaitForNeo4j, LockSpinUp, SpinUpNoContext, Look, Arm, PollCancelled, PollQuits,
                PollConnects, PollMisses, PollEnds, Peek, MuxLabels
  <2>2. t # MainThread /\ t[1] \notin {"cleaner", "restarter"}
    BY <2>1, Places, ThreadRoles
  <2>3. UNCHANGED pc \/ \E label \in MuxLabels \cup {"update", "done"} : Goto(t, label)
    <3>1. \A ok \in BOOLEAN : AfterSpinUp(t, ok) \in {"update", "done"}
      BY DEF AfterSpinUp
    <3>2. CASE PollEnds(t) \/ Peek(t) \/ PollMisses(t)
      BY <3>1, <3>2 DEF PollEnds, Peek, PollMisses
    <3>3. CASE ~(PollEnds(t) \/ Peek(t) \/ PollMisses(t))
      BY <1>6, <3>3
         DEF WaitForNeo4j, LockSpinUp, SpinUpNoContext, Look, Arm, PollCancelled, PollQuits,
             PollConnects, MuxLabels
    <3>4. QED  BY <3>2, <3>3
  <2>4. QED  BY <1>1, <2>1, <2>2, <2>3, MoveForgets DEF MuxLabels
<1>7. ASSUME NEW t \in Threads, Update(t) \/ State(t) PROVE ForgetInv'
  <2>1. /\ pc[t] \in {"update", "updating", "status", "reply"}
        /\ \E label \in {"done", "updating", "reply"} : Goto(t, label)
        /\ UNCHANGED <<serviceCmd, ctxDone, proc, sigs>>
    BY <1>7 DEF Update, UpdateNoContext, UpdateRefused, UpdateBegins, UpdateEnds, State
  <2>2. t[1] \notin {"cleaner", "restarter"}
    BY <2>1, Places, ThreadRoles
  <2>3. QED  BY <2>1, <2>2, MoveForgets
<1>8. ASSUME NEW r \in Requests, Arrive(r) PROVE ForgetInv'
  <2>1. /\ Caller(r) \in Threads /\ Caller(r) # MainThread
        /\ Caller(r)[1] = "caller"
    BY NamesAssumption, ThreadTypes, ThreadRoles DEF Callers
  <2>2. PICK op \in Ops : Goto(Caller(r), op)
    BY <1>8 DEF Arrive
  <2>3. pc[Caller(r)] = "idle" /\ UNCHANGED <<serviceCmd, ctxDone, proc, sigs>>
    BY <1>8 DEF Arrive
  <2>4. QED  BY <2>1, <2>2, <2>3, MoveForgets
<1>9. CASE MainStep \/ Signal
  <2>1. CASE SpawnBootstrap
    <3>1. \A u \in Threads : pc'[u] = IF u = Boot THEN "spinUp"
                                      ELSE IF u = MainThread THEN "run" ELSE pc[u]
      BY <2>1, ThreadRoles DEF SpawnBootstrap, TypeOK
    <3>2. UNCHANGED <<serviceCmd, ctxDone, proc, sigs>> /\ pc[MainThread] = "spawn"
      BY <2>1 DEF SpawnBootstrap
    <3>3. \A c \in Callers : /\ Cleaner(c) \notin {Boot, MainThread}
                             /\ Restarter(c) \notin {Boot, MainThread}
                             /\ Cleaner(c) \in Threads /\ Restarter(c) \in Threads
      BY ThreadTypes, ThreadRoles
    <3>4. \A c \in Callers : /\ pc'[Cleaner(c)] = pc[Cleaner(c)]
                             /\ pc'[Restarter(c)] = pc[Restarter(c)]
      BY <3>1, <3>3
    <3>5. pc'[MainThread] = "run"
      BY <3>1, ThreadTypes, ThreadRoles
    <3>6. ForgetFrame
      BY <3>2, <3>4, <3>5 DEF ForgetFrame, Pending, Cleaner
    <3>7. QED  BY <3>6, FrameForgets
  <2>2. CASE CloseServer
    BY <2>2, MoveForgets, ThreadTypes, ThreadRoles DEF CloseServer, ForgetInv, ClosingIsCancelled
  <2>3. CASE Interrupt
    BY <2>3, MoveForgets, ThreadTypes, ThreadRoles DEF Interrupt
  <2>4. QED  BY <1>9, <2>1, <2>2, <2>3 DEF MainStep, Signal
<1>10. ASSUME UNCHANGED vars \/ (\E t \in Threads : Release(t)) PROVE ForgetInv'
  BY <1>1, <1>10 DEF Release, vars
<1>11. ASSUME NEW p \in Procs, Serve(p) \/ Obey(p) \/ Crash(p) PROVE ForgetInv'
  BY <1>1, <1>11 DEF Serve, Obey, Crash, Exit, TypeOK, Alive
<1>12. QED
  BY <1>2, <1>3, <1>4, <1>5, <1>6, <1>7, <1>8, <1>9, <1>10, <1>11 DEF Next, Step

\* Until the context is cancelled, a process that was interrupted has a cleaner
\* on its way to clear the command, whatever stops, starts, restarts, crashes
\* and imports interleave; only a process nobody interrupted can be waited for
\* and its command be left behind, and then a restart did it.
THEOREM ReapedIsCleared == Spec => []ReapedIsForgotten
<1>1. Init => ForgetInv
  BY ThreadTypes, ThreadRoles, NamesAssumption
     DEF Init, ForgetInv, SigsStarted, ClosingIsCancelled, ReapedIsForgotten, Procs
<1>2. TypeOK /\ InPlace /\ StartsOnce /\ ForgetInv /\ [Next]_vars => ForgetInv'
  BY StepForgets
<1>3. Spec => [](InPlace /\ StartsOnce)
  BY ChannelInvariant, PTL
<1>4. ForgetInv => ReapedIsForgotten
  BY DEF ForgetInv
<1>5. QED  BY <1>1, <1>2, <1>3, <1>4, TypeCorrect, PTL DEF Spec

=============================================================================
