------------------------- MODULE Neo4jWrapperProofs -------------------------
(***************************************************************************)
(* Proofs about Neo4jWrapper, for any number of requests, any set of end   *)
(* points and faults and any limit on the Bolt checks.                     *)
(***************************************************************************)
EXTENDS Neo4jWrapper, TLAPS

-----------------------------------------------------------------------------
(* Type correctness.                                                       *)

\* The named goroutines are goroutines.
LEMMA ThreadTypes ==
    /\ \A c \in Callers : /\ Caller(c) \in Threads
                          /\ Waiter(c) \in Threads
                          /\ Cleaner(c) \in Threads
                          /\ Restarter(c) \in Threads
    /\ MainThread \in Threads
    /\ Boot \in Threads
    /\ \A t \in Threads : t[2] \in Callers
BY DEF Threads, Roles, Callers, Caller, Waiter, Cleaner, Restarter, MainThread, Boot

\* Where a goroutine continues after each operation is a label.
LEMMA LabelTypes ==
    \A t \in Threads : \A ok \in BOOLEAN :
        /\ AfterStart(t, ok) \in Labels
        /\ AfterStop(t, ok) \in Labels
        /\ AfterSpinUp(t, ok) \in Labels
        /\ AfterAwait(t) \in Labels
BY DEF AfterStart, AfterStop, AfterSpinUp, AfterAwait, Labels

\* Every value the program's variables take has its type, so the counter of the
\* Bolt checking loop never passes its limit by more than one.
THEOREM TypeCorrect == Spec => []TypeOK
<1>1. Init => TypeOK
  <2> SUFFICES ASSUME Init PROVE TypeOK
    OBVIOUS
  <2>1. polls \in 0 .. (QuitAfter + 1)
    BY QuitAfterAssumption DEF Init
  <2>2. pc \in [Threads -> Labels]
    BY DEF Init, Labels
  <2>3. /\ proc \in [Procs -> {"unused", "booting", "serving", "exited", "reaped"}]
        /\ sigs \in [Procs -> Nat]
        /\ cmd \in [Threads -> Procs \cup {NoCmd}]
    BY DEF Init
  <2>4. QED
    BY <2>1, <2>2, <2>3 DEF Init, TypeOK, States
<1>2. TypeOK /\ [Next]_vars => TypeOK'
  <2> SUFFICES ASSUME TypeOK, [Next]_vars PROVE TypeOK'
    OBVIOUS
  <2> USE ThreadTypes, LabelTypes, NamesAssumption, QuitAfterAssumption DEF TypeOK
  <2>1. ASSUME NEW t \in Threads, Release(t) PROVE TypeOK'
    BY <2>1 DEF Release, service, bolt, os
  <2>2. ASSUME NEW t \in Threads, Start(t) PROVE TypeOK'
    <3> USE DEF At, Goto, service, bolt, os, Procs, States, Labels
    <3>1. CASE StartBusy(t)     BY <3>1 DEF StartBusy
    <3>2. CASE StartRefused(t)  BY <3>2 DEF StartRefused
    <3>3. CASE StartFails(t)    BY <3>3 DEF StartFails
    <3>4. CASE StartOk(t)       BY <3>4 DEF StartOk
    <3>5. QED  BY <2>2, <3>1, <3>2, <3>3, <3>4 DEF Start
  <2>3. ASSUME NEW t \in Threads, Stop(t) PROVE TypeOK'
    <3> USE DEF Acquire, AcquireFails, StopReturns, SendCancel, service, bolt, os, Procs,
               States, Labels
    <3>1. CASE StopNoContext(t) BY <3>1 DEF StopNoContext
    <3>2. CASE StopIgnored(t)   BY <3>2 DEF StopIgnored
    <3>3. CASE StopNothing(t)   BY <3>3 DEF StopNothing
    <3>4. CASE StopTooLate(t)   BY <3>4 DEF StopTooLate
    <3>5. CASE StopSignals(t)
      <4>1. AfterStop(t, TRUE) \in Labels
        OBVIOUS
      <4>2. pc' \in [Threads -> Labels]
        BY <3>5, <4>1 DEF StopSignals
      <4>3. sigs' \in [Procs -> Nat]
        BY <3>5 DEF StopSignals
      <4>4. QED  BY <3>5, <4>2, <4>3 DEF StopSignals
    <3>6. QED  BY <2>3, <3>1, <3>2, <3>3, <3>4, <3>5 DEF Stop
  <2>4. ASSUME NEW t \in Threads, Clean(t) PROVE TypeOK'
    <3> USE DEF At, Goto, Acquire, AcquireFails, service, bolt, os, Procs, States, Labels
    <3>1. CASE CleanerPanics(t)   BY <3>1 DEF CleanerPanics
    <3>2. CASE CleanerReads(t)    BY <3>2 DEF CleanerReads
    <3>3. CASE CleanerGivesUp(t)  BY <3>3 DEF CleanerGivesUp
    <3>4. CASE CleanerCleans(t)   BY <3>4 DEF CleanerCleans
    <3>5. QED  BY <2>4, <3>1, <3>2, <3>3, <3>4 DEF Clean
  <2>5. ASSUME NEW t \in Threads, Wait(t) PROVE TypeOK'
    <3> USE DEF At, Goto, Acquire, AcquireFails, service, bolt, os, Labels
    <3>1. CASE WaitNoContext(t) BY <3>1 DEF WaitNoContext
    <3>2. CASE WaitCopies(t)    BY <3>2 DEF WaitCopies
    <3>3. CASE WaitTS(t)        BY <3>3 DEF WaitTS
    <3>4. QED  BY <2>5, <3>1, <3>2, <3>3 DEF Wait
  <2>6. ASSUME NEW t \in Threads, WaitForNeo4j(t) PROVE TypeOK'
    <3> USE DEF At, Goto, Acquire, AcquireFails, service, bolt, os, States, Labels
    <3>1. CASE LockSpinUp(t)      BY <3>1 DEF LockSpinUp
    <3>2. CASE SpinUpNoContext(t) BY <3>2 DEF SpinUpNoContext
    <3>3. CASE Look(t)            BY <3>3 DEF Look
    <3>4. CASE Arm(t)             BY <3>4 DEF Arm
    <3>5. CASE PollCancelled(t)   BY <3>5 DEF PollCancelled
    <3>6. CASE PollQuits(t)       BY <3>6 DEF PollQuits
    <3>7. CASE PollConnects(t)    BY <3>7 DEF PollConnects
    <3>8. CASE PollMisses(t)      BY <3>8 DEF PollMisses
    <3>9. CASE PollEnds(t)
      <4>1. PICK l \in {"cancelled", "timedOut", "connected"} :
              /\ serviceState' = CASE l = "connected" -> "Running"
                                   [] l = "timedOut"  -> "Failed"
                                   [] l = "cancelled" -> serviceState
              /\ Goto(t, AfterSpinUp(t, l # "timedOut"))
        BY <3>9 DEF PollEnds
      <4>2. serviceState' \in States
        BY <4>1
      <4>3. pc' \in [Threads -> Labels]
        BY <4>1
      <4>4. QED  BY <3>9, <4>2, <4>3 DEF PollEnds
    <3>10. CASE Peek(t)           BY <3>10 DEF Peek
    <3>11. QED  BY <2>6, <3>1, <3>2, <3>3, <3>4, <3>5, <3>6, <3>7, <3>8, <3>9, <3>10
                DEF WaitForNeo4j
  <2>7. ASSUME NEW t \in Threads, Update(t) PROVE TypeOK'
    BY <2>7 DEF Update, UpdateNoContext, UpdateRefused, UpdateBegins, UpdateEnds,
                At, Goto, Acquire, AcquireFails, service, bolt, os, States, Labels
  <2>8. ASSUME NEW t \in Threads, State(t) PROVE TypeOK'
    BY <2>8 DEF State, At, Goto, Acquire, AcquireFails, service, bolt, os, Labels
  <2>9. ASSUME NEW r \in Requests, Arrive(r) PROVE TypeOK'
    BY <2>9, OpsAssumption
       DEF Arrive, Goto, service, bolt, os, Labels, AllOps, Callers
  <2>10. CASE MainStep
    BY <2>10 DEF MainStep, SpawnBootstrap, CloseServer, At, Goto, service, bolt, os, Labels
  <2>11. CASE Signal
    BY <2>11 DEF Signal, Interrupt, At, Goto, service, bolt, os, Labels
  <2>12. ASSUME NEW p \in Procs, Serve(p) \/ Obey(p) \/ Crash(p) PROVE TypeOK'
    BY <2>12 DEF Serve, Obey, Crash, Exit, service, bolt
  <2>13. CASE UNCHANGED vars
    BY <2>13 DEF vars, service, bolt, os
  <2>14. QED
    BY <2>1, <2>2, <2>3, <2>4, <2>5, <2>6, <2>7, <2>8, <2>9, <2>10, <2>11, <2>12, <2>13
       DEF Next, Step
<1>3. QED  BY <1>1, <1>2, PTL DEF Spec

-----------------------------------------------------------------------------
(* No Neo4j runs behind the wrapper's back.                                *)

\* What TrackedInv depends on.
Frame ==
    /\ \A c \in Callers : /\ pc'[Cleaner(c)] = pc[Cleaner(c)]
                          /\ cmd'[Cleaner(c)] = cmd[Cleaner(c)]
    /\ \A t \in Threads : pc'[t] \in {"read", "clean"} => pc'[t] = pc[t]
    /\ serviceCmd' = serviceCmd
    /\ proc' = proc
    /\ sigs' = sigs
    /\ panicked' = panicked

LEMMA FrameKeeps == TrackedInv /\ Frame => TrackedInv'
BY DEF TrackedInv, Frame, CleanerLabels, OneCleaner, Pending, Tracked, SingleInterrupt, Alive

\* The goroutines of one caller are different, and so are the cleaners of two.
LEMMA CleanerIsDifferent ==
    ASSUME NEW c \in Callers
    PROVE  /\ \A d \in Callers : /\ Caller(d) # Cleaner(c)
                                 /\ Waiter(d) # Cleaner(c)
                                 /\ Restarter(d) # Cleaner(c)
                                 /\ Cleaner(d) = Cleaner(c) => d = c
           /\ MainThread # Cleaner(c)
           /\ Boot # Cleaner(c)
BY DEF Caller, Waiter, Cleaner, Restarter, MainThread, Boot

\* A goroutine that is not a cleaner moves, spawns none and leaves the process
\* alone: every step but those of Start, Stop, the cleaner and the process.
LEMMA OtherStep ==
    ASSUME TypeOK, TrackedInv, NEW t \in Threads, NEW label,
           pc[t] \notin {"idle", "read", "await", "clean", "done"},
           pc' = [pc EXCEPT ![t] = label],
           label \notin {"read", "clean"},
           \/ cmd' = cmd
           \/ \E p : cmd' = [cmd EXCEPT ![t] = p],
           UNCHANGED <<serviceCmd, os, panicked>>
    PROVE  TrackedInv'
<1>1. \A c \in Callers : t # Cleaner(c)
  BY DEF TrackedInv, CleanerLabels
<1>2. \A c \in Callers : pc'[Cleaner(c)] = pc[Cleaner(c)]
  BY <1>1, ThreadTypes DEF TypeOK
<1>3. \A c \in Callers : cmd'[Cleaner(c)] = cmd[Cleaner(c)]
  BY <1>1, ThreadTypes DEF TypeOK
<1>4. \A u \in Threads : pc'[u] \in {"read", "clean"} => pc'[u] = pc[u]
  BY DEF TypeOK
<1>5. Frame
  BY <1>2, <1>3, <1>4 DEF Frame, os
<1>6. QED  BY <1>5, FrameKeeps


LEMMA InitTracked == Init => TrackedInv
<1> SUFFICES ASSUME Init PROVE TrackedInv
  OBVIOUS
<1>1. \A c \in Callers : pc[Cleaner(c)] = "idle"
  BY ThreadTypes, CleanerIsDifferent DEF Init
<1>2. QED
  BY <1>1 DEF Init, TrackedInv, Tracked, OneCleaner, Pending, CleanerLabels, Alive

\* Start refuses a command that exists, so there is no cleaner to disturb.
LEMMA StartKeepsTracked ==
    ASSUME TypeOK, TrackedInv, NEW t \in Threads, Start(t)
    PROVE  TrackedInv'
<1> USE DEF At, Goto, service, os
<1>0. \A ok \in BOOLEAN : AfterStart(t, ok) \notin {"read", "clean"}
  BY DEF AfterStart
<1>1. CASE StartBusy(t)     BY <1>0, <1>1, OtherStep DEF StartBusy
<1>2. CASE StartRefused(t)  BY <1>0, <1>2, OtherStep DEF StartRefused
<1>3. CASE StartFails(t)    BY <1>0, <1>3, OtherStep DEF StartFails
<1>4. CASE StartOk(t)
  <2>1. \A c \in Callers : pc'[Cleaner(c)] = pc[Cleaner(c)]
    BY <1>4, ThreadTypes, CleanerIsDifferent
       DEF StartOk, TypeOK, TrackedInv, CleanerLabels
  <2>2. SingleInterrupt' => SingleInterrupt
    BY <1>4 DEF StartOk, SingleInterrupt
  <2>3. SingleInterrupt => \A c \in Callers : ~Pending(c)
    BY <1>4 DEF StartOk, TrackedInv, OneCleaner
  <2>4. OneCleaner' \/ ~SingleInterrupt'
    BY <2>1, <2>2, <2>3 DEF OneCleaner, Pending
  <2>5. Tracked'
    <3> SUFFICES ASSUME SingleInterrupt' PROVE ~panicked' /\ \A p \in Procs : Alive(p)' => serviceCmd' = p
      BY DEF Tracked
    <3>1. ~panicked /\ \A p \in Procs : ~Alive(p)
      BY <1>4, <2>2, NamesAssumption DEF StartOk, TrackedInv, Tracked, Procs
    <3>2. QED  BY <1>4, <3>1, ThreadTypes DEF StartOk, Alive, TypeOK
  <2>6. \A u \in Threads : pc'[u] \in {"read", "clean"} => pc'[u] = pc[u]
    BY <1>0, <1>4, ThreadTypes DEF StartOk, TypeOK
  <2>7. QED  BY <2>1, <2>4, <2>5, <2>6 DEF TrackedInv, CleanerLabels
<1>5. QED  BY <1>1, <1>2, <1>3, <1>4 DEF Start

\* Stop spawns a cleaner only with an interrupt.  If another cleaner was pending
\* the process had been interrupted before.
LEMMA StopKeepsTracked ==
    ASSUME TypeOK, TrackedInv, NEW t \in Threads, Stop(t)
    PROVE  TrackedInv'
<1>1. pc[t] \in StopLabels
  BY DEF Stop, StopNoContext, StopIgnored, StopNothing, StopTooLate, StopSignals, InStop, At
<1>2. \A c \in Callers : t # Cleaner(c)
  BY <1>1 DEF TrackedInv, CleanerLabels, StopLabels
<1>3. CASE StopNoContext(t) \/ StopIgnored(t) \/ StopNothing(t) \/ StopTooLate(t)
  <2>1. /\ \E ok \in BOOLEAN : StopReturns(t, ok)
        /\ UNCHANGED <<serviceCmd, cmd, os, panicked>>
    BY <1>3 DEF StopNoContext, StopIgnored, StopNothing, StopTooLate, service, os
  <2>2. \A c \in Callers : pc'[Cleaner(c)] = pc[Cleaner(c)]
    BY <2>1, <1>2, ThreadTypes, CleanerIsDifferent DEF StopReturns, TypeOK
  <2>3. \A u \in Threads : pc'[u] \in {"read", "clean"} => pc'[u] = pc[u]
    BY <2>1, ThreadTypes DEF StopReturns, AfterStop, TypeOK
  <2>4. QED  BY <2>1, <2>2, <2>3, FrameKeeps DEF Frame, os
<1>4. CASE StopSignals(t)
  <2> DEFINE me == t[2]
  <2>1. /\ me \in Callers
        /\ pc'[Cleaner(me)] = "read"
        /\ \A c \in Callers \ {me} : pc'[Cleaner(c)] = pc[Cleaner(c)]
    BY <1>4, <1>2, ThreadTypes, CleanerIsDifferent DEF StopSignals, TypeOK
  <2>2. /\ serviceCmd \in Procs
        /\ sigs'[serviceCmd] = sigs[serviceCmd] + 1
        /\ \A p \in Procs \ {serviceCmd} : sigs'[p] = sigs[p]
        /\ UNCHANGED <<serviceCmd, proc, cmd, panicked>>
    BY <1>4 DEF StopSignals, TypeOK
  <2>3. CleanerLabels'
    <3>1. \A u \in Threads : pc'[u] \in {"read", "clean"} =>
            pc'[u] = pc[u] \/ u = Cleaner(me)
      BY <1>4, ThreadTypes DEF StopSignals, AfterStop, TypeOK
    <3>2. QED  BY <2>1, <3>1 DEF TrackedInv, CleanerLabels
  <2>4. SUFFICES ASSUME SingleInterrupt' PROVE Tracked' /\ OneCleaner'
    BY <2>3 DEF TrackedInv
  <2>5. sigs[serviceCmd] = 0 /\ SingleInterrupt
    BY <2>2, <2>4 DEF SingleInterrupt, TypeOK
  <2>6. \A c \in Callers : ~Pending(c)
    BY <2>5 DEF TrackedInv, OneCleaner
  <2>7. \A c \in Callers : Pending(c)' => c = me
    BY <2>1, <2>6 DEF Pending
  <2>8. sigs'[serviceCmd] > 0 /\ serviceCmd # NoCmd
    BY <2>2, <2>5, NamesAssumption DEF Procs
  <2>9. OneCleaner'
    BY <2>1, <2>2, <2>7, <2>8 DEF OneCleaner
  <2>10. Tracked'
    BY <2>2, <2>5 DEF TrackedInv, Tracked, Alive
  <2>11. QED  BY <2>9, <2>10
<1>5. QED  BY <1>3, <1>4 DEF Stop

\* The pending cleaner finds the command, and clears it after the process.
LEMMA CleanKeepsTracked ==
    ASSUME TypeOK, TrackedInv, NEW t \in Threads, Clean(t),
           NEW me \in Callers, t = Cleaner(me)
    PROVE  TrackedInv'
<1>1. SingleInterrupt' => SingleInterrupt
  BY DEF Clean, CleanerPanics, CleanerReads, CleanerGivesUp, CleanerCleans, os, SingleInterrupt
<1>2. \A c \in Callers \ {me} : Cleaner(c) # t
  BY CleanerIsDifferent
<1> USE DEF At, Goto, Acquire, AcquireFails, service, os, TypeOK
<1>a. CleanerLabels'
  BY ThreadTypes DEF Clean, CleanerPanics, CleanerReads, CleanerGivesUp, CleanerCleans,
                     TrackedInv, CleanerLabels
<1>3. CASE CleanerPanics(t)
  BY <1>1, <1>3 DEF CleanerPanics, TrackedInv, CleanerLabels, OneCleaner, Pending
<1>4. CASE CleanerReads(t)
  <2>1. /\ pc'[t] = "await"
        /\ cmd'[t] = serviceCmd
        /\ \A c \in Callers \ {me} : /\ pc'[Cleaner(c)] = pc[Cleaner(c)]
                                     /\ cmd'[Cleaner(c)] = cmd[Cleaner(c)]
        /\ UNCHANGED <<serviceCmd, proc, sigs, panicked>>
    BY <1>2, <1>4, ThreadTypes DEF CleanerReads
  <2>2. SingleInterrupt' => OneCleaner'
    BY <1>1, <1>4, <2>1 DEF CleanerReads, TrackedInv, OneCleaner, Pending
  <2>3. QED  BY <1>1, <1>a, <2>1, <2>2 DEF TrackedInv, Tracked, Alive
<1>5. CASE CleanerGivesUp(t)
  <2>1. /\ pc'[t] = "done"
        /\ \A c \in Callers \ {me} : pc'[Cleaner(c)] = pc[Cleaner(c)]
        /\ UNCHANGED <<serviceCmd, proc, sigs, cmd, panicked>>
    BY <1>2, <1>5, ThreadTypes DEF CleanerGivesUp
  <2>2. SingleInterrupt' => OneCleaner'
    BY <1>1, <2>1 DEF TrackedInv, OneCleaner, Pending
  <2>3. QED  BY <1>1, <1>a, <2>1, <2>2 DEF TrackedInv, Tracked, Alive
<1>6. CASE CleanerCleans(t)
  <2>1. /\ pc[t] = "clean"
        /\ pc'[t] = "done"
        /\ \A c \in Callers \ {me} : pc'[Cleaner(c)] = pc[Cleaner(c)]
        /\ UNCHANGED <<proc, sigs, cmd, panicked>>
    BY <1>2, <1>6, ThreadTypes DEF CleanerCleans
  <2>2. SingleInterrupt => /\ proc[serviceCmd] = "reaped"
                           /\ \A c \in Callers : Pending(c) => c = me
    BY <2>1 DEF TrackedInv, OneCleaner, Pending
  <2>3. SingleInterrupt' => OneCleaner'
    BY <1>1, <2>1, <2>2 DEF OneCleaner, Pending
  <2>4. SingleInterrupt => \A p \in Procs : ~Alive(p)
    BY <2>2 DEF TrackedInv, Tracked, Alive
  <2>5. QED
    BY <1>1, <1>a, <2>1, <2>3, <2>4 DEF TrackedInv, Tracked, Alive
<1>7. QED  BY <1>3, <1>4, <1>5, <1>6 DEF Clean


\* The cleaner waits for the command the service has; others may reap it too.
LEMMA WaitKeepsTracked ==
    ASSUME TypeOK, TrackedInv, NEW t \in Threads, Wait(t)
    PROVE  TrackedInv'
<1> USE DEF At, Goto, service, os
<1>1. \A c \in Callers : t[1] # "cleaner" => t # Cleaner(c)
  BY DEF Cleaner
<1>2. CASE WaitNoContext(t)
  BY <1>2, OtherStep DEF WaitNoContext, WaitLabels
<1>3. CASE WaitCopies(t)
  <2>1. \A c \in Callers : t # Cleaner(c)
    BY <1>3 DEF WaitCopies, WaitLabels, TrackedInv, CleanerLabels
  <2>2. t[1] # "cleaner"
    BY <2>1 DEF Threads, Cleaner
  <2>3. AfterAwait(t) \notin {"read", "clean"}
    BY <2>2 DEF AfterAwait
  <2> DEFINE label == IF serviceCmd = NoCmd THEN AfterAwait(t) ELSE "await"
  <2>4. /\ pc[t] \in WaitLabels
        /\ pc' = [pc EXCEPT ![t] = label]
        /\ cmd' = [cmd EXCEPT ![t] = serviceCmd]
        /\ UNCHANGED <<serviceCmd, os, panicked>>
    BY <1>3 DEF WaitCopies
  <2>5. label \notin {"read", "clean"}
    BY <2>3
  <2>6. QED
    <3> HIDE DEF label
    <3>1. QED  BY <2>4, <2>5, OtherStep DEF WaitLabels
<1>4. CASE WaitTS(t)
  <2>1. /\ cmd[t] \in Procs \cup {NoCmd}
        /\ proc[cmd[t]] \in {"exited", "reaped"}
        /\ \A p \in Procs : \/ proc'[p] = proc[p]
                            \/ proc'[p] = "reaped" /\ p = cmd[t]
        /\ cmd[t] \in Procs => proc'[cmd[t]] = "reaped"
        /\ \A u \in Threads \ {t} : pc'[u] = pc[u] /\ cmd'[u] = cmd[u]
        /\ pc[t] = "await" /\ pc'[t] = AfterAwait(t)
        /\ UNCHANGED <<serviceCmd, sigs, panicked>>
    BY <1>4, LabelTypes DEF WaitTS, TypeOK
  <2>2. AfterAwait(t) = "clean" => t = Cleaner(t[2]) /\ t[2] \in Callers
    BY ThreadTypes DEF AfterAwait, Cleaner, Threads
  <2>3. AfterAwait(t) # "clean" => \A c \in Callers : t # Cleaner(c)
    BY DEF AfterAwait, Cleaner
  <2>4. AfterAwait(t) \notin {"read", "await"}
    BY DEF AfterAwait
  <2>5. CleanerLabels'
    BY <2>1, <2>2, <2>3, <2>4, ThreadTypes DEF TrackedInv, CleanerLabels
  <2>6. SUFFICES ASSUME SingleInterrupt' PROVE Tracked' /\ OneCleaner'
    BY <2>5 DEF TrackedInv
  <2>7. Tracked /\ OneCleaner
    BY <2>1, <2>6 DEF TrackedInv, SingleInterrupt
  <2>8. Tracked'
    BY <2>1, <2>6, <2>7 DEF Tracked, Alive, SingleInterrupt
  <2>9. OneCleaner'
    <3> SUFFICES ASSUME NEW c \in Callers, Pending(c)'
                 PROVE  /\ serviceCmd' # NoCmd
                        /\ sigs'[serviceCmd'] > 0
                        /\ pc'[Cleaner(c)] = "await" => cmd'[Cleaner(c)] = serviceCmd'
                        /\ pc'[Cleaner(c)] = "clean" => proc'[serviceCmd'] = "reaped"
                        /\ \A d \in Callers : Pending(d)' => d = c
      BY DEF OneCleaner
    <3>1. \A d \in Callers : Pending(d)' => Pending(d)
      BY <2>1, ThreadTypes DEF Pending
    <3>2. /\ serviceCmd \in Procs
          /\ sigs[serviceCmd] > 0
          /\ \A d \in Callers : Pending(d)' => d = c
      BY <2>7, <3>1 DEF OneCleaner, TypeOK
    <3>3. CASE t = Cleaner(c)
      <4>1. cmd[t] = serviceCmd
        BY <2>1, <2>7, <3>1, <3>3 DEF OneCleaner
      <4>2. QED  BY <2>1, <2>4, <3>2, <3>3, <4>1, NamesAssumption DEF Procs
    <3>4. CASE t # Cleaner(c)
      <4>1. pc'[Cleaner(c)] = pc[Cleaner(c)] /\ cmd'[Cleaner(c)] = cmd[Cleaner(c)]
        BY <2>1, <3>4, ThreadTypes
      <4>2. QED
        BY <2>1, <2>7, <3>1, <3>2, <4>1, NamesAssumption DEF OneCleaner, Procs
    <3>5. QED  BY <3>3, <3>4
  <2>10. QED  BY <2>8, <2>9
<1>5. QED  BY <1>2, <1>3, <1>4 DEF Wait

\* The Bolt checks change the state only.
LEMMA SpinUpKeepsTracked ==
    ASSUME TypeOK, TrackedInv, NEW t \in Threads, WaitForNeo4j(t)
    PROVE  TrackedInv'
<1> DEFINE Moves(label) ==
             /\ pc[t] \notin {"idle", "read", "await", "clean", "done"}
             /\ pc' = [pc EXCEPT ![t] = label]
             /\ label \notin {"read", "clean"}
<1>1. ASSUME ~PollMisses(t) PROVE \E label : Moves(label)
  <2> USE DEF At, Goto
  <2>1. CASE LockSpinUp(t)
    <3>1. Moves("look")       BY <2>1 DEF LockSpinUp
    <3>2. QED  BY <3>1
  <2>2. CASE SpinUpNoContext(t)
    <3>1. Moves("done")       BY <2>2 DEF SpinUpNoContext
    <3>2. QED  BY <3>1
  <2>3. CASE Look(t)
    <3>1. Moves("arm") \/ Moves("peek")
      BY <2>3 DEF Look
    <3>2. QED  BY <3>1
  <2>4. CASE Arm(t)
    <3>1. Moves("poll")       BY <2>4 DEF Arm
    <3>2. QED  BY <3>1
  <2>5. CASE PollCancelled(t)
    <3>1. Moves("cancelled")  BY <2>5 DEF PollCancelled
    <3>2. QED  BY <3>1
  <2>6. CASE PollQuits(t)
    <3>1. Moves("timedOut")   BY <2>6 DEF PollQuits
    <3>2. QED  BY <3>1
  <2>7. CASE PollConnects(t)
    <3>1. Moves("connected")  BY <2>7 DEF PollConnects
    <3>2. QED  BY <3>1
  <2>8. CASE PollEnds(t) \/ Peek(t)
    <3>1. Moves("update") \/ Moves("done")
      BY <2>8 DEF PollEnds, Peek, AfterSpinUp
    <3>2. QED  BY <3>1
  <2>9. QED
    BY <1>1, <2>1, <2>2, <2>3, <2>4, <2>5, <2>6, <2>7, <2>8 DEF WaitForNeo4j
<1>2. UNCHANGED <<serviceCmd, os, cmd, panicked>>
  BY DEF WaitForNeo4j, LockSpinUp, SpinUpNoContext, Look, Arm, PollCancelled, PollQuits,
         PollConnects, PollMisses, PollEnds, Peek, service, os
<1>3. CASE PollMisses(t)
  BY <1>2, <1>3, FrameKeeps DEF PollMisses, Frame, os
<1>4. CASE ~PollMisses(t)
  <2>1. PICK label : Moves(label)
    BY <1>1, <1>4
  <2>2. QED  BY <1>2, <2>1, OtherStep
<1>5. QED  BY <1>3, <1>4

\* A process that serves was booting, and one that exits runs no more.
LEMMA ProcessKeepsTracked ==
    ASSUME TypeOK, TrackedInv, NEW p \in Procs, Serve(p) \/ Obey(p) \/ Crash(p)
    PROVE  TrackedInv'
<1>1. /\ \A q \in Procs : q # p => proc'[q] = proc[q]
      /\ proc'[p] \in {"serving", "exited"}
      /\ Alive(p)
      /\ UNCHANGED <<serviceCmd, sigs, pc, cmd, panicked>>
  BY DEF Serve, Obey, Crash, Exit, Alive, TypeOK, service
<1>2. \A q \in Procs : /\ Alive(q)' => Alive(q)
                       /\ proc[q] = "reaped" => proc'[q] = "reaped"
  BY <1>1 DEF Alive
<1>3. CleanerLabels'
  BY <1>1 DEF TrackedInv, CleanerLabels
<1>4. SingleInterrupt' => Tracked' /\ OneCleaner'
  BY <1>1, <1>2 DEF TrackedInv, SingleInterrupt, Tracked, OneCleaner, Pending, TypeOK
<1>5. QED  BY <1>3, <1>4 DEF TrackedInv

LEMMA TrackedInvariant == Spec => []TrackedInv
<1>1. Init => TrackedInv
  BY InitTracked
<1>2. TypeOK /\ TrackedInv /\ [Next]_vars => TrackedInv'
  <2> SUFFICES ASSUME TypeOK, TrackedInv, [Next]_vars PROVE TrackedInv'
    OBVIOUS
  <2>1. ASSUME NEW t \in Threads, Release(t) PROVE TrackedInv'
    BY <2>1, FrameKeeps DEF Release, Frame, service, os
  <2>2. ASSUME NEW t \in Threads, Clean(t) PROVE TrackedInv'
    <3>1. pc[t] \in {"read", "clean"}
      BY <2>2 DEF Clean, CleanerPanics, CleanerReads, CleanerGivesUp, CleanerCleans, At
    <3>2. PICK c \in Callers : t = Cleaner(c)
      BY <3>1 DEF TrackedInv, CleanerLabels
    <3>3. QED  BY <2>2, <3>2, CleanKeepsTracked
  <2>3. ASSUME NEW t \in Threads, Update(t) \/ State(t) PROVE TrackedInv'
    BY <2>3, OtherStep
       DEF Update, UpdateNoContext, UpdateRefused, UpdateBegins, UpdateEnds, State,
           At, Goto, service, os
  <2>4. ASSUME NEW r \in Requests, Arrive(r) PROVE TrackedInv'
    <3>1. PICK op \in Ops : pc' = [pc EXCEPT ![Caller(r)] = op]
      BY <2>4 DEF Arrive, Goto
    <3>2. op \notin {"read", "clean"} /\ r \in Callers
      BY OpsAssumption DEF AllOps, Callers
    <3>3. /\ \A c \in Callers : pc'[Cleaner(c)] = pc[Cleaner(c)]
          /\ \A u \in Threads : pc'[u] \in {"read", "clean"} => pc'[u] = pc[u]
      BY <3>1, <3>2, ThreadTypes, CleanerIsDifferent DEF TypeOK
    <3>4. QED  BY <2>4, <3>3, FrameKeeps DEF Arrive, Frame, service, os
  <2>5. CASE MainStep \/ Signal
    <3>1. /\ \A c \in Callers : pc'[Cleaner(c)] = pc[Cleaner(c)]
          /\ \A u \in Threads : pc'[u] \in {"read", "clean"} => pc'[u] = pc[u]
          /\ UNCHANGED <<serviceCmd, os, cmd, panicked>>
      BY <2>5, ThreadTypes, CleanerIsDifferent
         DEF MainStep, SpawnBootstrap, CloseServer, Signal, Interrupt, At, Goto, service, TypeOK
    <3>2. QED  BY <3>1, FrameKeeps DEF Frame, os
  <2>6. CASE UNCHANGED vars
    BY <2>6, FrameKeeps DEF vars, Frame, service, os
  <2>7. QED
    BY <2>1, <2>2, <2>3, <2>4, <2>5, <2>6, StartKeepsTracked, StopKeepsTracked,
       WaitKeepsTracked, SpinUpKeepsTracked, ProcessKeepsTracked
       DEF Next, Step
<1>3. QED  BY <1>1, <1>2, TypeCorrect, PTL DEF Spec

\* Unless a process is interrupted twice, the wrapper knows every Neo4j that
\* runs, never runs two, and no cleaner dereferences nil.
THEOREM NoOrphan == Spec => []Tracked
<1>1. TypeOK /\ TrackedInv => Tracked
  BY DEF TrackedInv, Tracked
<1>2. QED  BY <1>1, TrackedInvariant, TypeCorrect, PTL

=============================================================================
