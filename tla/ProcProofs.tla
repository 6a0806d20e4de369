----------------------------- MODULE ProcProofs -----------------------------
(***************************************************************************)
(* Proofs about processes and the scheduler (module Proc) for every number *)
(* of processes and CPUs: the locking protocol of the context switch, that *)
(* sleep() loses no wakeup of wait(), and that every process has a parent. *)
(*                                                                         *)
(* They rest on one inductive invariant, ProcInv, whose parts say who may  *)
(* hold which lock, what state and place of a process go together, and     *)
(* what an exit() still has to do while it holds wait_lock.                *)
(***************************************************************************)
EXTENDS Proc, TLAPS

\* A CPU holds at most the lock of the process it executes, and holds that one
\* when it enters the scheduler; who is executed is RUNNING until then.
SwitchInv ==
    /\ \A c, d \in CPU : cpuProc[c] # None /\ cpuProc[c] = cpuProc[d] => c = d
    /\ \A p \in Proc : lock[p] # None => cpuProc[lock[p]] = p
    /\ \A c \in CPU : back[c] =>
           /\ cpuProc[c] # None /\ lock[cpuProc[c]] = c
           /\ state[cpuProc[c]] \in {"RUNNABLE", "SLEEPING", "ZOMBIE"}
    /\ \A c \in CPU : cpuProc[c] # None /\ ~back[c] => state[cpuProc[c]] = "RUNNING"

\* wait_lock is held by the CPU of the process that is in one of these places.
UnderWaitLock == {"exit2", "exit3", "wait2", "sleep1"}
WaitLockInv ==
    /\ \A p \in Proc : pc[p] \in UnderWaitLock =>
           waitLock # None /\ cpuProc[waitLock] = p /\ ~back[waitLock]
    /\ waitLock # None => cpuProc[waitLock] # None /\ pc[cpuProc[waitLock]] \in UnderWaitLock

\* The state of a process and the place where its thread is
PlaceInv ==
    \A p \in Proc :
        /\ state[p] = "UNUSED" => pc[p] \in {"ret", "dead"}
        /\ state[p] = "USED" => pc[p] = "ret"
        /\ state[p] = "ZOMBIE" => pc[p] = "dead"
        /\ pc[p] = "dead" => state[p] \in {"ZOMBIE", "UNUSED"}
        /\ state[p] = "SLEEPING" => pc[p] = "sleep3"
        /\ pc[p] = "sleep3" => chan[p] = p
        /\ pc[p] = "sleep2" => lock[p] # None /\ ~back[lock[p]]

\* The slot that fork() has taken is nobody else's.
ForkInv ==
    \A p \in Proc : pc[p] \in {"fork1", "fork2"} =>
        /\ kid[p] # None /\ state[kid[p]] = "USED"
        /\ \A r \in Proc : pc[r] \in {"fork1", "fork2"} /\ kid[r] = kid[p] => r = p

\* init does not exit.
InitprocInv ==
    /\ ~killed[initproc] /\ pc[initproc] \notin {"exit1", "exit2", "exit3", "dead"}
    /\ state[initproc] \notin {"UNUSED", "USED", "ZOMBIE"}

\* Who has passed reparent(), or is no process yet, has no children.
NoKidsInv ==
    \A p, q \in Proc : pc[p] \in {"exit2", "exit3", "dead"} \/ state[p] \in {"UNUSED", "USED"}
                       => parent[q] # p

\* A process that sleeps in wait(), or is about to
ToSleep(p) == state[p] = "SLEEPING" \/ pc[p] = "sleep2"

\* Only init may sleep beside a zombie child, and only until the exit() that
\* has handed over the child comes to it in its first loop.  The scan of wait()
\* has found no zombie so far.  The second loop of exit() wakes the parent.
WakeupInv ==
    /\ \A p, q \in Proc : ToSleep(p) /\ parent[q] = p /\ state[q] = "ZOMBIE" =>
           p = initproc /\ \E x \in Proc : pc[x] = "exit2" /\ initproc \in todo[x]
    /\ \A p, q \in Proc :
           (pc[p] = "sleep1" \/ (pc[p] = "wait2" /\ q \notin todo[p])) /\ parent[q] = p
             => state[q] # "ZOMBIE"
    /\ \A p, q \in Proc : pc[q] = "exit3" /\ parent[q] = p /\ p \notin todo[q] => ~ToSleep(p)

ProcInv == /\ TypeOK /\ SwitchInv /\ WaitLockInv /\ PlaceInv /\ ForkInv
           /\ InitprocInv /\ NoKidsInv /\ WakeupInv /\ HasLiveParent

-----------------------------------------------------------------------------
(* Each step of Next keeps each part.                                       *)

\* Every step of proc.c keeps the types.
LEMMA TypeStep ==
    ASSUME TypeOK, [Next]_vars
    PROVE  TypeOK'
<1> USE ProcAssumption DEF TypeOK
<1>1. ASSUME NEW c \in CPU, SchedulerAgain(c) PROVE TypeOK'
  BY <1>1 DEF SchedulerAgain
<1>2. ASSUME NEW c \in CPU, NEW p \in Proc, Schedule(c, p) PROVE TypeOK'
  BY <1>2 DEF Schedule
<1>3. ASSUME NEW c \in CPU, NEW p \in Proc, Resume(c, p) PROVE TypeOK'
  BY <1>3 DEF Resume, Exec, Goto
<1>4. ASSUME NEW c \in CPU, NEW p \in Proc, Yield(c, p) PROVE TypeOK'
  BY <1>4 DEF Yield, Exec, Held, Swtch
<1>5. ASSUME NEW c \in CPU, NEW p \in Proc, Trap(c, p) PROVE TypeOK'
  BY <1>5 DEF Trap, Exec, Goto, Runs
<1>6. ASSUME NEW c \in CPU, NEW p \in Proc, NEW l \in {"fork", "kill", "exit1", "wait1"},
             Syscall(c, p, l)
      PROVE  TypeOK'
  BY <1>6 DEF Syscall, Exec, Goto, Runs
<1>7. ASSUME NEW c \in CPU, NEW p \in Proc, NEW q \in Proc, ForkAlloc(c, p, q)
      PROVE  TypeOK'
  BY <1>7 DEF ForkAlloc, Exec, Runs
<1>8. ASSUME NEW c \in CPU, NEW p \in Proc, ForkFail(c, p) PROVE TypeOK'
  BY <1>8 DEF ForkFail, Exec, Goto, Runs
<1>9. ASSUME NEW c \in CPU, NEW p \in Proc, ForkParent(c, p) PROVE TypeOK'
  BY <1>9 DEF ForkParent, Exec, Goto, Runs
<1>10. ASSUME NEW c \in CPU, NEW p \in Proc, ForkRunnable(c, p) PROVE TypeOK'
  BY <1>10 DEF ForkRunnable, Exec, Goto, Runs
<1>11. ASSUME NEW c \in CPU, NEW p \in Proc, NEW q \in Proc, Kill(c, p, q) PROVE TypeOK'
  BY <1>11 DEF Kill, Exec, Goto, KilledState, Runs
<1>12. ASSUME NEW c \in CPU, NEW p \in Proc, KillFail(c, p) PROVE TypeOK'
  BY <1>12 DEF KillFail, Exec, Goto, Runs
<1>13. ASSUME NEW c \in CPU, NEW p \in Proc, ExitReparent(c, p) PROVE TypeOK'
  BY <1>13 DEF ExitReparent, Exec, Goto, Kids, Reparented, Runs
<1>14. ASSUME NEW c \in CPU, NEW p \in Proc, NEW q \in Proc, ExitWakeInit(c, p, q)
       PROVE  TypeOK'
  BY <1>14 DEF ExitWakeInit, Exec, Runs, WakeOne
<1>15. ASSUME NEW c \in CPU, NEW p \in Proc, NEW q \in Proc, ExitWakeParent(c, p, q)
       PROVE  TypeOK'
  BY <1>15 DEF ExitWakeParent, Exec, Runs, WakeOne
<1>16. ASSUME NEW c \in CPU, NEW p \in Proc, ExitNextLoop(c, p) PROVE TypeOK'
  BY <1>16 DEF ExitNextLoop, Exec, Goto, Runs
<1>17. ASSUME NEW c \in CPU, NEW p \in Proc, ExitZombie(c, p) PROVE TypeOK'
  BY <1>17 DEF ExitZombie, Exec, Goto, Runs, Swtch
<1>18. ASSUME NEW c \in CPU, NEW p \in Proc, WaitLock(c, p) PROVE TypeOK'
  BY <1>18 DEF WaitLock, Exec, Goto, Kids, Runs
<1>19. ASSUME NEW c \in CPU, NEW p \in Proc, NEW q \in Proc, WaitSkip(c, p, q)
       PROVE  TypeOK'
  BY <1>19 DEF WaitSkip, Exec, OutOfExit, Runs
<1>20. ASSUME NEW c \in CPU, NEW p \in Proc, NEW q \in Proc, WaitReap(c, p, q)
       PROVE  TypeOK'
  BY <1>20 DEF WaitReap, Exec, Goto, OutOfExit, Runs
<1>21. ASSUME NEW c \in CPU, NEW p \in Proc, NEW q \in Proc, WaitBadAddr(c, p, q)
       PROVE  TypeOK'
  BY <1>21 DEF WaitBadAddr, Exec, Goto, OutOfExit, Runs
<1>22. ASSUME NEW c \in CPU, NEW p \in Proc, WaitGivesUp(c, p) PROVE TypeOK'
  BY <1>22 DEF WaitGivesUp, Exec, Goto, Kids, Runs
<1>23. ASSUME NEW c \in CPU, NEW p \in Proc, WaitSleeps(c, p) PROVE TypeOK'
  BY <1>23 DEF WaitSleeps, Exec, Goto, Kids, Runs
<1>24. ASSUME NEW c \in CPU, NEW p \in Proc, SleepLock(c, p) PROVE TypeOK'
  BY <1>24 DEF SleepLock, Exec, Goto, LockSelf, Runs
<1>25. ASSUME NEW c \in CPU, NEW p \in Proc, SleepSched(c, p) PROVE TypeOK'
  BY <1>25 DEF SleepSched, Exec, Goto, Swtch
<1>26. CASE UNCHANGED <<state, chan, killed, parent, lock, waitLock, cpuProc, back, pc, todo, kid>>
  BY <1>26
<1>27. QED
  BY <1>1, <1>2, <1>3, <1>4, <1>5, <1>6, <1>7, <1>8, <1>9, <1>10, <1>11, <1>12, <1>13,
      <1>14, <1>15, <1>16, <1>17, <1>18, <1>19, <1>20, <1>21, <1>22, <1>23, <1>24,
      <1>25, <1>26 DEF vars, Next, Scheduler, Kernel, User, Fork, KillCall, Exit, Wait

\* p->lock is handed over between scheduler() and the thread it switches to: no step
\* leaves a CPU with another lock, or changes the state of a process that runs.
LEMMA SwitchStep ==
    ASSUME TypeOK, SwitchInv, PlaceInv, ForkInv, [Next]_vars
    PROVE  SwitchInv'
<1> USE ProcAssumption DEF ForkInv, PlaceInv, SwitchInv, TypeOK
<1>1. ASSUME NEW c \in CPU, SchedulerAgain(c) PROVE SwitchInv'
  BY <1>1 DEF SchedulerAgain
<1>2. ASSUME NEW c \in CPU, NEW p \in Proc, Schedule(c, p) PROVE SwitchInv'
  BY <1>2 DEF Schedule
<1>3. ASSUME NEW c \in CPU, NEW p \in Proc, Resume(c, p) PROVE SwitchInv'
  BY <1>3 DEF Resume, Exec, Goto
<1>4. ASSUME NEW c \in CPU, NEW p \in Proc, Yield(c, p) PROVE SwitchInv'
  BY <1>4 DEF Yield, Exec, Held, Swtch
<1>5. ASSUME NEW c \in CPU, NEW p \in Proc, NEW q \in Proc, ForkAlloc(c, p, q)
      PROVE  SwitchInv'
  BY <1>5 DEF ForkAlloc, Exec, Runs
<1>6. ASSUME NEW c \in CPU, NEW p \in Proc, ForkRunnable(c, p) PROVE SwitchInv'
  BY <1>6 DEF ForkRunnable, Exec, Goto, Runs
<1>7. ASSUME NEW c \in CPU, NEW p \in Proc, NEW q \in Proc, Kill(c, p, q)
      PROVE  SwitchInv'
  BY <1>7 DEF Kill, Exec, Goto, KilledState, Runs
<1>8. ASSUME NEW c \in CPU, NEW p \in Proc, NEW q \in Proc, ExitWakeInit(c, p, q)
      PROVE  SwitchInv'
  BY <1>8 DEF ExitWakeInit, Exec, Runs, WakeOne
<1>9. ASSUME NEW c \in CPU, NEW p \in Proc, NEW q \in Proc, ExitWakeParent(c, p, q)
      PROVE  SwitchInv'
  BY <1>9 DEF ExitWakeParent, Exec, Runs, WakeOne
<1>10. ASSUME NEW c \in CPU, NEW p \in Proc, ExitZombie(c, p) PROVE SwitchInv'
  BY <1>10 DEF ExitZombie, Exec, Goto, Runs, Swtch
<1>11. ASSUME NEW c \in CPU, NEW p \in Proc, NEW q \in Proc, WaitReap(c, p, q)
       PROVE  SwitchInv'
  BY <1>11 DEF WaitReap, Exec, Goto, OutOfExit, Runs
<1>12. ASSUME NEW c \in CPU, NEW p \in Proc, SleepLock(c, p) PROVE SwitchInv'
  BY <1>12 DEF SleepLock, Exec, Goto, LockSelf, Runs
<1>13. ASSUME NEW c \in CPU, NEW p \in Proc, SleepSched(c, p) PROVE SwitchInv'
  BY <1>13 DEF SleepSched, Exec, Goto, Swtch
<1>14. CASE UNCHANGED <<state, lock, cpuProc, back>>
  BY <1>14
<1>15. QED
  BY <1>1, <1>2, <1>3, <1>4, <1>5, <1>6, <1>7, <1>8, <1>9, <1>10, <1>11, <1>12, <1>13,
      <1>14 DEF vars, Next, Scheduler, Kernel, User, Fork, KillCall, Exit, Wait, Trap,
      Syscall, ForkFail, ForkParent, KillFail, ExitReparent, ExitNextLoop, WaitLock,
      WaitSkip, WaitBadAddr, WaitGivesUp, WaitSleeps

\* wait_lock is taken and given up at the places that UnderWaitLock names, and the
\* timer does not take its holder off the CPU.
LEMMA WaitLockStep ==
    ASSUME TypeOK, SwitchInv, WaitLockInv, [Next]_vars
    PROVE  WaitLockInv'
<1> USE ProcAssumption DEF SwitchInv, TypeOK, UnderWaitLock, WaitLockInv
<1>1. ASSUME NEW c \in CPU, SchedulerAgain(c) PROVE WaitLockInv'
  BY <1>1 DEF SchedulerAgain
<1>2. ASSUME NEW c \in CPU, NEW p \in Proc, Schedule(c, p) PROVE WaitLockInv'
  BY <1>2 DEF Schedule
<1>3. ASSUME NEW c \in CPU, NEW p \in Proc, Resume(c, p) PROVE WaitLockInv'
  BY <1>3 DEF Resume, Exec, Goto
<1>4. ASSUME NEW c \in CPU, NEW p \in Proc, Yield(c, p) PROVE WaitLockInv'
  BY <1>4 DEF Yield, Exec, Held, Swtch
<1>5. ASSUME NEW c \in CPU, NEW p \in Proc, Trap(c, p) PROVE WaitLockInv'
  BY <1>5 DEF Trap, Exec, Goto, Runs
<1>6. ASSUME NEW c \in CPU, NEW p \in Proc, NEW l \in {"fork", "kill", "exit1", "wait1"},
             Syscall(c, p, l)
      PROVE  WaitLockInv'
  BY <1>6 DEF Syscall, Exec, Goto, Runs
<1>7. ASSUME NEW c \in CPU, NEW p \in Proc, NEW q \in Proc, ForkAlloc(c, p, q)
      PROVE  WaitLockInv'
  BY <1>7 DEF ForkAlloc, Exec, Runs
<1>8. ASSUME NEW c \in CPU, NEW p \in Proc, ForkFail(c, p) PROVE WaitLockInv'
  BY <1>8 DEF ForkFail, Exec, Goto, Runs
<1>9. ASSUME NEW c \in CPU, NEW p \in Proc, ForkParent(c, p) PROVE WaitLockInv'
  BY <1>9 DEF ForkParent, Exec, Goto, Runs
<1>10. ASSUME NEW c \in CPU, NEW p \in Proc, ForkRunnable(c, p) PROVE WaitLockInv'
  BY <1>10 DEF ForkRunnable, Exec, Goto, Runs
<1>11. ASSUME NEW c \in CPU, NEW p \in Proc, NEW q \in Proc, Kill(c, p, q)
       PROVE  WaitLockInv'
  BY <1>11 DEF Kill, Exec, Goto, KilledState, Runs
<1>12. ASSUME NEW c \in CPU, NEW p \in Proc, KillFail(c, p) PROVE WaitLockInv'
  BY <1>12 DEF KillFail, Exec, Goto, Runs
<1>13. ASSUME NEW c \in CPU, NEW p \in Proc, ExitReparent(c, p) PROVE WaitLockInv'
  BY <1>13 DEF ExitReparent, Exec, Goto, Kids, Reparented, Runs
<1>14. ASSUME NEW c \in CPU, NEW p \in Proc, ExitNextLoop(c, p) PROVE WaitLockInv'
  BY <1>14 DEF ExitNextLoop, Exec, Goto, Runs
<1>15. ASSUME NEW c \in CPU, NEW p \in Proc, ExitZombie(c, p) PROVE WaitLockInv'
  BY <1>15 DEF ExitZombie, Exec, Goto, Runs, Swtch
<1>16. ASSUME NEW c \in CPU, NEW p \in Proc, WaitLock(c, p) PROVE WaitLockInv'
  BY <1>16 DEF WaitLock, Exec, Goto, Kids, Runs
<1>17. ASSUME NEW c \in CPU, NEW p \in Proc, NEW q \in Proc, WaitReap(c, p, q)
       PROVE  WaitLockInv'
  BY <1>17 DEF WaitReap, Exec, Goto, OutOfExit, Runs
<1>18. ASSUME NEW c \in CPU, NEW p \in Proc, NEW q \in Proc, WaitBadAddr(c, p, q)
       PROVE  WaitLockInv'
  BY <1>18 DEF WaitBadAddr, Exec, Goto, OutOfExit, Runs
<1>19. ASSUME NEW c \in CPU, NEW p \in Proc, WaitGivesUp(c, p) PROVE WaitLockInv'
  BY <1>19 DEF WaitGivesUp, Exec, Goto, Kids, Runs
<1>20. ASSUME NEW c \in CPU, NEW p \in Proc, WaitSleeps(c, p) PROVE WaitLockInv'
  BY <1>20 DEF WaitSleeps, Exec, Goto, Kids, Runs
<1>21. ASSUME NEW c \in CPU, NEW p \in Proc, SleepLock(c, p) PROVE WaitLockInv'
  BY <1>21 DEF SleepLock, Exec, Goto, LockSelf, Runs
<1>22. ASSUME NEW c \in CPU, NEW p \in Proc, SleepSched(c, p) PROVE WaitLockInv'
  BY <1>22 DEF SleepSched, Exec, Goto, Swtch
<1>23. CASE UNCHANGED <<waitLock, cpuProc, back, pc>>
  BY <1>23
<1>24. QED
  BY <1>1, <1>2, <1>3, <1>4, <1>5, <1>6, <1>7, <1>8, <1>9, <1>10, <1>11, <1>12, <1>13,
      <1>14, <1>15, <1>16, <1>17, <1>18, <1>19, <1>20, <1>21, <1>22, <1>23 DEF vars,
      Next, Scheduler, Kernel, User, Fork, KillCall, Exit, Wait, ExitWakeInit,
      ExitWakeParent, WaitSkip

\* Who changes a state under p->lock finds the process where it expects it: wakeup()
\* and kill() only touch a thread that has left its CPU in sleep().
LEMMA PlaceStep ==
    ASSUME TypeOK, SwitchInv, PlaceInv, ForkInv, [Next]_vars
    PROVE  PlaceInv'
<1> USE ProcAssumption DEF ForkInv, PlaceInv, SwitchInv, TypeOK
<1>1. ASSUME NEW c \in CPU, SchedulerAgain(c) PROVE PlaceInv'
  BY <1>1 DEF SchedulerAgain
<1>2. ASSUME NEW c \in CPU, NEW p \in Proc, Schedule(c, p) PROVE PlaceInv'
  BY <1>2 DEF Schedule
<1>3. ASSUME NEW c \in CPU, NEW p \in Proc, Resume(c, p) PROVE PlaceInv'
  BY <1>3 DEF Resume, Exec, Goto
<1>4. ASSUME NEW c \in CPU, NEW p \in Proc, Yield(c, p) PROVE PlaceInv'
  BY <1>4 DEF Yield, Exec, Held, Swtch
<1>5. ASSUME NEW c \in CPU, NEW p \in Proc, Trap(c, p) PROVE PlaceInv'
  BY <1>5 DEF Trap, Exec, Goto, Runs
<1>6. ASSUME NEW c \in CPU, NEW p \in Proc, NEW l \in {"fork", "kill", "exit1", "wait1"},
             Syscall(c, p, l)
      PROVE  PlaceInv'
  BY <1>6 DEF Syscall, Exec, Goto, Runs
<1>7. ASSUME NEW c \in CPU, NEW p \in Proc, NEW q \in Proc, ForkAlloc(c, p, q)
      PROVE  PlaceInv'
  BY <1>7 DEF ForkAlloc, Exec, Runs
<1>8. ASSUME NEW c \in CPU, NEW p \in Proc, ForkFail(c, p) PROVE PlaceInv'
  BY <1>8 DEF ForkFail, Exec, Goto, Runs
<1>9. ASSUME NEW c \in CPU, NEW p \in Proc, ForkParent(c, p) PROVE PlaceInv'
  BY <1>9 DEF ForkParent, Exec, Goto, Runs
<1>10. ASSUME NEW c \in CPU, NEW p \in Proc, ForkRunnable(c, p) PROVE PlaceInv'
  BY <1>10 DEF ForkRunnable, Exec, Goto, Runs
<1>11. ASSUME NEW c \in CPU, NEW p \in Proc, NEW q \in Proc, Kill(c, p, q)
       PROVE  PlaceInv'
  BY <1>11 DEF Kill, Exec, Goto, KilledState, Runs
<1>12. ASSUME NEW c \in CPU, NEW p \in Proc, KillFail(c, p) PROVE PlaceInv'
  BY <1>12 DEF KillFail, Exec, Goto, Runs
<1>13. ASSUME NEW c \in CPU, NEW p \in Proc, ExitReparent(c, p) PROVE PlaceInv'
  BY <1>13 DEF ExitReparent, Exec, Goto, Kids, Reparented, Runs
<1>14. ASSUME NEW c \in CPU, NEW p \in Proc, NEW q \in Proc, ExitWakeInit(c, p, q)
       PROVE  PlaceInv'
  BY <1>14 DEF ExitWakeInit, Exec, Runs, WakeOne
<1>15. ASSUME NEW c \in CPU, NEW p \in Proc, NEW q \in Proc, ExitWakeParent(c, p, q)
       PROVE  PlaceInv'
  BY <1>15 DEF ExitWakeParent, Exec, Runs, WakeOne
<1>16. ASSUME NEW c \in CPU, NEW p \in Proc, ExitNextLoop(c, p) PROVE PlaceInv'
  BY <1>16 DEF ExitNextLoop, Exec, Goto, Runs
<1>17. ASSUME NEW c \in CPU, NEW p \in Proc, ExitZombie(c, p) PROVE PlaceInv'
  BY <1>17 DEF ExitZombie, Exec, Goto, Runs, Swtch
<1>18. ASSUME NEW c \in CPU, NEW p \in Proc, WaitLock(c, p) PROVE PlaceInv'
  BY <1>18 DEF WaitLock, Exec, Goto, Kids, Runs
<1>19. ASSUME NEW c \in CPU, NEW p \in Proc, NEW q \in Proc, WaitReap(c, p, q)
       PROVE  PlaceInv'
  BY <1>19 DEF WaitReap, Exec, Goto, OutOfExit, Runs
<1>20. ASSUME NEW c \in CPU, NEW p \in Proc, NEW q \in Proc, WaitBadAddr(c, p, q)
       PROVE  PlaceInv'
  BY <1>20 DEF WaitBadAddr, Exec, Goto, OutOfExit, Runs
<1>21. ASSUME NEW c \in CPU, NEW p \in Proc, WaitGivesUp(c, p) PROVE PlaceInv'
  BY <1>21 DEF WaitGivesUp, Exec, Goto, Kids, Runs
<1>22. ASSUME NEW c \in CPU, NEW p \in Proc, WaitSleeps(c, p) PROVE PlaceInv'
  BY <1>22 DEF WaitSleeps, Exec, Goto, Kids, Runs
<1>23. ASSUME NEW c \in CPU, NEW p \in Proc, SleepLock(c, p) PROVE PlaceInv'
  BY <1>23 DEF SleepLock, Exec, Goto, LockSelf, Runs
<1>24. ASSUME NEW c \in CPU, NEW p \in Proc, SleepSched(c, p) PROVE PlaceInv'
  BY <1>24 DEF SleepSched, Exec, Goto, Swtch
<1>25. CASE UNCHANGED <<state, chan, lock, back, pc>>
  BY <1>25
<1>26. QED
  BY <1>1, <1>2, <1>3, <1>4, <1>5, <1>6, <1>7, <1>8, <1>9, <1>10, <1>11, <1>12, <1>13,
      <1>14, <1>15, <1>16, <1>17, <1>18, <1>19, <1>20, <1>21, <1>22, <1>23, <1>24, <1>25
      DEF vars, Next, Scheduler, Kernel, User, Fork, KillCall, Exit, Wait, WaitSkip

\* Between allocproc() and the last lines of fork() nobody touches the new slot.
LEMMA ForkStep ==
    ASSUME TypeOK, SwitchInv, ForkInv, [Next]_vars
    PROVE  ForkInv'
<1> USE ProcAssumption DEF ForkInv, SwitchInv, TypeOK
<1>1. ASSUME NEW c \in CPU, NEW p \in Proc, Schedule(c, p) PROVE ForkInv'
  BY <1>1 DEF Schedule
<1>2. ASSUME NEW c \in CPU, NEW p \in Proc, Resume(c, p) PROVE ForkInv'
  BY <1>2 DEF Resume, Exec, Goto
<1>3. ASSUME NEW c \in CPU, NEW p \in Proc, Yield(c, p) PROVE ForkInv'
  BY <1>3 DEF Yield, Exec, Held, Swtch
<1>4. ASSUME NEW c \in CPU, NEW p \in Proc, Trap(c, p) PROVE ForkInv'
  BY <1>4 DEF Trap, Exec, Goto, Runs
<1>5. ASSUME NEW c \in CPU, NEW p \in Proc, NEW l \in {"fork", "kill", "exit1", "wait1"},
             Syscall(c, p, l)
      PROVE  ForkInv'
  BY <1>5 DEF Syscall, Exec, Goto, Runs
<1>6. ASSUME NEW c \in CPU, NEW p \in Proc, NEW q \in Proc, ForkAlloc(c, p, q)
      PROVE  ForkInv'
  BY <1>6 DEF ForkAlloc, Exec, Runs
<1>7. ASSUME NEW c \in CPU, NEW p \in Proc, ForkFail(c, p) PROVE ForkInv'
  BY <1>7 DEF ForkFail, Exec, Goto, Runs
<1>8. ASSUME NEW c \in CPU, NEW p \in Proc, ForkParent(c, p) PROVE ForkInv'
  BY <1>8 DEF ForkParent, Exec, Goto, Runs
<1>9. ASSUME NEW c \in CPU, NEW p \in Proc, ForkRunnable(c, p) PROVE ForkInv'
  BY <1>9 DEF ForkRunnable, Exec, Goto, Runs
<1>10. ASSUME NEW c \in CPU, NEW p \in Proc, NEW q \in Proc, Kill(c, p, q)
       PROVE  ForkInv'
  BY <1>10 DEF Kill, Exec, Goto, KilledState, Runs
<1>11. ASSUME NEW c \in CPU, NEW p \in Proc, KillFail(c, p) PROVE ForkInv'
  BY <1>11 DEF KillFail, Exec, Goto, Runs
<1>12. ASSUME NEW c \in CPU, NEW p \in Proc, ExitReparent(c, p) PROVE ForkInv'
  BY <1>12 DEF ExitReparent, Exec, Goto, Kids, Reparented, Runs
<1>13. ASSUME NEW c \in CPU, NEW p \in Proc, NEW q \in Proc, ExitWakeInit(c, p, q)
       PROVE  ForkInv'
  BY <1>13 DEF ExitWakeInit, Exec, Runs, WakeOne
<1>14. ASSUME NEW c \in CPU, NEW p \in Proc, NEW q \in Proc, ExitWakeParent(c, p, q)
       PROVE  ForkInv'
  BY <1>14 DEF ExitWakeParent, Exec, Runs, WakeOne
<1>15. ASSUME NEW c \in CPU, NEW p \in Proc, ExitNextLoop(c, p) PROVE ForkInv'
  BY <1>15 DEF ExitNextLoop, Exec, Goto, Runs
<1>16. ASSUME NEW c \in CPU, NEW p \in Proc, ExitZombie(c, p) PROVE ForkInv'
  BY <1>16 DEF ExitZombie, Exec, Goto, Runs, Swtch
<1>17. ASSUME NEW c \in CPU, NEW p \in Proc, WaitLock(c, p) PROVE ForkInv'
  BY <1>17 DEF WaitLock, Exec, Goto, Kids, Runs
<1>18. ASSUME NEW c \in CPU, NEW p \in Proc, NEW q \in Proc, WaitReap(c, p, q)
       PROVE  ForkInv'
  BY <1>18 DEF WaitReap, Exec, Goto, OutOfExit, Runs
<1>19. ASSUME NEW c \in CPU, NEW p \in Proc, NEW q \in Proc, WaitBadAddr(c, p, q)
       PROVE  ForkInv'
  BY <1>19 DEF WaitBadAddr, Exec, Goto, OutOfExit, Runs
<1>20. ASSUME NEW c \in CPU, NEW p \in Proc, WaitGivesUp(c, p) PROVE ForkInv'
  BY <1>20 DEF WaitGivesUp, Exec, Goto, Kids, Runs
<1>21. ASSUME NEW c \in CPU, NEW p \in Proc, WaitSleeps(c, p) PROVE ForkInv'
  BY <1>21 DEF WaitSleeps, Exec, Goto, Kids, Runs
<1>22. ASSUME NEW c \in CPU, NEW p \in Proc, SleepLock(c, p) PROVE ForkInv'
  BY <1>22 DEF SleepLock, Exec, Goto, LockSelf, Runs
<1>23. ASSUME NEW c \in CPU, NEW p \in Proc, SleepSched(c, p) PROVE ForkInv'
  BY <1>23 DEF SleepSched, Exec, Goto, Swtch
<1>24. CASE UNCHANGED <<state, pc, kid>>
  BY <1>24
<1>25. QED
  BY <1>1, <1>2, <1>3, <1>4, <1>5, <1>6, <1>7, <1>8, <1>9, <1>10, <1>11, <1>12, <1>13,
      <1>14, <1>15, <1>16, <1>17, <1>18, <1>19, <1>20, <1>21, <1>22, <1>23, <1>24 DEF
      vars, Next, Scheduler, Kernel, User, Fork, KillCall, Exit, Wait, SchedulerAgain,
      WaitSkip

\* init neither exits nor is killed.
LEMMA InitprocStep ==
    ASSUME TypeOK, InitprocInv, [Next]_vars
    PROVE  InitprocInv'
<1> USE ProcAssumption DEF InitprocInv, TypeOK
<1>1. ASSUME NEW c \in CPU, NEW p \in Proc, Schedule(c, p) PROVE InitprocInv'
  BY <1>1 DEF Schedule
<1>2. ASSUME NEW c \in CPU, NEW p \in Proc, Resume(c, p) PROVE InitprocInv'
  BY <1>2 DEF Resume, Exec, Goto
<1>3. ASSUME NEW c \in CPU, NEW p \in Proc, Yield(c, p) PROVE InitprocInv'
  BY <1>3 DEF Yield, Exec, Held, Swtch
<1>4. ASSUME NEW c \in CPU, NEW p \in Proc, Trap(c, p) PROVE InitprocInv'
  BY <1>4 DEF Trap, Exec, Goto, Runs
<1>5. ASSUME NEW c \in CPU, NEW p \in Proc, NEW l \in {"fork", "kill", "exit1", "wait1"},
             Syscall(c, p, l)
      PROVE  InitprocInv'
  BY <1>5 DEF Syscall, Exec, Goto, Runs
<1>6. ASSUME NEW c \in CPU, NEW p \in Proc, NEW q \in Proc, ForkAlloc(c, p, q)
      PROVE  InitprocInv'
  BY <1>6 DEF ForkAlloc, Exec, Runs
<1>7. ASSUME NEW c \in CPU, NEW p \in Proc, ForkFail(c, p) PROVE InitprocInv'
  BY <1>7 DEF ForkFail, Exec, Goto, Runs
<1>8. ASSUME NEW c \in CPU, NEW p \in Proc, ForkParent(c, p) PROVE InitprocInv'
  BY <1>8 DEF ForkParent, Exec, Goto, Runs
<1>9. ASSUME NEW c \in CPU, NEW p \in Proc, ForkRunnable(c, p) PROVE InitprocInv'
  BY <1>9 DEF ForkRunnable, Exec, Goto, Runs
<1>10. ASSUME NEW c \in CPU, NEW p \in Proc, NEW q \in Proc, Kill(c, p, q)
       PROVE  InitprocInv'
  BY <1>10 DEF Kill, Exec, Goto, KilledState, Runs
<1>11. ASSUME NEW c \in CPU, NEW p \in Proc, KillFail(c, p) PROVE InitprocInv'
  BY <1>11 DEF KillFail, Exec, Goto, Runs
<1>12. ASSUME NEW c \in CPU, NEW p \in Proc, ExitReparent(c, p) PROVE InitprocInv'
  BY <1>12 DEF ExitReparent, Exec, Goto, Kids, Reparented, Runs
<1>13. ASSUME NEW c \in CPU, NEW p \in Proc, NEW q \in Proc, ExitWakeInit(c, p, q)
       PROVE  InitprocInv'
  BY <1>13 DEF ExitWakeInit, Exec, Runs, WakeOne
<1>14. ASSUME NEW c \in CPU, NEW p \in Proc, NEW q \in Proc, ExitWakeParent(c, p, q)
       PROVE  InitprocInv'
  BY <1>14 DEF ExitWakeParent, Exec, Runs, WakeOne
<1>15. ASSUME NEW c \in CPU, NEW p \in Proc, ExitNextLoop(c, p) PROVE InitprocInv'
  BY <1>15 DEF ExitNextLoop, Exec, Goto, Runs
<1>16. ASSUME NEW c \in CPU, NEW p \in Proc, ExitZombie(c, p) PROVE InitprocInv'
  BY <1>16 DEF ExitZombie, Exec, Goto, Runs, Swtch
<1>17. ASSUME NEW c \in CPU, NEW p \in Proc, WaitLock(c, p) PROVE InitprocInv'
  BY <1>17 DEF WaitLock, Exec, Goto, Kids, Runs
<1>18. ASSUME NEW c \in CPU, NEW p \in Proc, NEW q \in Proc, WaitReap(c, p, q)
       PROVE  InitprocInv'
  BY <1>18 DEF WaitReap, Exec, Goto, OutOfExit, Runs
<1>19. ASSUME NEW c \in CPU, NEW p \in Proc, NEW q \in Proc, WaitBadAddr(c, p, q)
       PROVE  InitprocInv'
  BY <1>19 DEF WaitBadAddr, Exec, Goto, OutOfExit, Runs
<1>20. ASSUME NEW c \in CPU, NEW p \in Proc, WaitGivesUp(c, p) PROVE InitprocInv'
  BY <1>20 DEF WaitGivesUp, Exec, Goto, Kids, Runs
<1>21. ASSUME NEW c \in CPU, NEW p \in Proc, WaitSleeps(c, p) PROVE InitprocInv'
  BY <1>21 DEF WaitSleeps, Exec, Goto, Kids, Runs
<1>22. ASSUME NEW c \in CPU, NEW p \in Proc, SleepLock(c, p) PROVE InitprocInv'
  BY <1>22 DEF SleepLock, Exec, Goto, LockSelf, Runs
<1>23. ASSUME NEW c \in CPU, NEW p \in Proc, SleepSched(c, p) PROVE InitprocInv'
  BY <1>23 DEF SleepSched, Exec, Goto, Swtch
<1>24. CASE UNCHANGED <<state, killed, pc>>
  BY <1>24
<1>25. QED
  BY <1>1, <1>2, <1>3, <1>4, <1>5, <1>6, <1>7, <1>8, <1>9, <1>10, <1>11, <1>12, <1>13,
      <1>14, <1>15, <1>16, <1>17, <1>18, <1>19, <1>20, <1>21, <1>22, <1>23, <1>24 DEF
      vars, Next, Scheduler, Kernel, User, Fork, KillCall, Exit, Wait, SchedulerAgain,
      WaitSkip

\* After reparent() no child is added: fork() and exit() exclude each other in one
\* process, and reparent() adds children to init only.
LEMMA NoKidsStep ==
    ASSUME TypeOK, PlaceInv, InitprocInv, NoKidsInv, [Next]_vars
    PROVE  NoKidsInv'
<1> USE ProcAssumption DEF InitprocInv, NoKidsInv, PlaceInv, TypeOK
<1>1. ASSUME NEW c \in CPU, NEW p \in Proc, Schedule(c, p) PROVE NoKidsInv'
  BY <1>1 DEF Schedule
<1>2. ASSUME NEW c \in CPU, NEW p \in Proc, Resume(c, p) PROVE NoKidsInv'
  BY <1>2 DEF Resume, Exec, Goto
<1>3. ASSUME NEW c \in CPU, NEW p \in Proc, Yield(c, p) PROVE NoKidsInv'
  BY <1>3 DEF Yield, Exec, Held, Swtch
<1>4. ASSUME NEW c \in CPU, NEW p \in Proc, Trap(c, p) PROVE NoKidsInv'
  BY <1>4 DEF Trap, Exec, Goto, Runs
<1>5. ASSUME NEW c \in CPU, NEW p \in Proc, NEW l \in {"fork", "kill", "exit1", "wait1"},
             Syscall(c, p, l)
      PROVE  NoKidsInv'
  BY <1>5 DEF Syscall, Exec, Goto, Runs
<1>6. ASSUME NEW c \in CPU, NEW p \in Proc, NEW q \in Proc, ForkAlloc(c, p, q)
      PROVE  NoKidsInv'
  BY <1>6 DEF ForkAlloc, Exec, Runs
<1>7. ASSUME NEW c \in CPU, NEW p \in Proc, ForkFail(c, p) PROVE NoKidsInv'
  BY <1>7 DEF ForkFail, Exec, Goto, Runs
<1>8. ASSUME NEW c \in CPU, NEW p \in Proc, ForkParent(c, p) PROVE NoKidsInv'
  BY <1>8 DEF ForkParent, Exec, Goto, Runs
<1>9. ASSUME NEW c \in CPU, NEW p \in Proc, ForkRunnable(c, p) PROVE NoKidsInv'
  BY <1>9 DEF ForkRunnable, Exec, Goto, Runs
<1>10. ASSUME NEW c \in CPU, NEW p \in Proc, NEW q \in Proc, Kill(c, p, q)
       PROVE  NoKidsInv'
  BY <1>10 DEF Kill, Exec, Goto, KilledState, Runs
<1>11. ASSUME NEW c \in CPU, NEW p \in Proc, KillFail(c, p) PROVE NoKidsInv'
  BY <1>11 DEF KillFail, Exec, Goto, Runs
<1>12. ASSUME NEW c \in CPU, NEW p \in Proc, ExitReparent(c, p) PROVE NoKidsInv'
  BY <1>12 DEF ExitReparent, Exec, Goto, Kids, Reparented, Runs
<1>13. ASSUME NEW c \in CPU, NEW p \in Proc, NEW q \in Proc, ExitWakeInit(c, p, q)
       PROVE  NoKidsInv'
  BY <1>13 DEF ExitWakeInit, Exec, Runs, WakeOne
<1>14. ASSUME NEW c \in CPU, NEW p \in Proc, NEW q \in Proc, ExitWakeParent(c, p, q)
       PROVE  NoKidsInv'
  BY <1>14 DEF ExitWakeParent, Exec, Runs, WakeOne
<1>15. ASSUME NEW c \in CPU, NEW p \in Proc, ExitNextLoop(c, p) PROVE NoKidsInv'
  BY <1>15 DEF ExitNextLoop, Exec, Goto, Runs
<1>16. ASSUME NEW c \in CPU, NEW p \in Proc, ExitZombie(c, p) PROVE NoKidsInv'
  BY <1>16 DEF ExitZombie, Exec, Goto, Runs, Swtch
<1>17. ASSUME NEW c \in CPU, NEW p \in Proc, WaitLock(c, p) PROVE NoKidsInv'
  BY <1>17 DEF WaitLock, Exec, Goto, Kids, Runs
<1>18. ASSUME NEW c \in CPU, NEW p \in Proc, NEW q \in Proc, WaitReap(c, p, q)
       PROVE  NoKidsInv'
  BY <1>18 DEF WaitReap, Exec, Goto, OutOfExit, Runs
<1>19. ASSUME NEW c \in CPU, NEW p \in Proc, NEW q \in Proc, WaitBadAddr(c, p, q)
       PROVE  NoKidsInv'
  BY <1>19 DEF WaitBadAddr, Exec, Goto, OutOfExit, Runs
<1>20. ASSUME NEW c \in CPU, NEW p \in Proc, WaitGivesUp(c, p) PROVE NoKidsInv'
  BY <1>20 DEF WaitGivesUp, Exec, Goto, Kids, Runs
<1>21. ASSUME NEW c \in CPU, NEW p \in Proc, WaitSleeps(c, p) PROVE NoKidsInv'
  BY <1>21 DEF WaitSleeps, Exec, Goto, Kids, Runs
<1>22. ASSUME NEW c \in CPU, NEW p \in Proc, SleepLock(c, p) PROVE NoKidsInv'
  BY <1>22 DEF SleepLock, Exec, Goto, LockSelf, Runs
<1>23. ASSUME NEW c \in CPU, NEW p \in Proc, SleepSched(c, p) PROVE NoKidsInv'
  BY <1>23 DEF SleepSched, Exec, Goto, Swtch
<1>24. CASE UNCHANGED <<state, parent, pc>>
  BY <1>24
<1>25. QED
  BY <1>1, <1>2, <1>3, <1>4, <1>5, <1>6, <1>7, <1>8, <1>9, <1>10, <1>11, <1>12, <1>13,
      <1>14, <1>15, <1>16, <1>17, <1>18, <1>19, <1>20, <1>21, <1>22, <1>23, <1>24 DEF
      vars, Next, Scheduler, Kernel, User, Fork, KillCall, Exit, Wait, SchedulerAgain,
      WaitSkip

\* wakeup() takes p->lock, so it finds a parent that has released wait_lock either
\* not asleep, or SLEEPING and wakes it: never between the two.
LEMMA WakeupStep ==
    ASSUME TypeOK, WaitLockInv, PlaceInv, WakeupInv, [Next]_vars
    PROVE  WakeupInv'
<1> USE ProcAssumption DEF PlaceInv, ToSleep, TypeOK, UnderWaitLock, WaitLockInv,
    WakeupInv
<1>1. ASSUME NEW c \in CPU, NEW p \in Proc, Schedule(c, p) PROVE WakeupInv'
  BY <1>1 DEF Schedule
<1>2. ASSUME NEW c \in CPU, NEW p \in Proc, Resume(c, p) PROVE WakeupInv'
  BY <1>2 DEF Resume, Exec, Goto
<1>3. ASSUME NEW c \in CPU, NEW p \in Proc, Yield(c, p) PROVE WakeupInv'
  BY <1>3 DEF Yield, Exec, Held, Swtch
<1>4. ASSUME NEW c \in CPU, NEW p \in Proc, Trap(c, p) PROVE WakeupInv'
  BY <1>4 DEF Trap, Exec, Goto, Runs
<1>5. ASSUME NEW c \in CPU, NEW p \in Proc, NEW l \in {"fork", "kill", "exit1", "wait1"},
             Syscall(c, p, l)
      PROVE  WakeupInv'
  BY <1>5 DEF Syscall, Exec, Goto, Runs
<1>6. ASSUME NEW c \in CPU, NEW p \in Proc, NEW q \in Proc, ForkAlloc(c, p, q)
      PROVE  WakeupInv'
  BY <1>6 DEF ForkAlloc, Exec, Runs
<1>7. ASSUME NEW c \in CPU, NEW p \in Proc, ForkFail(c, p) PROVE WakeupInv'
  BY <1>7 DEF ForkFail, Exec, Goto, Runs
<1>8. ASSUME NEW c \in CPU, NEW p \in Proc, ForkParent(c, p) PROVE WakeupInv'
  BY <1>8 DEF ForkParent, Exec, Goto, Runs
<1>9. ASSUME NEW c \in CPU, NEW p \in Proc, ForkRunnable(c, p) PROVE WakeupInv'
  BY <1>9 DEF ForkRunnable, Exec, Goto, Runs
<1>10. ASSUME NEW c \in CPU, NEW p \in Proc, NEW q \in Proc, Kill(c, p, q)
       PROVE  WakeupInv'
  BY <1>10 DEF Kill, Exec, Goto, KilledState, Runs
<1>11. ASSUME NEW c \in CPU, NEW p \in Proc, KillFail(c, p) PROVE WakeupInv'
  BY <1>11 DEF KillFail, Exec, Goto, Runs
<1>12. ASSUME NEW c \in CPU, NEW p \in Proc, ExitReparent(c, p) PROVE WakeupInv'
  BY <1>12 DEF ExitReparent, Exec, Goto, Kids, Reparented, Runs
<1>13. ASSUME NEW c \in CPU, NEW p \in Proc, NEW q \in Proc, ExitWakeInit(c, p, q)
       PROVE  WakeupInv'
  BY <1>13 DEF ExitWakeInit, Exec, Runs, WakeOne
<1>14. ASSUME NEW c \in CPU, NEW p \in Proc, NEW q \in Proc, ExitWakeParent(c, p, q)
       PROVE  WakeupInv'
  BY <1>14 DEF ExitWakeParent, Exec, Runs, WakeOne
<1>15. ASSUME NEW c \in CPU, NEW p \in Proc, ExitNextLoop(c, p) PROVE WakeupInv'
  BY <1>15 DEF ExitNextLoop, Exec, Goto, Runs
<1>16. ASSUME NEW c \in CPU, NEW p \in Proc, ExitZombie(c, p) PROVE WakeupInv'
  BY <1>16 DEF ExitZombie, Exec, Goto, Runs, Swtch
<1>17. ASSUME NEW c \in CPU, NEW p \in Proc, WaitLock(c, p) PROVE WakeupInv'
  BY <1>17 DEF WaitLock, Exec, Goto, Kids, Runs
<1>18. ASSUME NEW c \in CPU, NEW p \in Proc, NEW q \in Proc, WaitSkip(c, p, q)
       PROVE  WakeupInv'
  BY <1>18 DEF WaitSkip, Exec, OutOfExit, Runs
<1>19. ASSUME NEW c \in CPU, NEW p \in Proc, NEW q \in Proc, WaitReap(c, p, q)
       PROVE  WakeupInv'
  BY <1>19 DEF WaitReap, Exec, Goto, OutOfExit, Runs
<1>20. ASSUME NEW c \in CPU, NEW p \in Proc, NEW q \in Proc, WaitBadAddr(c, p, q)
       PROVE  WakeupInv'
  BY <1>20 DEF WaitBadAddr, Exec, Goto, OutOfExit, Runs
<1>21. ASSUME NEW c \in CPU, NEW p \in Proc, WaitGivesUp(c, p) PROVE WakeupInv'
  BY <1>21 DEF WaitGivesUp, Exec, Goto, Kids, Runs
<1>22. ASSUME NEW c \in CPU, NEW p \in Proc, WaitSleeps(c, p) PROVE WakeupInv'
  BY <1>22 DEF WaitSleeps, Exec, Goto, Kids, Runs
<1>23. ASSUME NEW c \in CPU, NEW p \in Proc, SleepLock(c, p) PROVE WakeupInv'
  BY <1>23 DEF SleepLock, Exec, Goto, LockSelf, Runs
<1>24. ASSUME NEW c \in CPU, NEW p \in Proc, SleepSched(c, p) PROVE WakeupInv'
  BY <1>24 DEF SleepSched, Exec, Goto, Swtch
<1>25. CASE UNCHANGED <<state, parent, pc, todo>>
  BY <1>25
<1>26. QED
  BY <1>1, <1>2, <1>3, <1>4, <1>5, <1>6, <1>7, <1>8, <1>9, <1>10, <1>11, <1>12, <1>13,
      <1>14, <1>15, <1>16, <1>17, <1>18, <1>19, <1>20, <1>21, <1>22, <1>23, <1>24, <1>25
      DEF vars, Next, Scheduler, Kernel, User, Fork, KillCall, Exit, Wait,
      SchedulerAgain

\* A child has a parent from the moment fork() gives it one, and passes to init
\* before its parent becomes a zombie.
LEMMA LiveParentStep ==
    ASSUME TypeOK, SwitchInv, PlaceInv, ForkInv, InitprocInv, NoKidsInv, HasLiveParent,
        [Next]_vars
    PROVE  HasLiveParent'
<1> USE ProcAssumption DEF ForkInv, HasLiveParent, InitprocInv, NoKidsInv, PlaceInv,
    SwitchInv, TypeOK
<1>1. ASSUME NEW c \in CPU, NEW p \in Proc, Schedule(c, p) PROVE HasLiveParent'
  BY <1>1 DEF Schedule
<1>2. ASSUME NEW c \in CPU, NEW p \in Proc, Resume(c, p) PROVE HasLiveParent'
  BY <1>2 DEF Resume, Exec, Goto
<1>3. ASSUME NEW c \in CPU, NEW p \in Proc, Yield(c, p) PROVE HasLiveParent'
  BY <1>3 DEF Yield, Exec, Held, Swtch
<1>4. ASSUME NEW c \in CPU, NEW p \in Proc, Trap(c, p) PROVE HasLiveParent'
  BY <1>4 DEF Trap, Exec, Goto, Runs
<1>5. ASSUME NEW c \in CPU, NEW p \in Proc, NEW l \in {"fork", "kill", "exit1", "wait1"},
             Syscall(c, p, l)
      PROVE  HasLiveParent'
  BY <1>5 DEF Syscall, Exec, Goto, Runs
<1>6. ASSUME NEW c \in CPU, NEW p \in Proc, NEW q \in Proc, ForkAlloc(c, p, q)
      PROVE  HasLiveParent'
  <2> USE <1>6 DEF ForkAlloc, Exec, Runs
  <2> SUFFICES ASSUME NEW r \in Proc \ {initproc}, state'[r] # "UNUSED"
               PROVE  \/ parent'[r] # None /\ state'[parent'[r]] \notin {"UNUSED", "USED", "ZOMBIE"}
                      \/ \E x \in Proc : pc'[x] = "fork1" /\ kid'[x] = r
    OBVIOUS
  <2>1. p # q
    OBVIOUS
  <2>2. CASE r = q
    BY <2>1, <2>2
  <2>3. CASE parent[r] # None /\ state[parent[r]] \notin {"UNUSED", "USED", "ZOMBIE"}
    BY <2>3
  <2>4. ASSUME NEW x \in Proc, pc[x] = "fork1", kid[x] = r
        PROVE  pc'[x] = "fork1" /\ kid'[x] = r
    BY <2>4
  <2>5. QED
    BY <2>2, <2>3, <2>4
<1>7. ASSUME NEW c \in CPU, NEW p \in Proc, ForkFail(c, p) PROVE HasLiveParent'
  BY <1>7 DEF ForkFail, Exec, Goto, Runs
<1>8. ASSUME NEW c \in CPU, NEW p \in Proc, ForkParent(c, p) PROVE HasLiveParent'
  BY <1>8 DEF ForkParent, Exec, Goto, Runs
<1>9. ASSUME NEW c \in CPU, NEW p \in Proc, ForkRunnable(c, p) PROVE HasLiveParent'
  BY <1>9 DEF ForkRunnable, Exec, Goto, Runs
<1>10. ASSUME NEW c \in CPU, NEW p \in Proc, NEW q \in Proc, Kill(c, p, q)
       PROVE  HasLiveParent'
  BY <1>10 DEF Kill, Exec, Goto, KilledState, Runs
<1>11. ASSUME NEW c \in CPU, NEW p \in Proc, KillFail(c, p) PROVE HasLiveParent'
  BY <1>11 DEF KillFail, Exec, Goto, Runs
<1>12. ASSUME NEW c \in CPU, NEW p \in Proc, ExitReparent(c, p) PROVE HasLiveParent'
  BY <1>12 DEF ExitReparent, Exec, Goto, Kids, Reparented, Runs
<1>13. ASSUME NEW c \in CPU, NEW p \in Proc, NEW q \in Proc, ExitWakeInit(c, p, q)
       PROVE  HasLiveParent'
  BY <1>13 DEF ExitWakeInit, Exec, Runs, WakeOne
<1>14. ASSUME NEW c \in CPU, NEW p \in Proc, NEW q \in Proc, ExitWakeParent(c, p, q)
       PROVE  HasLiveParent'
  BY <1>14 DEF ExitWakeParent, Exec, Runs, WakeOne
<1>15. ASSUME NEW c \in CPU, NEW p \in Proc, ExitNextLoop(c, p) PROVE HasLiveParent'
  BY <1>15 DEF ExitNextLoop, Exec, Goto, Runs
<1>16. ASSUME NEW c \in CPU, NEW p \in Proc, ExitZombie(c, p) PROVE HasLiveParent'
  BY <1>16 DEF ExitZombie, Exec, Goto, Runs, Swtch
<1>17. ASSUME NEW c \in CPU, NEW p \in Proc, WaitLock(c, p) PROVE HasLiveParent'
  BY <1>17 DEF WaitLock, Exec, Goto, Kids, Runs
<1>18. ASSUME NEW c \in CPU, NEW p \in Proc, NEW q \in Proc, WaitReap(c, p, q)
       PROVE  HasLiveParent'
  BY <1>18 DEF WaitReap, Exec, Goto, OutOfExit, Runs
<1>19. ASSUME NEW c \in CPU, NEW p \in Proc, NEW q \in Proc, WaitBadAddr(c, p, q)
       PROVE  HasLiveParent'
  BY <1>19 DEF WaitBadAddr, Exec, Goto, OutOfExit, Runs
<1>20. ASSUME NEW c \in CPU, NEW p \in Proc, WaitGivesUp(c, p) PROVE HasLiveParent'
  BY <1>20 DEF WaitGivesUp, Exec, Goto, Kids, Runs
<1>21. ASSUME NEW c \in CPU, NEW p \in Proc, WaitSleeps(c, p) PROVE HasLiveParent'
  BY <1>21 DEF WaitSleeps, Exec, Goto, Kids, Runs
<1>22. ASSUME NEW c \in CPU, NEW p \in Proc, SleepLock(c, p) PROVE HasLiveParent'
  BY <1>22 DEF SleepLock, Exec, Goto, LockSelf, Runs
<1>23. ASSUME NEW c \in CPU, NEW p \in Proc, SleepSched(c, p) PROVE HasLiveParent'
  BY <1>23 DEF SleepSched, Exec, Goto, Swtch
<1>24. CASE UNCHANGED <<state, parent, pc, kid>>
  BY <1>24
<1>25. QED
  BY <1>1, <1>2, <1>3, <1>4, <1>5, <1>6, <1>7, <1>8, <1>9, <1>10, <1>11, <1>12, <1>13,
      <1>14, <1>15, <1>16, <1>17, <1>18, <1>19, <1>20, <1>21, <1>22, <1>23, <1>24 DEF
      vars, Next, Scheduler, Kernel, User, Fork, KillCall, Exit, Wait, SchedulerAgain,
      WaitSkip

-----------------------------------------------------------------------------

\* userinit() leaves one process, init, and nobody on a CPU.
LEMMA InitStep == Init => ProcInv
BY ProcAssumption DEF Init, ProcInv, TypeOK, SwitchInv, WaitLockInv, UnderWaitLock, PlaceInv,
    ForkInv, InitprocInv, NoKidsInv, WakeupInv, ToSleep, HasLiveParent

\* The locks, states and places of all processes fit together in every reachable
\* state, for any number of processes and CPUs.
THEOREM ProcInvariant == Spec => []ProcInv
<1>1. ProcInv /\ [Next]_vars => ProcInv'
  <2> SUFFICES ASSUME ProcInv, [Next]_vars PROVE ProcInv'
    OBVIOUS
  <2> QED
    BY TypeStep, SwitchStep, WaitLockStep, PlaceStep, ForkStep, InitprocStep, NoKidsStep,
       WakeupStep, LiveParentStep DEF ProcInv
<1>2. QED
  BY InitStep, <1>1, PTL DEF Spec

\* sched() never panics: whoever calls it, from yield(), sleep() or exit(), holds
\* p->lock and no other lock, and has changed p->state.
THEOREM SchedNeverPanics == Spec => []SchedDoesNotPanic
<1>1. ProcInv => SchedDoesNotPanic
  BY ProcAssumption DEF ProcInv, TypeOK, SwitchInv, WaitLockInv, UnderWaitLock,
     SchedDoesNotPanic, Held
<1>2. QED
  BY <1>1, ProcInvariant, PTL

\* No kernel stack is used by two CPUs, or freed by wait() under the CPU that is
\* still on it in the sched() of exit().
THEOREM StacksAreOwned == Spec => []KernelStackIsOwned
<1>1. ProcInv => KernelStackIsOwned
  BY DEF ProcInv, TypeOK, SwitchInv, KernelStackIsOwned
<1>2. QED
  BY <1>1, ProcInvariant, PTL

\* No parent sleeps in wait() beside a zombie child once wait_lock is free.
THEOREM WakeupsAreNotLost == Spec => []NoLostWakeup
<1>1. ProcInv => NoLostWakeup
  BY DEF ProcInv, TypeOK, WaitLockInv, UnderWaitLock, WakeupInv, ToSleep, NoLostWakeup
<1>2. QED
  BY <1>1, ProcInvariant, PTL

\* Every process but init has a parent that can wait() for it, or is being made by
\* a fork() that will be its parent.
THEOREM ParentsAreLive == Spec => []HasLiveParent
<1>1. ProcInv => HasLiveParent
  BY DEF ProcInv
<1>2. QED
  BY <1>1, ProcInvariant, PTL
=============================================================================
