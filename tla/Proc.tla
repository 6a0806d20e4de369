-------------------------------- MODULE Proc --------------------------------
(***************************************************************************)
(* Processes of the kernel (proc.c, with usertrap of trap.c): the process  *)
(* table, the per-CPU scheduler and the context switch, fork, exit, wait,  *)
(* kill, sleep and wakeup, under p->lock and wait_lock (spinlock.c).       *)
(*                                                                         *)
(* An action is what a CPU does between two places where it may have to    *)
(* wait for a lock or may be seen by another CPU.  A lock is owned by a    *)
(* CPU, as holding() tests it; p->lock is handed over in swtch().          *)
(***************************************************************************)
EXTENDS FiniteSets

CONSTANTS Proc,        \* slots of the table proc[NPROC]
          initproc,
          CPU,
          Victim,      \* bound: the processes that kill() is called for
          None

\* Nobody kills init: exit() answers that with panic("init exiting").
ASSUME ProcAssumption ==
    initproc \in Proc \ Victim /\ Victim \subseteq Proc /\ None \notin Proc \cup CPU

VARIABLES state, chan, killed, parent,  \* fields of struct proc
          lock, waitLock,               \* p->lock, wait_lock: the CPU or None
          cpuProc,                      \* c->proc
          back,                         \* the CPU is in scheduler(), after swtch()
          pc,                           \* where the kernel thread of p is
          todo,                         \* slots a loop over the table has left
          kid                           \* np of fork

vars == <<state, chan, killed, parent, lock, waitLock, cpuProc, back, pc, todo, kid>>

Exec(p, c) == cpuProc[c] = p /\ ~back[c]       \* c executes p's kernel thread or p itself
Held(c)    == {q \in Proc : lock[q] = c}
Kids(p)    == {q \in Proc : parent[q] = p}

Goto(p, l) == pc' = [pc EXCEPT ![p] = l]

Init ==
    /\ state = [p \in Proc |-> IF p = initproc THEN "RUNNABLE" ELSE "UNUSED"]
    /\ chan = [p \in Proc |-> None]
    /\ killed = [p \in Proc |-> FALSE]
    /\ parent = [p \in Proc |-> None]
    /\ lock = [p \in Proc |-> None]
    /\ waitLock = None
    /\ cpuProc = [c \in CPU |-> None]
    /\ back = [c \in CPU |-> FALSE]
    /\ pc = [p \in Proc |-> "ret"]
    /\ todo = [p \in Proc |-> {}]
    /\ kid = [p \in Proc |-> None]

-----------------------------------------------------------------------------
(* scheduler(), sched() and yield().                                        *)

Schedule(c, p) ==
    /\ cpuProc[c] = None /\ lock[p] = None /\ state[p] = "RUNNABLE"
    /\ lock' = [lock EXCEPT ![p] = c]
    /\ state' = [state EXCEPT ![p] = "RUNNING"]
    /\ cpuProc' = [cpuProc EXCEPT ![c] = p]
    /\ UNCHANGED <<chan, killed, parent, waitLock, back, pc, todo, kid>>

\* What a thread does first when it runs again: the ends of yield(), of
\* forkret() and of sleep() release p->lock.
Resume(c, p) ==
    /\ Exec(p, c) /\ lock[p] = c /\ pc[p] # "sleep2"
    /\ lock' = [lock EXCEPT ![p] = None]
    /\ IF pc[p] = "sleep3"
       THEN chan' = [chan EXCEPT ![p] = None] /\ Goto(p, "wait1")
       ELSE UNCHANGED <<chan, pc>>
    /\ UNCHANGED <<state, killed, parent, waitLock, cpuProc, back, todo, kid>>

Swtch(c) == back' = [back EXCEPT ![c] = TRUE]

\* The scheduler after swtch(): c->proc = 0, release(&p->lock).
SchedulerAgain(c) ==
    /\ cpuProc[c] # None /\ back[c]
    /\ cpuProc' = [cpuProc EXCEPT ![c] = None]
    /\ back' = [back EXCEPT ![c] = FALSE]
    /\ lock' = [lock EXCEPT ![cpuProc[c]] = None]
    /\ UNCHANGED <<state, chan, killed, parent, waitLock, pc, todo, kid>>

\* A thread of the kernel or a user program that can go on: it holds not its own lock.
Runs(c, p, l) == Exec(p, c) /\ lock[p] # c /\ pc[p] = l

\* Interrupts are on while the CPU holds no lock: the timer makes it yield.
Yield(c, p) ==
    /\ Exec(p, c) /\ Held(c) = {} /\ waitLock # c /\ lock[p] = None
    /\ lock' = [lock EXCEPT ![p] = c]
    /\ state' = [state EXCEPT ![p] = "RUNNABLE"]
    /\ Swtch(c)
    /\ UNCHANGED <<chan, killed, parent, waitLock, cpuProc, pc, todo, kid>>

-----------------------------------------------------------------------------
(* usertrap(): a killed process exits on its way in and on its way out.     *)

Trap(c, p) ==
    /\ Runs(c, p, "ret") /\ lock[p] = None
    /\ Goto(p, IF killed[p] THEN "exit1" ELSE "user")
    /\ UNCHANGED <<state, chan, killed, parent, lock, waitLock, cpuProc, back, todo, kid>>

Syscall(c, p, l) ==
    /\ Runs(c, p, "user") /\ lock[p] = None
    /\ p = initproc => l # "exit1"
    /\ Goto(p, IF killed[p] THEN "exit1" ELSE l)
    /\ UNCHANGED <<state, chan, killed, parent, lock, waitLock, cpuProc, back, todo, kid>>

-----------------------------------------------------------------------------
(* fork(): np->lock is released before np->parent is set and np may run.    *)

\* allocproc(); the scan and the copies go on under np->lock.  Without a free
\* slot, or without memory, fork fails and leaves the table as it was.
ForkAlloc(c, p, q) ==
    /\ Runs(c, p, "fork") /\ lock[q] = None /\ state[q] = "UNUSED"
    /\ state' = [state EXCEPT ![q] = "USED"]
    /\ kid' = [kid EXCEPT ![p] = q]
    /\ pc' = [pc EXCEPT ![p] = "fork1", ![q] = "ret"]
    /\ UNCHANGED <<chan, killed, parent, lock, waitLock, cpuProc, back, todo>>

ForkFail(c, p) ==
    /\ Runs(c, p, "fork") /\ Goto(p, "ret")
    /\ UNCHANGED <<state, chan, killed, parent, lock, waitLock, cpuProc, back, todo, kid>>

ForkParent(c, p) ==
    /\ Runs(c, p, "fork1") /\ waitLock = None
    /\ parent' = [parent EXCEPT ![kid[p]] = p]
    /\ Goto(p, "fork2")
    /\ UNCHANGED <<state, chan, killed, lock, waitLock, cpuProc, back, todo, kid>>

ForkRunnable(c, p) ==
    /\ Runs(c, p, "fork2") /\ lock[kid[p]] = None
    /\ state' = [state EXCEPT ![kid[p]] = "RUNNABLE"]
    /\ kid' = [kid EXCEPT ![p] = None]
    /\ Goto(p, "ret")
    /\ UNCHANGED <<chan, killed, parent, lock, waitLock, cpuProc, back, todo>>

-----------------------------------------------------------------------------
(* kill(), and the loop of wakeup(): one slot under its lock.               *)

KilledState(q) == IF state[q] = "SLEEPING" THEN "RUNNABLE" ELSE state[q]

\* A slot that is not in use has the pid 0: kill(0) finds it, and allocproc() leaves
\* the mark to the process that gets the slot.
Kill(c, p, q) ==
    /\ Runs(c, p, "kill") /\ q \in Victim /\ lock[q] = None
    /\ killed' = [killed EXCEPT ![q] = TRUE]
    /\ state' = [state EXCEPT ![q] = KilledState(q)]
    /\ Goto(p, "ret")
    /\ UNCHANGED <<chan, parent, lock, waitLock, cpuProc, back, todo, kid>>

KillFail(c, p) ==
    /\ Runs(c, p, "kill") /\ Goto(p, "ret")
    /\ UNCHANGED <<state, chan, killed, parent, lock, waitLock, cpuProc, back, todo, kid>>

WakeOne(p, q, ch) ==
    /\ q \in todo[p] /\ lock[q] = None
    /\ state' = [state EXCEPT ![q] = IF @ = "SLEEPING" /\ chan[q] = ch THEN "RUNNABLE" ELSE @]
    /\ todo' = [todo EXCEPT ![p] = @ \ {q}]

-----------------------------------------------------------------------------
(* exit().                                                                  *)

\* acquire(&wait_lock) and reparent(); pp->parent is read and written only
\* under wait_lock, so the children pass to init at once.
KeepKids(p) == parent                                                   \* mutant
Reparented(p) == [q \in Proc |-> IF parent[q] = p THEN initproc ELSE parent[q]]

ExitReparent(c, p) ==
    /\ Runs(c, p, "exit1") /\ waitLock = None
    /\ waitLock' = c
    /\ parent' = Reparented(p)
    /\ todo' = [todo EXCEPT ![p] = IF Kids(p) = {} THEN {} ELSE Proc \ {p}]
    /\ Goto(p, "exit2")
    /\ UNCHANGED <<state, chan, killed, lock, cpuProc, back, kid>>

\* wakeup(initproc), then wakeup(p->parent)
ExitWakeInit(c, p, q) ==
    /\ Runs(c, p, "exit2") /\ WakeOne(p, q, initproc)
    /\ UNCHANGED <<chan, killed, parent, lock, waitLock, cpuProc, back, pc, kid>>

ExitWakeParent(c, p, q) ==
    /\ Runs(c, p, "exit3") /\ WakeOne(p, q, parent[p])
    /\ UNCHANGED <<chan, killed, parent, lock, waitLock, cpuProc, back, pc, kid>>

ExitNextLoop(c, p) ==
    /\ Runs(c, p, "exit2") /\ todo[p] = {}
    /\ todo' = [todo EXCEPT ![p] = Proc \ {p}]
    /\ Goto(p, "exit3")
    /\ UNCHANGED <<state, chan, killed, parent, lock, waitLock, cpuProc, back, kid>>

ExitZombie(c, p) ==
    /\ Runs(c, p, "exit3") /\ todo[p] = {} /\ lock[p] = None
    /\ lock' = [lock EXCEPT ![p] = c]
    /\ state' = [state EXCEPT ![p] = "ZOMBIE"]
    /\ waitLock' = None
    /\ Swtch(c) /\ Goto(p, "dead")
    /\ UNCHANGED <<chan, killed, parent, cpuProc, todo, kid>>

-----------------------------------------------------------------------------
(* wait() and the sleep() in it.                                            *)

WaitLock(c, p) ==
    /\ Runs(c, p, "wait1") /\ waitLock = None
    /\ waitLock' = c
    /\ todo' = [todo EXCEPT ![p] = Kids(p)]
    /\ Goto(p, "wait2")
    /\ UNCHANGED <<state, chan, killed, parent, lock, cpuProc, back, kid>>

\* acquire(&pp->lock): the child must be out of exit() and swtch().
DontLock(q) == TRUE                                                     \* mutant
OutOfExit(q) == lock[q] = None

WaitSkip(c, p, q) ==
    /\ Runs(c, p, "wait2") /\ q \in todo[p] /\ OutOfExit(q) /\ state[q] # "ZOMBIE"
    /\ todo' = [todo EXCEPT ![p] = @ \ {q}]
    /\ UNCHANGED <<state, chan, killed, parent, lock, waitLock, cpuProc, back, pc, kid>>

\* freeproc() of a zombie
WaitReap(c, p, q) ==
    /\ Runs(c, p, "wait2") /\ q \in todo[p] /\ OutOfExit(q) /\ state[q] = "ZOMBIE"
    /\ state' = [state EXCEPT ![q] = "UNUSED"]
    /\ parent' = [parent EXCEPT ![q] = None]
    /\ chan' = [chan EXCEPT ![q] = None]
    /\ killed' = [killed EXCEPT ![q] = FALSE]
    /\ waitLock' = None
    /\ todo' = [todo EXCEPT ![p] = {}]
    /\ Goto(p, "ret")
    /\ UNCHANGED <<lock, cpuProc, back, kid>>

\* copyout() fails: the zombie stays.
WaitBadAddr(c, p, q) ==
    /\ Runs(c, p, "wait2") /\ q \in todo[p] /\ OutOfExit(q) /\ state[q] = "ZOMBIE"
    /\ p # initproc       \* init calls wait(0)
    /\ waitLock' = None
    /\ todo' = [todo EXCEPT ![p] = {}]
    /\ Goto(p, "ret")
    /\ UNCHANGED <<state, chan, killed, parent, lock, cpuProc, back, kid>>

\* no children, or killed(p)
WaitGivesUp(c, p) ==
    /\ Runs(c, p, "wait2") /\ todo[p] = {}
    /\ Kids(p) = {} \/ (lock[p] = None /\ killed[p])
    /\ waitLock' = None
    /\ Goto(p, "ret")
    /\ UNCHANGED <<state, chan, killed, parent, lock, cpuProc, back, todo, kid>>

WaitSleeps(c, p) ==
    /\ Runs(c, p, "wait2") /\ todo[p] = {}
    /\ Kids(p) # {} /\ lock[p] = None /\ ~killed[p]
    /\ Goto(p, "sleep1")
    /\ UNCHANGED <<state, chan, killed, parent, lock, waitLock, cpuProc, back, todo, kid>>

\* sleep(p, &wait_lock): p->lock is taken before wait_lock is given up.
LeaveUnlocked(c, p) == lock                                             \* mutant
LockSelf(c, p) == [lock EXCEPT ![p] = c]

SleepLock(c, p) ==
    /\ Runs(c, p, "sleep1") /\ lock[p] = None
    /\ lock' = LockSelf(c, p)
    /\ waitLock' = None
    /\ Goto(p, "sleep2")
    /\ UNCHANGED <<state, chan, killed, parent, cpuProc, back, todo, kid>>

SleepSched(c, p) ==
    /\ Exec(p, c) /\ pc[p] = "sleep2"
    /\ chan' = [chan EXCEPT ![p] = p]
    /\ state' = [state EXCEPT ![p] = "SLEEPING"]
    /\ Swtch(c) /\ Goto(p, "sleep3")
    /\ UNCHANGED <<killed, parent, lock, waitLock, cpuProc, todo, kid>>

-----------------------------------------------------------------------------

Scheduler(c) == SchedulerAgain(c) \/ \E p \in Proc : Schedule(c, p)

Fork(c, p) == ForkFail(c, p) \/ ForkParent(c, p) \/ ForkRunnable(c, p)
              \/ \E q \in Proc : ForkAlloc(c, p, q)
KillCall(c, p) == KillFail(c, p) \/ \E q \in Proc : Kill(c, p, q)
Exit(c, p) == \/ ExitReparent(c, p) \/ ExitNextLoop(c, p) \/ ExitZombie(c, p)
              \/ \E q \in Proc : ExitWakeInit(c, p, q) \/ ExitWakeParent(c, p, q)
Wait(c, p) == \/ WaitLock(c, p) \/ WaitGivesUp(c, p) \/ WaitSleeps(c, p)
              \/ SleepLock(c, p) \/ SleepSched(c, p)
              \/ \E q \in Proc : WaitSkip(c, p, q) \/ WaitReap(c, p, q) \/ WaitBadAddr(c, p, q)

\* What the kernel does for p once it is in the kernel.
Kernel(c, p) == Trap(c, p) \/ Fork(c, p) \/ KillCall(c, p) \/ Exit(c, p) \/ Wait(c, p)

User(c, p) == \E l \in {"fork", "kill", "exit1", "wait1"} : Syscall(c, p, l)

Next == \E c \in CPU :
    Scheduler(c) \/ \E p \in Proc : Resume(c, p) \/ Kernel(c, p) \/ User(c, p) \/ Yield(c, p)

Spec == Init /\ [][Next]_vars

\* The scheduler's loop comes to every runnable process, a lock that is free
\* again and again is got in the end, and no program is spared the timer.
Fairness ==
    /\ \A c \in CPU : WF_vars(SchedulerAgain(c))
    /\ \A p \in Proc : /\ SF_vars(\E c \in CPU : Schedule(c, p))
                       /\ WF_vars(\E c \in CPU : Resume(c, p))
                       /\ SF_vars(\E c \in CPU : Kernel(c, p))
                       /\ SF_vars(\E c \in CPU : Yield(c, p))

FairSpec == Spec /\ Fairness

-----------------------------------------------------------------------------

\* Every field of the process table, every lock and every c->proc has its type.
TypeOK ==
    /\ state \in [Proc -> {"UNUSED", "USED", "SLEEPING", "RUNNABLE", "RUNNING", "ZOMBIE"}]
    /\ chan \in [Proc -> Proc \cup {None}] /\ parent \in [Proc -> Proc \cup {None}]
    /\ killed \in [Proc -> BOOLEAN]
    /\ lock \in [Proc -> CPU \cup {None}] /\ waitLock \in CPU \cup {None}
    /\ cpuProc \in [CPU -> Proc \cup {None}] /\ back \in [CPU -> BOOLEAN]
    /\ pc \in [Proc -> {"ret", "user", "fork", "fork1", "fork2", "kill", "exit1", "exit2",
                       "exit3", "dead", "wait1", "wait2", "sleep1", "sleep2", "sleep3"}]
    /\ todo \in [Proc -> SUBSET Proc] /\ kid \in [Proc -> Proc \cup {None}]

\* The panics of sched(): a CPU enters the scheduler with p->lock and no other
\* lock, and with p->state changed.
SchedDoesNotPanic ==
    \A c \in CPU : back[c] => /\ Held(c) = {cpuProc[c]} /\ waitLock # c
                             /\ state[cpuProc[c]] # "RUNNING"

\* No two CPUs run the same process, a process that runs is RUNNING, and a slot
\* is not freed while a CPU still stands on its kernel stack.
KernelStackIsOwned ==
    \A c, d \in CPU : cpuProc[c] # None =>
        /\ cpuProc[c] = cpuProc[d] => c = d
        /\ ~back[c] => state[cpuProc[c]] = "RUNNING"
        /\ state[cpuProc[c]] \notin {"UNUSED", "USED"}

\* sleep() misses no wakeup: while a parent sleeps in wait() none of its
\* children is a zombie, unless an exit() is just about to say so.
NoLostWakeup ==
    \A p, q \in Proc :
        state[p] = "SLEEPING" /\ parent[q] = p /\ state[q] = "ZOMBIE" => waitLock # None

\* Every process has a parent that can still call wait(): exit() leaves no
\* child behind, not even one that fork() is about to hand over.
HasLiveParent ==
    \A q \in Proc \ {initproc} : state[q] # "UNUSED" =>
        \/ parent[q] # None /\ state[parent[q]] \notin {"UNUSED", "USED", "ZOMBIE"}
        \/ \E p \in Proc : pc[p] = "fork1" /\ kid[p] = q

InWait(p) == pc[p] \in {"wait1", "wait2", "sleep1", "sleep2", "sleep3"}

\* A wait() by a process with an exited child returns, whether the child exits
\* before the call, during the scan, or while the parent sleeps.
WaitReturns ==
    \A p \in Proc : InWait(p) /\ (\E q \in Kids(p) : state[q] = "ZOMBIE") ~> ~InWait(p)

\* kill() wakes its victim from sleep().
KillWakes == \A p \in Proc : killed[p] => state[p] # "SLEEPING"
=============================================================================
