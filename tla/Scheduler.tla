------------------------------ MODULE Scheduler ------------------------------
(***************************************************************************)
(* The single-CPU scheduler of kernel/task: the run queue, wait lists, the *)
(* sleep list and the timer.  A task control block has one list node for   *)
(* all of these, so it may be linked into at most one of them.             *)
(*                                                                         *)
(* The running task is an arbitrary client: it may make any sequence of    *)
(* scheduler calls.  Every call runs with interrupts disabled and is one   *)
(* step; the timer interrupt may come between two calls of a task that     *)
(* runs with interrupts enabled.  The kernel threads do, init and most     *)
(* user programs do not: they are never preempted.                         *)
(*                                                                         *)
(* Nothing in the kernel takes a SpinLock, so __disable_yield_counter is   *)
(* always 0 and the branches of yield(), block() and sleep() for a         *)
(* disabled yield are left out.                                            *)
(***************************************************************************)
EXTENDS Naturals, Sequences, SequencesExt, Lists

CONSTANTS
    Task,          \* task control blocks that may exist
    InitTask,      \* __all_tasks[KP_Init]
    IdleTask,      \* __all_tasks[KP_Idle]
    Deamons,       \* the tasks startDeamons() creates, in order
    WaitList,      \* the WaitList objects (of tasks, pipes and terminals)
    Sleeping,      \* the name of the list __sleeping
    NoDetach,      \* an empty __request_detach
    Quantum,       \* ticks between two preemptions: 10
    Durations,     \* arguments of sleep()
    Horizon        \* bound: the clock saturates here

ASSUME SchedulerAssumption ==
    /\ InitTask \in Task /\ IdleTask \in Task /\ InitTask # IdleTask
    /\ Deamons \in Seq(Task \ {InitTask, IdleTask}) /\ Deamons # <<>>
    /\ IsInjective(Deamons)
    /\ Sleeping \notin WaitList /\ NoDetach \notin WaitList \cup {Sleeping}
    /\ Quantum \in Nat \ {0} /\ Durations \subseteq Nat
    /\ Horizon \in Nat /\ Horizon % Quantum = 0

VARIABLES
    state,           \* TaskControlBlock::state, "Free" when there is none
    current,         \* Scheduler::__current
    pending,         \* Scheduler::__pending
    lists,           \* __sleeping and the __list of every WaitList
    request_detach,  \* the list that __request_detach unlinks from
    wakeReason,      \* TaskControlBlock::wakeReason
    sleepTime,       \* TaskControlBlock::sleepInfo.time
    msSinceBoot,     \* timer::msSinceBoot
    enabled,         \* tasks whose own code runs with the interrupt flag set
    starting         \* new tasks still before the cli of their entry function

flags == <<enabled, starting>>
vars == <<state, current, pending, lists, request_detach, wakeReason,
          sleepTime, msSinceBoot, flags>>

List == WaitList \cup {Sleeping}
State == {"Free", "S_Ready", "S_Running", "S_Exited", "S_Blocked"}
WakeReason == {"WR_Normal", "WR_Signal"}
UserTask == Task \ (ToSet(Deamons) \cup {InitTask, IdleTask})

TypeOK ==
    /\ state \in [Task -> State]
    /\ current \in Task
    /\ pending \in Seq(Task)
    /\ lists \in [List -> Seq(Task)]
    /\ request_detach \in [Task -> List \cup {NoDetach}]
    /\ wakeReason \in [Task -> WakeReason]
    /\ sleepTime \in [Task -> Nat]
    /\ msSinceBoot \in 0..Horizon
    /\ enabled \subseteq Task /\ starting \subseteq Task

\* kmain() after startDeamons() and its yield(): the first deamon runs and
\* init is queued behind the others.  taskWrapper() has enabled interrupts for the
\* kernel threads; init never does.
Init ==
    /\ state = [t \in Task |->
                   IF t = Head(Deamons) THEN "S_Running"
                   ELSE IF t \in ToSet(Deamons) \cup {InitTask, IdleTask}
                        THEN "S_Ready" ELSE "Free"]
    /\ current = Head(Deamons)
    /\ pending = Append(Tail(Deamons), InitTask)
    /\ lists = [l \in List |-> <<>>]
    /\ request_detach = [t \in Task |-> NoDetach]
    /\ wakeReason = [t \in Task |-> "WR_Normal"]
    /\ sleepTime = [t \in Task |-> 0]
    /\ msSinceBoot = 0
    /\ enabled = ToSet(Deamons) \cup {IdleTask}
    /\ starting = {}

-----------------------------------------------------------------------------
(* Switching tasks.                                                        *)

\* switchToTask(next), up to the point where next is back in its own code:
\* yield() or taskWrapper() has marked it running and block() has taken the
\* wake reason.  st and wr are the states and wake reasons at the switch.
switchToTask(next, st, wr) ==
    /\ current' = next
    /\ state' = [st EXCEPT ![next] = "S_Running"]
    /\ wakeReason' = [wr EXCEPT ![next] = "WR_Normal"]

\* The run queue after yield() has taken its head: the running task goes to the
\* end, unless it is the idle task.  (Mutant: it goes to the front.)
requeuedMutant(q) == IF current = IdleTask THEN Tail(q) ELSE <<current>> \o Tail(q)
requeued(q) == IF current = IdleTask THEN Tail(q) ELSE Append(Tail(q), current)

\* Scheduler::yield() called with states st, run queue q, wake reasons wr.
yieldFrom(st, q, wr) ==
    \/ /\ q # <<>>
       /\ st[current] = "S_Running"
       /\ switchToTask(Head(q), [st EXCEPT ![current] = "S_Ready"], wr)
       /\ pending' = requeued(q)
    \/ /\ q # <<>>
       /\ st[current] # "S_Running"
       /\ switchToTask(Head(q), st, wr)
       /\ pending' = Tail(q)
    \/ /\ q = <<>>
       /\ st[current] # "S_Running"
       /\ switchToTask(IdleTask, st, wr)
       /\ pending' = q
    \/ /\ q = <<>>
       /\ st[current] = "S_Running"
       /\ state' = st /\ wakeReason' = wr /\ pending' = q
       /\ UNCHANGED current

\* Scheduler::block(): the running task gives up the processor.
block ==
    yieldFrom([state EXCEPT ![current] = "S_Blocked"], pending,
              [wakeReason EXCEPT ![current] = "WR_Normal"])

\* The running task may call the scheduler: the idle task only yields, and a
\* new task calls nothing before it is in its program.
Calls ==
    /\ current \notin {IdleTask} \cup starting
    /\ state[current] = "S_Running"

\* The interrupt flag is set: between the sti of taskWrapper() and the cli of
\* execEntry() or forkEntry(), and in code whose frame has it.  exit() clears it.
Interruptible ==
    /\ current \in enabled \cup starting
    /\ state[current] = "S_Running"

-----------------------------------------------------------------------------
(* Operations of the running task.                                         *)

\* idleTask(): yield after every halt.
IdleYield ==
    /\ current = IdleTask
    /\ yieldFrom(state, pending, wakeReason)
    /\ UNCHANGED <<lists, request_detach, sleepTime, msSinceBoot, flags>>

\* WaitList::wait()
Wait(w) ==
    /\ Calls
    /\ lists' = [lists EXCEPT ![w] = Append(@, current)]
    /\ request_detach' = [request_detach EXCEPT ![current] = w]
    /\ block
    /\ UNCHANGED <<sleepTime, msSinceBoot, flags>>

\* kmain() blocks on no list when it has no children.
InitBlock ==
    /\ Calls
    /\ current = InitTask
    /\ block
    /\ UNCHANGED <<lists, request_detach, sleepTime, msSinceBoot, flags>>

\* The time a sleep of ms ends.  (Mutant: a wrong sign.)
wakeTimeMutant(ms) == msSinceBoot - ms
wakeTime(ms) == msSinceBoot + ms

\* find_if in sleep(): p is the place of the first sleeper of s that is not
\* earlier than time.  (Mutant: always the end of the list.)
findsMutant(s, time, p) == p = Len(s) + 1
finds(s, time, p) ==
    /\ \A i \in 1..p - 1 : sleepTime[s[i]] < time
    /\ p <= Len(s) => time <= sleepTime[s[p]]

\* Scheduler::sleep(ms)
Sleep(ms) ==
    /\ Calls
    /\ current # InitTask
    /\ msSinceBoot + ms < Horizon
    /\ sleepTime' = [sleepTime EXCEPT ![current] = wakeTime(ms)]
    /\ \E p \in 1..Len(lists[Sleeping]) + 1 :
          /\ finds(lists[Sleeping], wakeTime(ms), p)
          /\ lists' = [lists EXCEPT ![Sleeping] = InsertAt(@, p, current)]
    /\ request_detach' = [request_detach EXCEPT ![current] = Sleeping]
    /\ block
    /\ UNCHANGED <<msSinceBoot, flags>>

\* addTask() of a task that spawn or fork has just built.  spawn() starts it on
\* a frame of zeros; fork(), a system call, on a copy of the caller's frame.
AddTask(t) ==
    /\ Calls
    /\ current # InitTask
    /\ state[t] = "Free"
    /\ state' = [state EXCEPT ![t] = "S_Ready"]
    /\ pending' = Append(pending, t)
    /\ starting' = starting \cup {t}
    /\ \/ enabled' = enabled \ {t}
       \/ /\ current \in UserTask \cap enabled
          /\ enabled' = enabled \cup {t}
    /\ UNCHANGED <<current, lists, request_detach, wakeReason, sleepTime,
                   msSinceBoot>>

\* execEntry() or forkEntry(): cli, then syscallReturn() of the frame.
EnterUser ==
    /\ current \in starting
    /\ state[current] = "S_Running"
    /\ starting' = starting \ {current}
    /\ UNCHANGED <<state, current, pending, lists, request_detach, wakeReason,
                   sleepTime, msSinceBoot, enabled>>

\* sigreturn() sets the interrupt flag in the frame it returns to; no other
\* system call changes it (execTask() leaves the flags of the frame alone).
Sigreturn ==
    /\ Calls
    /\ current \in UserTask
    /\ enabled' = enabled \cup {current}
    /\ UNCHANGED <<state, current, pending, lists, request_detach, wakeReason,
                   sleepTime, msSinceBoot, starting>>

\* freeTask(): the control block of an exited task is deleted; the next one in
\* its place begins with zeros (operator new clears memory).
FreeTask(t) ==
    /\ Calls
    /\ state[t] = "S_Exited"
    /\ state' = [state EXCEPT ![t] = "Free"]
    /\ wakeReason' = [wakeReason EXCEPT ![t] = "WR_Normal"]
    /\ sleepTime' = [sleepTime EXCEPT ![t] = 0]
    /\ enabled' = enabled \ {t}
    /\ UNCHANGED <<current, pending, lists, request_detach, msSinceBoot, starting>>

\* exit(), first part: from here on interrupts are off and the task makes only
\* the wakeAll and sendSignal calls of exit() (steps WakeAll and SendSignal).
ExitBegin ==
    /\ Calls
    /\ current \in UserTask
    /\ state' = [state EXCEPT ![current] = "S_Exited"]
    /\ UNCHANGED <<current, pending, lists, request_detach, wakeReason,
                   sleepTime, msSinceBoot, flags>>

\* exit(), last part: the switch from which the task never returns.
ExitSwitch ==
    /\ state[current] = "S_Exited"
    /\ \/ /\ pending # <<>>
          /\ switchToTask(Head(pending), state, wakeReason)
          /\ pending' = Tail(pending)
       \/ /\ pending = <<>>
          /\ switchToTask(IdleTask, state, wakeReason)
          /\ UNCHANGED pending
    /\ UNCHANGED <<lists, request_detach, sleepTime, msSinceBoot, flags>>

-----------------------------------------------------------------------------
(* Waking.  These are calls of the running task or of an interrupt handler *)
(* that interrupts it; init makes none of them.                            *)

\* What wake() does to the blocked tasks of the sequence ts, one after the
\* other.  Tasks taken from a list are blocked (WaitersAreBlocked), so the
\* early return of wake() is not taken.
wokenState(ts) ==
    [t \in Task |-> IF t \in ToSet(ts) THEN "S_Ready" ELSE state[t]]
wokenReason(ts, reason) ==
    [t \in Task |-> IF t \in ToSet(ts) THEN reason ELSE wakeReason[t]]
wokenDetach(ts) ==
    [t \in Task |-> IF t \in ToSet(ts) THEN NoDetach ELSE request_detach[t]]

Wakes(ts, reason) ==
    /\ state' = wokenState(ts)
    /\ wakeReason' = wokenReason(ts, reason)
    /\ request_detach' = wokenDetach(ts)
    /\ pending' = pending \o ts
    /\ UNCHANGED <<current, sleepTime, msSinceBoot, flags>>

\* WaitList::wakeOne()
WakeOne(w) ==
    /\ current # InitTask
    /\ lists[w] # <<>>
    /\ lists' = [lists EXCEPT ![w] = Tail(@)]
    /\ Wakes(<<Head(lists[w])>>, "WR_Normal")

\* WaitList::wakeAll()
WakeAll(w) ==
    /\ current # InitTask
    /\ lists[w] # <<>>
    /\ lists' = [lists EXCEPT ![w] = <<>>]
    /\ Wakes(lists[w], "WR_Normal")

\* The lists after the detach function that t left behind has run, if it left
\* one.  (Mutant: it is not run.)
detachedMutant(t) == lists
detached(t) ==
    IF request_detach[t] = NoDetach THEN lists
    ELSE [lists EXCEPT ![request_detach[t]] = Unlink(@, t)]

\* sendSignal() of an unmasked signal to a blocked task: wake(task, WR_Signal)
SendSignal(t) ==
    /\ current # InitTask
    /\ state[t] = "S_Blocked"
    /\ lists' = detached(t)
    /\ Wakes(<<t>>, "WR_Signal")

\* The loop of checkSleep() at time now takes the first n sleepers of s.
\* (Mutants: it takes those that are due just now; it takes only one; its test
\* is the wrong way round.)
expiresEarly(s, now, n) ==
    /\ \A i \in 1..n : sleepTime[s[i]] <= now
    /\ n < Len(s) => now < sleepTime[s[n + 1]]
expiresOne(s, now, n) ==
    n = IF s # <<>> /\ sleepTime[s[1]] < now THEN 1 ELSE 0
expiresSwapped(s, now, n) ==
    /\ \A i \in 1..n : now <= sleepTime[s[i]]
    /\ n < Len(s) => sleepTime[s[n + 1]] < now
expires(s, now, n) ==
    /\ \A i \in 1..n : sleepTime[s[i]] < now
    /\ n < Len(s) => now <= sleepTime[s[n + 1]]

\* timer::hit(): checkSleep() wakes the expired head of the sleep list and,
\* every Quantum ticks, preempts the interrupted task.  The clock stands for
\* "Horizon or later" once it has reached Horizon; no deadline is that late.
Tick ==
    /\ Interruptible
    /\ msSinceBoot' = IF msSinceBoot < Horizon THEN msSinceBoot + 1 ELSE Horizon
    /\ LET s == lists[Sleeping] IN
       \E n \in 0..Len(s) :
          LET expired == SubSeq(s, 1, n) IN
          /\ expires(s, msSinceBoot', n)
          /\ lists' = [lists EXCEPT ![Sleeping] = SubSeq(s, n + 1, Len(s))]
          /\ request_detach' = wokenDetach(expired)
          /\ \/ /\ msSinceBoot' % Quantum = 0
                /\ yieldFrom(wokenState(expired), pending \o expired,
                             wokenReason(expired, "WR_Normal"))
             \/ /\ msSinceBoot' % Quantum # 0
                /\ state' = wokenState(expired)
                /\ wakeReason' = wokenReason(expired, "WR_Normal")
                /\ pending' = pending \o expired
                /\ UNCHANGED current
    /\ UNCHANGED <<sleepTime, flags>>

-----------------------------------------------------------------------------
Next ==
    \/ IdleYield
    \/ InitBlock
    \/ EnterUser
    \/ Sigreturn
    \/ ExitBegin
    \/ ExitSwitch
    \/ Tick
    \/ \E w \in WaitList : Wait(w) \/ WakeOne(w) \/ WakeAll(w)
    \/ \E t \in Task : AddTask(t) \/ FreeTask(t) \/ SendSignal(t)
    \/ \E ms \in Durations : Sleep(ms)

Spec == Init /\ [][Next]_vars

\* The timer keeps interrupting: a tick that comes while interrupts are off
\* stays latched in the interrupt controller and is taken when they are on
\* again, hence strong fairness.  The kernel code that runs with interrupts off
\* (exit(), and init between two waits) contains no endless loop.  Nothing is
\* fair about programs; what the properties need of them is their premise.
Fairness ==
    /\ SF_vars(Tick)
    /\ WF_vars(ExitSwitch)
    /\ WF_vars(InitBlock \/ (current = InitTask /\ \E w \in WaitList : Wait(w)))

FairSpec == Spec /\ Fairness

-----------------------------------------------------------------------------
(* Properties.                                                             *)

\* The task __current points to is the only one that is running; it may also
\* be in the middle of exit() (scheduler.self.cpp:24).
RunningIsCurrent ==
    \A t \in Task :
        /\ state[t] = "S_Running" => t = current
        /\ t = current => state[t] \in {"S_Running", "S_Exited"}

\* The run queue holds every ready task once and no other task, so no task is
\* lost or run twice; the idle task is never queued (scheduler.self.cpp:56).
PendingIsReady ==
    /\ IsInjective(pending)
    /\ ToSet(pending) = {t \in Task \ {IdleTask} : state[t] = "S_Ready"}

\* A list holds exactly the blocked tasks whose detach function unlinks from
\* it: a task is on at most one list and a wake that comes another way leaves
\* no node behind (wait.cpp:13, scheduler.other.cpp:16).
WaitersAreBlocked ==
    /\ \A l \in List :
          /\ IsInjective(lists[l])
          /\ ToSet(lists[l]) =
                {t \in Task : state[t] = "S_Blocked" /\ request_detach[t] = l}
    /\ \A t \in Task : request_detach[t] # NoDetach => state[t] = "S_Blocked"

\* A task that blocks without a list is init, and the idle task never stops.
OnlyInitBlocksBare ==
    /\ \A t \in Task : state[t] = "S_Blocked" /\ request_detach[t] = NoDetach
                          => t = InitTask
    /\ state[IdleTask] \in {"S_Ready", "S_Running"}

\* Every task is where its state says, and only there: running, queued once,
\* linked once into the list it will be woken from, or in none of these.  One
\* list node serves all the queues, so a second link would corrupt them
\* (tcb.hpp:47); a missing one would lose the task for ever.
QueueInv ==
    /\ RunningIsCurrent
    /\ PendingIsReady
    /\ WaitersAreBlocked
    /\ OnlyInitBlocksBare

\* The sleep list is ordered by deadline, which is what lets checkSleep() stop
\* at the first sleeper that is not due (scheduler.other.cpp:36).
SleepersSorted ==
    LET s == lists[Sleeping] IN
    \A i, j \in 1..Len(s) : i < j => sleepTime[s[i]] <= sleepTime[s[j]]

\* A sleep that ends normally has lasted longer than was asked for, and a wake
\* reason is not overwritten before the woken task has read it: wake() ignores
\* a task that is not blocked (scheduler.other.cpp:10 and :31).
WakesAreExact ==
    [][\A t \in Task :
        /\ (/\ request_detach[t] = Sleeping /\ request_detach'[t] # Sleeping
            /\ wakeReason'[t] = "WR_Normal") => sleepTime[t] < msSinceBoot'
        /\ (/\ state[t] = "S_Ready" /\ state'[t] = "S_Ready")
              => wakeReason'[t] = wakeReason[t]]_vars

\* Premise: a program that runs with interrupts off does not compute for ever.
\* It blocks, exits or returns from a signal handler at some time.
UserCodeYields ==
    \A t \in UserTask : []<>(current # t \/ Interruptible)

\* A ready task gets the processor if no program keeps it with interrupts off:
\* yield() takes the oldest entry of the run queue, and the timer preempts
\* whoever runs with interrupts on (scheduler.self.cpp:52, task.cpp:68-93).
ReadyRuns ==
    UserCodeYields =>
        \A t \in Task \ {IdleTask} : state[t] = "S_Ready" ~> state[t] = "S_Running"

\* A sleeping task wakes up again if interrupts are enabled again and again.
\* UserCodeYields is too little for it: programs that run with interrupts off
\* and hand the processor to each other stop the clock (scheduler.other.cpp:29).
SleepersWake ==
    []<>Interruptible =>
        \A t \in Task : request_detach[t] = Sleeping ~> request_detach[t] # Sleeping

-----------------------------------------------------------------------------
(* The queues implement the abstract picture of Tasking.                   *)

Abs == INSTANCE Tasking WITH
    NoList <- NoDetach,
    run <- [t \in Task |-> CASE state[t] \in {"S_Ready", "S_Running"} -> "Runnable"
                             [] state[t] = "S_Blocked" -> "Blocked"
                             [] state[t] = "S_Exited" -> "Exited"
                             [] OTHER -> "Free"],
    on <- request_detach,
    deadline <- sleepTime,
    clock <- msSinceBoot

\* Queue operations release exactly the tasks that Tasking releases: all the
\* waiters of a list, one of them, or all the sleepers whose time is over.
ImplementsTasking == Abs!Spec
=============================================================================
