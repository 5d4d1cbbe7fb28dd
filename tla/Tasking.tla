------------------------------- MODULE Tasking -------------------------------
(***************************************************************************)
(* What the scheduler promises its clients, without queues: a task is      *)
(* runnable, blocked on one list, exited or absent, and an operation on a  *)
(* list releases exactly the tasks that are blocked on it.  Scheduler.tla  *)
(* is shown to implement this specification; the models of waitpid and of  *)
(* pipes use the same picture of blocking.                                 *)
(***************************************************************************)
EXTENDS Naturals

CONSTANTS
    Task,          \* task control blocks
    WaitList,      \* the WaitList objects of the kernel
    Sleeping,      \* the list of sleeping tasks
    NoList         \* "on no list": a task that only a signal can wake

VARIABLES
    run,           \* run[t]: "Free", "Runnable", "Blocked" or "Exited"
    on,            \* on[t]: the list a blocked task waits on
    deadline,      \* deadline[t]: the time a sleeping task asked for
    clock          \* milliseconds since boot

vars == <<run, on, deadline, clock>>

Waiters(l) == {t \in Task : run[t] = "Blocked" /\ on[t] = l}

\* Every task of the set T stops waiting and becomes runnable.
Release(T) ==
    /\ run' = [t \in Task |-> IF t \in T THEN "Runnable" ELSE run[t]]
    /\ on' = [t \in Task |-> IF t \in T THEN NoList ELSE on[t]]

Init ==
    /\ run \in [Task -> {"Free", "Runnable"}]
    /\ on = [t \in Task |-> NoList]
    /\ deadline \in [Task -> Nat]
    /\ clock = 0

Create(t) ==
    /\ run[t] = "Free"
    /\ run' = [run EXCEPT ![t] = "Runnable"]
    /\ UNCHANGED <<on, deadline, clock>>

Destroy(t) ==
    /\ run[t] = "Exited"
    /\ run' = [run EXCEPT ![t] = "Free"]
    /\ deadline' = [deadline EXCEPT ![t] = 0]
    /\ UNCHANGED <<on, clock>>

Exit(t) ==
    /\ run[t] = "Runnable"
    /\ run' = [run EXCEPT ![t] = "Exited"]
    /\ UNCHANGED <<on, deadline, clock>>

Block(t, l) ==
    /\ run[t] = "Runnable"
    /\ run' = [run EXCEPT ![t] = "Blocked"]
    /\ on' = [on EXCEPT ![t] = l]
    /\ UNCHANGED <<deadline, clock>>

Sleep(t) ==
    /\ run[t] = "Runnable"
    /\ run' = [run EXCEPT ![t] = "Blocked"]
    /\ on' = [on EXCEPT ![t] = Sleeping]
    /\ deadline'[t] \in Nat /\ deadline'[t] >= clock
    /\ deadline' = [deadline EXCEPT ![t] = deadline'[t]]
    /\ UNCHANGED clock

\* A wake of one task takes a waiter if there is one.
WakeOne(l) ==
    /\ \E t \in Waiters(l) : Release({t})
    /\ UNCHANGED <<deadline, clock>>

WakeAll(l) ==
    /\ Release(Waiters(l))
    /\ UNCHANGED <<deadline, clock>>

\* A signal wakes the task it is sent to, wherever that task waits.
Signal(t) ==
    /\ run[t] = "Blocked"
    /\ Release({t})
    /\ UNCHANGED <<deadline, clock>>

\* The timer releases all the sleepers whose deadline has passed, and nobody
\* else.
Tick ==
    /\ clock' \in {clock, clock + 1}
    /\ Release({t \in Waiters(Sleeping) : deadline[t] < clock'})
    /\ UNCHANGED deadline

Next ==
    \/ \E t \in Task : Create(t) \/ Destroy(t) \/ Exit(t) \/ Sleep(t) \/ Signal(t)
    \/ \E t \in Task, l \in WaitList \cup {NoList} : Block(t, l)
    \/ \E l \in WaitList : WakeOne(l) \/ WakeAll(l)
    \/ Tick

Spec == Init /\ [][Next]_vars
=============================================================================
