------------------------------- MODULE Process -------------------------------
(***************************************************************************)
(* The process tree of kernel/task: fork, exit, waitpid and the tasks that *)
(* reap, which are the parents, init and the console deamons.              *)
(*                                                                         *)
(* Task control blocks are blocks of memory that point to each other.  A   *)
(* deleted block keeps its contents, and pointers to it keep working,      *)
(* until the memory is a task control block again; its use for anything    *)
(* else is not modelled.                                                   *)
(*                                                                         *)
(* Blocking is the one of Tasking: a task blocks in waitpid() on its own   *)
(* list __wait_childs and any woken task runs later.  A system call runs   *)
(* with interrupts off and is one step up to the point where it blocks.    *)
(* init never enables interrupts either.  The deamons are kernel threads   *)
(* with interrupts on, so their waitpid() and freeTask() are several       *)
(* steps.                                                                  *)
(*                                                                         *)
(* A task may exit at any time it is in user mode, by the system call or   *)
(* by a signal, so the sets of pending and masked signals are left out;    *)
(* a signal counts here only when it wakes a blocked task.                 *)
(***************************************************************************)
EXTENDS Naturals, Sequences, SequencesExt, FiniteSetsExt

CONSTANTS
    DeamonCount,   \* terminals, hence deamons: __tty_count
    MaxTask,       \* the last pid: __max_task - 1
    MaxBlock,      \* bound: the memory for task control blocks
    MaxMade        \* bound: how many tasks are ever made

ASSUME ProcessAssumption ==
    /\ DeamonCount \in Nat \ {0} /\ MaxTask \in Nat /\ MaxTask > DeamonCount + 1
    /\ MaxBlock \in Nat /\ MaxBlock >= MaxTask /\ MaxMade \in Nat

VARIABLES
    all_tasks,     \* __all_tasks
    tcb,           \* the contents of the memory of each block
    heap,          \* the blocks that are allocated
    made,          \* the number of tasks made so far
    status         \* "ok" until the kernel stops

vars == <<all_tasks, tcb, heap, made, status>>

Pid == 1..MaxTask
KP_Init == 1
KP_Invalid == 0
AnyChild == 0      \* waitpid(-1)
Deamon == 2..DeamonCount + 1

Block == 1..MaxBlock
NULL == 0
Pointer == Block \cup {NULL}
InitBlock == 1

\* The TaskControlBlock: head and tail are those of childTasks, next and prev
\* link it into the childTasks of another.  pc is where the task is, and target
\* the argument of the waitpid() it is in.
Blank ==
    [state |-> "none", pid |-> KP_Invalid, parentPid |-> KP_Invalid,
     head |-> NULL, tail |-> NULL, next |-> NULL, prev |-> NULL,
     pc |-> "user", target |-> AnyChild, wakeReason |-> "WR_Normal"]

PCs(p) ==
    CASE p = KP_Init -> {"loop", "wait", "woken"}
      [] p \in Deamon -> {"spawn", "check", "checked", "delete", "wait", "woken"}
      [] OTHER -> {"user", "wait", "woken"}

TypeOK ==
    /\ all_tasks \in [Pid -> Pointer]
    /\ heap \subseteq Block
    /\ made \in 0..MaxMade
    /\ DOMAIN tcb = Block
    /\ \A b \in Block :
          /\ tcb[b].state \in {"none", "Live", "S_Exited"}
          /\ b \in heap => tcb[b].state # "none"
          /\ {tcb[b].pid, tcb[b].parentPid} \subseteq Pid \cup {KP_Invalid}
          /\ {tcb[b].head, tcb[b].tail, tcb[b].next, tcb[b].prev} \subseteq Pointer
          /\ tcb[b].pc \in PCs(tcb[b].pid)
          /\ tcb[b].target \in Pid \cup {AnyChild}
          /\ tcb[b].wakeReason \in {"WR_Normal", "WR_Signal"}
    /\ status \in {"ok", "table full", "fault"}

\* startDeamons() is done; init has scanned its children and is waiting.
Init ==
    /\ all_tasks = [p \in Pid |-> IF p \in {KP_Init} \cup Deamon THEN p ELSE NULL]
    /\ heap = {InitBlock} \cup Deamon
    /\ made = 0
    /\ tcb = [b \in Block |->
                CASE b = InitBlock ->
                        [Blank EXCEPT !.state = "Live", !.pid = KP_Init, !.pc = "wait",
                                      !.head = 2, !.tail = DeamonCount + 1]
                  [] b \in Deamon ->
                        [Blank EXCEPT !.state = "Live", !.pid = b, !.pc = "spawn",
                                      !.parentPid = KP_Init,
                                      !.next = IF b > DeamonCount THEN NULL ELSE b + 1,
                                      !.prev = IF b = 2 THEN NULL ELSE b - 1]
                  [] OTHER -> Blank]
    /\ status = "ok"

-----------------------------------------------------------------------------
(* childTasks, in memory m: the list of block l.                           *)

\* push_back() of from..to, whatever is behind them: __insert_inclusive() at the
\* end.  The assignments are in the order of the code.
push_back(m, l, from, to) ==
    IF m[l].head = NULL
    THEN [m EXCEPT ![from].prev = NULL, ![to].next = NULL,
                   ![l].head = from, ![l].tail = to]
    ELSE [m EXCEPT ![from].prev = m[l].tail, ![to].next = NULL,
                   ![m[l].tail].next = from, ![l].tail = to]

\* erase() of b, which need not be in the list: __extract_inclusive().
erase(m, l, b) ==
    LET n == m[b].next
        p == m[b].prev
    IN  CASE m[l].head = b /\ n = NULL -> [m EXCEPT ![l].head = NULL, ![l].tail = NULL]
          [] m[l].head = b /\ n # NULL ->
                [m EXCEPT ![l].head = n, ![b].next = NULL, ![n].prev = NULL]
          [] m[l].head # b /\ n = NULL ->
                [m EXCEPT ![l].tail = p, ![p].next = NULL, ![b].prev = NULL]
          [] m[l].head # b /\ n # NULL ->
                [m EXCEPT ![p].next = n, ![n].prev = p, ![b].prev = NULL, ![b].next = NULL]

\* It dereferences a null pointer: no list, or no element before b.
eraseFaults(m, l, b) == l # NULL => (m[l].head # b /\ m[b].prev = NULL)

\* The elements a walk from the head meets, up to as many as there are blocks.
childTasks(l) ==
    LET walk[b \in Pointer, n \in 0..MaxBlock] ==
            IF b = NULL \/ n = 0 THEN <<>> ELSE <<b>> \o walk[tcb[b].next, n - 1]
    IN  walk[tcb[l].head, MaxBlock]

-----------------------------------------------------------------------------
(* Making and deleting tasks.                                              *)

\* Another task may run: init, once woken, keeps the processor until it waits.
Runs(b) ==
    /\ status = "ok"
    /\ b \in heap /\ tcb[b].state = "Live"
    /\ b # InitBlock => tcb[InitBlock].pc # "loop"

User(b) == tcb[b].pid \notin {KP_Init} \cup Deamon
InUser(b) == User(b) /\ Runs(b) /\ tcb[b].pc = "user"

\* allocPid(): the first empty slot.
FreePid(q) == all_tasks[q] = NULL /\ \A r \in Pid : r < q => all_tasks[r] # NULL
TableFull == \A q \in Pid : all_tasks[q] # NULL

\* Blocks that are not pointed to are alike, whatever was in them.
PointedTo(b, m, slots) ==
    \/ \E p \in Pid : slots[p] = b
    \/ \E c \in Block \ {b} : b \in {m[c].head, m[c].tail, m[c].next, m[c].prev}

\* operator new: any free block, be it one that something still points to.
New(b) ==
    LET idle == {c \in Block \ heap : ~PointedTo(c, tcb, all_tasks)} IN
    /\ b \notin heap
    /\ b \in idle => b = Min(idle)

\* createTask() or forkTask() by c, then addTask()
Create(c, b, q, m) ==
    /\ made < MaxMade
    /\ FreePid(q) /\ New(b)
    /\ tcb' = push_back([m EXCEPT ![b] = [Blank EXCEPT !.state = "Live", !.pid = q,
                                                       !.parentPid = m[c].pid]],
                        c, b, b)
    /\ all_tasks' = [all_tasks EXCEPT ![q] = b]
    /\ heap' = heap \cup {b}
    /\ made' = made + 1
    /\ UNCHANGED status

\* The kernel stops.
Stop(s) == status' = s /\ UNCHANGED <<all_tasks, tcb, heap, made>>

Fork(c) ==
    /\ InUser(c)
    /\ \/ \E b \in Block, q \in Pid : Create(c, b, q, tcb)
       \/ TableFull /\ Stop("table full")     \* kfatal("fork failed")

\* Memory m after the delete of b: the contents stay if b is still pointed to.
deleted(m, b, slots) == IF PointedTo(b, m, slots) THEN m ELSE [m EXCEPT ![b] = Blank]

findTask(p) == IF p = KP_Invalid THEN NULL ELSE all_tasks[p]

\* freeTask(p) in memory m: nothing if there is no such task that has ended;
\* else it is erased from the list of whoever is in the slot of its parentPid,
\* deleted, and its slot cleared.
freeTask(p, m) ==
    LET b == findTask(p)
        parent == findTask(m[b].parentPid)
        slots == [all_tasks EXCEPT ![p] = NULL]
        ended == {c \in Block : m[c].state = "S_Exited"}
    IN  \/ /\ b \notin ended
           /\ tcb' = m
           /\ UNCHANGED <<all_tasks, heap, made, status>>
        \/ /\ b \in ended
           /\ eraseFaults(m, parent, b)
           /\ Stop("fault")
        \/ /\ b \in ended
           /\ ~eraseFaults(m, parent, b)
           /\ tcb' = deleted(erase(m, parent, b), b, slots)
           /\ all_tasks' = slots
           /\ heap' = heap \ {b}
           /\ UNCHANGED <<made, status>>

-----------------------------------------------------------------------------
(* Waking.                                                                 *)

\* Memory m with the tasks of the set T that wait made runnable.
woken(m, T, reason) ==
    [b \in Block |-> IF b \in T /\ m[b].state = "Live" /\ m[b].pc = "wait"
                     THEN [m[b] EXCEPT !.pc = "woken", !.wakeReason = reason]
                     ELSE m[b]]

\* Memory m after exit() of c has given its children to init.
\* (Mutant: they are left where they are.)
splicedMutant(m, c) == m
spliced(m, c) ==
    IF m[c].head = NULL THEN m
    ELSE [push_back(m, InitBlock, m[c].head, m[c].tail)
             EXCEPT ![c].head = NULL, ![c].tail = NULL]

\* The tasks exit() of c wakes by __wait_childs: the parent, which is whoever is
\* in the slot of parentPid now.  (Mutant: nobody.)
wokenByMutant(c) == {}
wokenBy(c) == {findTask(tcb[c].parentPid)}

\* Scheduler::exit() of a user task, in user mode or in checkSignal().  Init gets
\* SIGCHLD with the children, whose parentPid stays as it is.  wakeAll() comes
\* before the signal to the parent, so a waiting parent sees WR_Normal.
Exit(c) ==
    /\ InUser(c)
    /\ tcb' = LET m == [tcb EXCEPT ![c].state = "S_Exited"]
                  adopts == IF m[c].head = NULL THEN {} ELSE {InitBlock}
              IN  woken(woken(spliced(m, c), adopts, "WR_Signal"),
                        wokenBy(c), "WR_Normal")
    /\ UNCHANGED <<all_tasks, heap, made, status>>

\* kill(): findTaskNew() or findTaskGroup(), then sendSignal() to a task, which
\* does nothing if it has ended.  The caller is a user task, or the terminal in the
\* keyboard interrupt, which has to wait while init runs.
Kill(q) ==
    /\ status = "ok"
    /\ tcb[InitBlock].pc # "loop"
    /\ all_tasks[q] # NULL
    /\ tcb' = woken(tcb, {all_tasks[q]}, "WR_Signal")
    /\ UNCHANGED <<all_tasks, heap, made, status>>

-----------------------------------------------------------------------------
(* waitpid().                                                              *)

Ended(b) == tcb[b].state = "S_Exited"
Child(c, b) == b # NULL /\ tcb[b].parentPid = tcb[c].pid

\* waitpid(t) of c finds child b ended: for AnyChild the first in the list.
Finds(c, t, b) ==
    \/ /\ t # AnyChild
       /\ b = all_tasks[t] /\ Child(c, b) /\ Ended(b)
    \/ /\ t = AnyChild
       /\ LET s == childTasks(c) IN
          \E i \in DOMAIN s : s[i] = b /\ Ended(b) /\ \A j \in 1..i - 1 : ~Ended(s[j])

\* What makes waitpid(t) of c return ECHILD.
NoChild(c, t) ==
    IF t = AnyChild THEN tcb[c].head = NULL ELSE ~Child(c, all_tasks[t])

\* waitpid() returns: block() has reset the wake reason, kmain() loops.
\* (Mutant: kmain() does not loop.)
leftMutant(c) ==
    [tcb EXCEPT ![c].pc = "user", ![c].target = AnyChild, ![c].wakeReason = "WR_Normal"]
left(c) ==
    [tcb EXCEPT ![c].pc = IF c = InitBlock THEN "loop" ELSE "user",
                ![c].target = AnyChild, ![c].wakeReason = "WR_Normal"]

\* The child is freed, by the pid in its block or by the one that was asked for,
\* and waitpid() returns whether or not freeTask() did anything.
Reap(c, t) ==
    \E b \in Block :
        /\ Finds(c, t, b)
        /\ freeTask(IF t = AnyChild THEN tcb[b].pid ELSE t, left(c))

\* One pass through the loop of waitpid() with interrupts off.
Scan(c, t) ==
    \/ Reap(c, t)
    \/ /\ NoChild(c, t)
       /\ tcb' = left(c)
       /\ UNCHANGED <<all_tasks, heap, made, status>>
    \/ /\ ~NoChild(c, t)
       /\ \A b \in Block : ~Finds(c, t, b)
       /\ tcb' = [tcb EXCEPT ![c].pc = "wait", ![c].target = t,
                             ![c].wakeReason = "WR_Normal"]
       /\ UNCHANGED <<all_tasks, heap, made, status>>

\* waitpid(t) of a user task, with and without WNOHANG
Waitpid(c, t) == InUser(c) /\ Scan(c, t)
WaitpidNoHang(c, t) == InUser(c) /\ Reap(c, t)

\* A woken task is back in waitpid(): EINTR after a signal, else it loops.
Resume(c) ==
    /\ tcb[c].pid \notin Deamon /\ Runs(c) /\ tcb[c].pc = "woken"
    /\ \/ /\ tcb[c].wakeReason = "WR_Normal"
          /\ Scan(c, tcb[c].target)
       \/ /\ tcb[c].wakeReason = "WR_Signal"
          /\ tcb' = left(c)
          /\ UNCHANGED <<all_tasks, heap, made, status>>

\* kmain() calls waitpid(-1) again.  It always has the deamons as children.
InitLoop ==
    /\ Runs(InitBlock) /\ tcb[InitBlock].pc = "loop"
    /\ Scan(InitBlock, AnyChild)

-----------------------------------------------------------------------------
(* The console deamon, preemptible between any two of these steps.         *)

At(d, label) == Runs(d) /\ tcb[d].pc = label

SpawnShell(d) ==
    /\ At(d, "spawn")
    /\ \/ \E b \in Block, q \in Pid :
             Create(d, b, q, [tcb EXCEPT ![d].pc = "check", ![d].target = q])
       \/ TableFull /\ Stop("table full")     \* findTask(-1)->groupPid

\* The test in the loop of waitpid(pid): an ended shell is erased and deleted.
\* After ECHILD, as after EINTR, consoleDeamon() unwraps the result without a test
\* and starts another shell.
DeamonCheck(d) ==
    /\ At(d, "check")
    /\ LET b == all_tasks[tcb[d].target] IN
       \/ /\ Child(d, b) /\ Ended(b) /\ ~eraseFaults(tcb, d, b)
          /\ tcb' = erase([tcb EXCEPT ![d].pc = "delete"], d, b)
          /\ heap' = heap \ {b}
          /\ UNCHANGED <<all_tasks, made, status>>
       \/ /\ Child(d, b) /\ Ended(b) /\ eraseFaults(tcb, d, b)
          /\ Stop("fault")
       \/ /\ ~(Child(d, b) /\ Ended(b))
          /\ tcb' = [tcb EXCEPT ![d].pc = IF Child(d, b) THEN "checked" ELSE "spawn"]
          /\ UNCHANGED <<all_tasks, heap, made, status>>

\* The call of __wait_childs.wait() after the test.
DeamonWait(d) ==
    /\ At(d, "checked")
    /\ tcb' = [tcb EXCEPT ![d].pc = "wait"]
    /\ UNCHANGED <<all_tasks, heap, made, status>>

\* The end of freeTask(): the slot is cleared, and a new shell is started.
DeamonClear(d) ==
    /\ At(d, "delete")
    /\ LET b == all_tasks[tcb[d].target]
           slots == [all_tasks EXCEPT ![tcb[d].target] = NULL]
           m == [tcb EXCEPT ![d].pc = "spawn", ![d].target = AnyChild]
       IN  /\ all_tasks' = slots
           /\ tcb' = IF b \in heap THEN m ELSE deleted(m, b, slots)
    /\ UNCHANGED <<heap, made, status>>

DeamonResume(d) ==
    /\ d \in Deamon /\ At(d, "woken")
    /\ tcb' = [tcb EXCEPT ![d].pc = IF tcb[d].wakeReason = "WR_Normal" THEN "check"
                                                                       ELSE "spawn",
                          ![d].wakeReason = "WR_Normal"]
    /\ UNCHANGED <<all_tasks, heap, made, status>>

-----------------------------------------------------------------------------
Next ==
    \/ InitLoop
    \/ \E c \in Block : Fork(c) \/ Exit(c) \/ Resume(c)
    \/ \E q \in Pid : Kill(q)
    \/ \E c \in Block, t \in Pid \cup {AnyChild} : Waitpid(c, t) \/ WaitpidNoHang(c, t)
    \/ \E d \in Deamon : \/ SpawnShell(d) \/ DeamonCheck(d) \/ DeamonWait(d)
                         \/ DeamonClear(d) \/ DeamonResume(d)

Spec == Init /\ [][Next]_vars

\* A woken task gets the processor, also when init, which nobody preempts, takes
\* it again and again in between.  This is ReadyRuns of the scheduler, and so it
\* rests on the premise UserCodeYields there: no program computes for ever with
\* interrupts off.
Fairness ==
    /\ WF_vars(InitLoop)
    /\ \A c \in Block : SF_vars(c # InitBlock /\ Resume(c))

FairSpec == Spec /\ Fairness

-----------------------------------------------------------------------------
(* Properties.                                                             *)

InWaitpid(c) == c \in heap /\ tcb[c].state = "Live" /\ tcb[c].pc = "wait"

\* b is a child of c, not an adopted one, that the waitpid() of c is about.
Awaits(c, b) ==
    /\ Child(c, b)
    /\ IF tcb[c].target = AnyChild THEN b \in ToSet(childTasks(c))
       ELSE b = all_tasks[tcb[c].target]

\* Every task can be met by a walk through exactly one list, that of its parent or,
\* once adopted, that of init, and that task is alive.  "wait any child"
\* (mod.cpp:81) relies on it: a task in no list is never reaped.
InOneChildList ==
    LET adopted == ToSet(childTasks(InitBlock)) IN
    /\ heap \ {InitBlock} \subseteq UNION {ToSet(childTasks(l)) : l \in heap}
    /\ \A l \in heap \ {InitBlock} : \A b \in ToSet(childTasks(l)) :
          l = findTask(tcb[b].parentPid) /\ tcb[l].state = "Live" /\ b \notin adopted

\* The links of the lists are whole: they hold allocated blocks, and the backward
\* links and the tail agree with the walk from the head, which meets no block twice
\* then.
ListsWhole ==
    \A l \in heap :
        LET s == childTasks(l) IN
        /\ s # <<>> => tcb[l].tail = Last(s)
        /\ \A i \in DOMAIN s : /\ s[i] \in heap
                              /\ tcb[s[i]].prev = IF i = 1 THEN NULL ELSE s[i - 1]

\* The slots name the blocks with their pids, except while a deamon is between
\* the delete of its shell and the clearing of the slot.
SlotsExact ==
    /\ \A b \in heap : findTask(tcb[b].pid) = b
    /\ \A p \in Pid : all_tasks[p] # NULL =>
          /\ tcb[all_tasks[p]].pid = p
          /\ all_tasks[p] \in heap \/ \E d \in Deamon : tcb[d].pc = "delete" /\ tcb[d].target = p

TreeExact == ListsWhole /\ InOneChildList /\ SlotsExact

\* freeTask() of a task that is the last in init's list, through the list of
\* another task.
ReapsLastAdopted ==
    \E b \in heap \ heap' :
        /\ b = Last(childTasks(InitBlock))
        /\ findTask(tcb[b].parentPid) # InitBlock

\* A new task gets the memory of one that is deleted but still in its slot.
ReusesSlotted == \E b \in heap' \ heap, p \in Pid : all_tasks[p] = b

\* A tree that is whole, with every task in one list and in its slot, stays so,
\* whatever the order of forks, exits and waits, also with pids that are used again
\* and with memory that is; with two exceptions: freeTask() of the last adopted
\* task, which finds the list by parentPid (scheduler.self.cpp:27,
\* scheduler.task.cpp:42), and a task made while a deamon is between the delete
\* and the clearing of the slot (scheduler.task.cpp:56).
TreeKept == [][TreeExact => TreeExact' \/ ReapsLastAdopted \/ ReusesSlotted]_vars

\* No task in the waitpid() system call waits for a child of its own that has
\* ended, also after one of these exceptions, as long as it is in its slot; and in
\* a whole tree it has a living child, whose exit will wake it: the test and the
\* wait of waitpid() are one step (mod.cpp:83, mod.cpp:110).
NoMissedExit ==
    \A c \in heap : InWaitpid(c) /\ tcb[c].pid \notin Deamon =>
        /\ findTask(tcb[c].pid) = c => \A b \in Block : Awaits(c, b) => ~Ended(b)
        /\ TreeExact => \E b \in heap : Child(c, b) /\ ~Ended(b)

\* A task in the waitpid() system call one of whose awaited children has ended
\* leaves the call, with that child or because of a signal: the wake of exit()
\* is not lost and a woken task does not wait again (mod.cpp:87, mod.cpp:114).  The
\* lists may be damaged, but every task has to be in its slot: else init can meet
\* an ended child that freeTask() does not find, and keeps the processor for ever.
ParentReaps ==
    []SlotsExact =>
        \A c \in Block :
            (/\ c \in heap /\ User(c) /\ tcb[c].pc \in {"wait", "woken"}
             /\ \E b \in Block : Awaits(c, b) /\ Ended(b))
                ~> (tcb[c].pc = "user" \/ status # "ok")

\* "wait pid" (mod.cpp:107): a deamon that waits for its shell is woken when
\* the shell ends.
DeamonSeesExit ==
    \A d \in Deamon : InWaitpid(d) => ~Ended(all_tasks[tcb[d].target])

\* "wait any child" (mod.cpp:81): init does not wait while a child in its list
\* has ended.
InitSeesExit ==
    InWaitpid(InitBlock) => \A b \in ToSet(childTasks(InitBlock)) : ~Ended(b)

\* The kernel does not fault: a page fault in kernel mode ends in kfatal()
\* (interrupt/impl.cpp:76).
NoKernelFault == status # "fault"
=============================================================================
