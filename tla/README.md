# Verification of the nyan kernel

TLA+ models of parts of the kernel in `src/kernel`, the TLC runs that check
them on small instances, and TLAPS proofs that hold for every instance. All
paths below are relative to `src/kernel`.

## 1. The system

nyan is a single-processor i386 kernel with a Unix system call interface. Four
facts decide which interleavings exist, and all the models rest on them:

* a system call runs with interrupts off from beginning to end
  (`interrupt/impl.cpp:113`), so it is one step up to the point where it blocks;
* only `taskWrapper()` enables interrupts in the kernel (`task/task.cpp:19`). The
  console deamons and the idle task are therefore preemptible kernel threads,
  while init, which becomes a task by calling `yield()` in `kmain()`, never is;
* a program starts on a frame of zeros (`task/task.cpp:71`), so it runs with
  interrupts off too, until it has returned from a signal handler:
  `sigreturn()` sets the flag (`syscall/sigreturn.cpp:30`), and fork copies it;
* nothing takes a `SpinLock`, so `yield()` is never disabled.

### Inventory

| part | state | operations | interacts with | hard behaviours |
|---|---|---|---|---|
| scheduler, wait lists, timer (`task/scheduler.*`, `task/wait.*`, `timer/`) | `__current`, `__pending`, `__sleeping`, the lists, `state`, `wakeReason`, `__request_detach`, clock | yield, block, sleep, wait, wakeOne, wakeAll, wake, sendSignal, checkSleep, addTask, freeTask, exit | everything that blocks | one list node for all queues; a signal against a normal wakeup; sorted sleep list; starvation |
| process tree (`task/mod.cpp`, `task/pid.cpp`, `task/task.cpp`, `task/scheduler.task.cpp`) | `__all_tasks`, `parentPid`, `childTasks`, exit state | fork, exit, waitpid, kill, freeTask, allocPid | scheduler, deamons, init | orphans; pid reuse; the test and the wait; full table |
| console deamons (`console/load.cpp`) | shell pid | start a shell, wait for it | process tree, terminal | preemption between any two steps |
| pipes (`fs/pipe.*`) | ring, head, tail, end flags, two wait lists | read, write, onFdClose | scheduler, descriptors | lost wakeup; wrapping counters; end of file |
| descriptors (`fs/fd.*`, `task/tcb/file.*`) | tables, shared `FdObj` | pipe, dup, dup2, fcntl, close, exec, fork, exit | pipes, files | sharing over fork; every way an object dies |
| signals (`task/tcb/signal.*`, `syscall/rt_sig*`, `syscall/sigreturn.cpp`) | pending set, mask, actions, frames | sendSignal, checkSignal, sigprocmask, sigaction, sigreturn | scheduler, every blocking call | a signal after a normal wakeup; nested handlers |
| terminal input (`console/tty.*`) | line buffer, input, pending end of file, readers | input, read, processKey | keyboard, scheduler, signals | wakeOne with short reads; stale end of file |
| keyboard (`keyboard/`) | scan-code prefix, modifiers | push, handle | terminal | prefix bytes in interrupt context |
| screen (`console/buffer.*`, `vga/`) | cells, cursor, escape parser | putc, scroll, flushCSI | terminal | margins and clamps |
| paging (`paging/directory.*`, `paging/table.*`) | page tables, reference counts of frames | forkCOW, handleCOW, alloc, freePage, ensure | process tree, page faults | counts against mappings |
| memory areas (`paging/vma.hpp`, `paging/range.hpp`, `syscall/brk.cpp`, `syscall/mmap_pgoff.cpp`, `syscall/munmap.cpp`) | sorted ranges | insert, erase, brk, mmap, munmap | paging | splitting and boundaries |
| allocators (`allocator/`) | free lists, slabs | alloc, free | everything | full and empty slabs |
| file system (`fs/dentry.*`, `fs/mod.cpp`, `fs/fs/`) | name cache, vnodes, mounts | open, resolve, link, unlink, symlink, seek | descriptors | stale cached names |
| intrusive list (`lib/list/`) | node pointers | insert, extract, erase, splice | scheduler, process tree | erase through the wrong list |

Entry code, the ELF loader, segment descriptors, boot, formatting, the trace
logger and the unused locks have no state machine of interest; `PROJECT.json`
gives the reason for each. It also lists the hazards, each at the line where it
bites, with the properties that guard it or the reason there is none yet.

## 2. Modules

| module | models |
|---|---|
| `Tasking` | abstract: what blocking, waking and sleeping promise, without queues |
| `Lists` | erase on the sequence view of the intrusive list, for `Scheduler` |
| `Scheduler` | the scheduler, wait lists and the timer; implements `Tasking` |
| `Process` | the process tree with its child lists and its memory, init and the console deamons |
| `Channel` | abstract: a bounded queue of bytes with two ends that close |
| `Pipe` | one pipe and the descriptors that lead to it; implements `Channel` |
| `MCScheduler`, `MCProcess`, `MCPipe` | the instances for TLC |
| `SequenceFacts` | lemmas about sequences |
| `SchedulerProofs`, `PipeProofs` | the theorems |

The models compose by assume and guarantee. `Process` and `Pipe` do not repeat
the queues. They use the blocking that `Tasking` describes: a task blocks on a
list, a wakeup makes it runnable, a signal may do so instead, and a runnable
task runs later. `Scheduler` is shown to implement `Tasking`, and its property
`ReadyRuns` is what the fairness of the other two stands for, premise included.

Operators called `...Mutant` and `expiresEarly`, `expiresOne`, `expiresSwapped`
are deliberate errors. No specification uses them. Each one put in place of the
definition after it makes TLC report the property it is meant for
(`PROJECT.json`, "mutants").

### Scheduler

The variables are the fields of the same name. `lists` holds `__sleeping` and
the list of every `WaitList`; `request_detach[t]` is the list from which the
function `__request_detach` unlinks `t`. Every call is one action, including the
switch at its end: `yieldFrom` is `yield()`, `switchToTask` goes up to the point
where the next task is back in its own code. `exit()` is two actions, because
it wakes others in between (`WakeAll`, `SendSignal`), with interrupts off. The
running task may make any sequence of calls, which covers every client.
`checkSignal()` and masks are left out: `SendSignal` is the unmasked signal to
a blocked task, the only one that touches the queues.

`enabled` are the tasks whose own code runs with the interrupt flag set,
`starting` the new ones between the `sti` of `taskWrapper()` and the `cli` of
`execEntry()` or `forkEntry()`. `AddTask` gives a spawned task a cleared flag and
a forked one that of its parent, `EnterUser` is the `cli` and the jump to the
program, `Sigreturn` sets the flag. The timer comes only when the flag is set, so
most programs are never preempted.

The clock saturates at `Horizon`, and `Sleep` takes only deadlines before it, so
a saturated clock means "later than every deadline".

### Process

`tcb[b]` is the content of block `b` of the memory for control blocks, `heap` the
blocks that are allocated, `all_tasks` the slots. The child lists are the
pointers of the code: `push_back` and `erase` are `__insert_inclusive()` at the end
and `__extract_inclusive()`, assignment by assignment, because `freeTask()` may
erase a task through a list it is not in. `childTasks(l)` is what a walk meets.
A deleted block keeps its content and pointers to it keep working until
`New` hands the memory out again, which it may do while something still points
there. What nothing points to is blanked to keep the state space small.

System calls are single steps; the loop of a deamon is `SpawnShell`,
`DeamonCheck`, `DeamonWait`, `DeamonClear`, `DeamonResume`. `DeamonCheck` and
`DeamonClear` are the two sides of the preemption point between `delete` and the
clearing of the slot. `Kill` is a signal from a user task or from the keyboard
interrupt (`console/tty.cpp:123`) to whatever is in a slot; an ended task ignores
it. `status` leaves "ok" when the kernel stops: "fault" is a null pointer,
"table full" a full pid table. A wrong pointer that is not null stops nothing,
and the model runs on.

Simplifications: freed memory is used again only for control blocks; a kill of
a group is several kills; a task may exit whenever it is in user mode, which
stands for both the system call and a fatal signal; a full table ends the
behaviour, although a spawn by a user task would go on with a task that has no
pid.

### Pipe

`fdobj` are the `FdObj` objects, each with the mode of its end and the flag
`__close_on_exec`. An object dies when no table refers to it, and `SetTable`
contains what `~FdObj()` does then. `head` and `tail` count modulo `Wrap`
(2^32 in the code). The buffer argument is chosen at the moment it matters, when
the call need not wait any longer. One pipe exists at a time. `Fork` stands for
fork and spawn. After a write to a closed pipe the SIGPIPE makes the task exit
or not.

## 3. Runs

| run | checks | instance |
|---|---|---|
| `scheduler_safety` | `TypeOK`, `QueueInv`, `SleepersSorted`, `WakesAreExact`, `ImplementsTasking` | init, idle, a deamon, two user tasks, one wait list, sleeps of 0 and 1 ticks |
| `scheduler_liveness` | `ReadyRuns`, `SleepersWake` | one user task less, sleeps of 0 to 2 ticks |
| `process_safety` | `TypeOK`, `NoMissedExit`, `TreeKept` | init, a deamon, three pids for users, six blocks, five tasks ever made |
| `process_liveness` | `ParentReaps` | the same with four tasks made |
| `pipe_safety` | `NoLostWakeup`, `OpenHasHolder` | two tasks, two descriptors each, four objects, a buffer of one byte |
| `pipe_data` | `TypeOK`, `ImplementsChannel` | two objects, a buffer of two, counters modulo 4, transfers of up to three |
| `pipe_liveness` | `CallsReturn` | three objects |
| `deamon_missed_exit` | `DeamonSeesExit` is violated | as `process_safety` |
| `init_missed_exit` | `InitSeesExit` is violated | as `process_safety` |
| `orphan_fault` | `NoKernelFault` is violated | as `process_safety` |
| `child_unlisted` | `InOneChildList` is violated | as `process_safety` |

The three runs on the tree belong together. A tree is whole (`TreeExact`) when the
links of the lists agree, every task is in one list and every task is in its
slot. `TreeKept` says that only two kinds of step can damage it: `freeTask()` of
the last adopted task, and a task made in the window of a deamon's `freeTask()`.
`child_unlisted` shows what the first leads to. `NoMissedExit` and `ParentReaps`
go on to hold in a damaged tree: for every task that is in its slot, and as long
as all tasks are in their slots. A child that is in nobody's list is one that
`waitpid(-1)` does not wait for, so `ParentReaps` says nothing about it.

Why the bounds are enough to be interesting:

* Scheduler: two sleepers can have the same, an earlier or a later deadline; a
  list can hold several waiters; one of them can be signalled from the middle.
* Process: three user pids give a shell, its child and a grandchild, hence an
  orphan whose former parent is dead, freed, or replaced by another task. There
  is one block more than pids, so that memory may be used again but need not be.
  `MaxMade` bounds how many tasks are ever made: five are enough for both kinds
  of damage and for a task made after them.
* Pipe: a buffer of one byte makes full and empty alternate at every call. In
  `pipe_data` the counters wrap, the data pass the end of the ring and the
  transfers are longer than the buffer.

`process_*` and `pipe_*` allow a state without successors: the kernel may have
stopped, and all the tasks of the pipe may have exited. The scheduler never
stops, and its runs check that.

### Fairness

* Timer: strong fairness of `Tick`. A tick that comes with interrupts off stays
  latched in the interrupt controller and is taken when they are on again. It says
  nothing of a program that never has them on.
* Kernel code with interrupts off (`ExitSwitch`, init up to its next wait,
  `InitLoop`) has no endless loop of its own: weak fairness.
* A woken task runs: `ReadyRuns` of the scheduler. It is strong fairness in
  `Process`, where init may take the processor in between, and weak fairness in
  `Pipe`.

Programs are not fair, and most run with interrupts off, so liveness needs
something of them. It is a premise of the properties:

* `ReadyRuns` assumes `UserCodeYields`: no program computes for ever with
  interrupts off; at some time it blocks, exits or has them on. Without it a
  single loop in a program keeps the processor for ever.
* `SleepersWake` assumes more, that interrupts are on again and again.
  `UserCodeYields` is too little: while the deamons wait, two programs that block
  and wake each other with interrupts off never let the idle task run, and the
  clock stops.
* `ParentReaps` and `CallsReturn` use `ReadyRuns` as fairness and so hold under
  `UserCodeYields` as well.

### Disagreements with the code's own statements

1. `deamon_missed_exit`. A deamon calls `waitpid()` with interrupts on. If its
   shell ends between the test and `wait()` (`task/mod.cpp:114-120`), the deamon
   waits for a task that has already ended.
2. `init_missed_exit`. `exit()` gives the children to init without changing
   their `parentPid` (`task/scheduler.self.cpp:27`). When such a child ends, it
   notifies the old parent's slot, and init keeps waiting.
3. `orphan_fault`. For the same reason `freeTask()` (`task/scheduler.task.cpp:43`)
   looks up a parent that may not exist, and dereferences a null pointer.
4. `child_unlisted`. If the former parent is still there, dead or replaced,
   `freeTask()` erases the child through that task's list. When the child was the
   last in init's list, init's tail stays on the deleted block
   (`lib/list/container.hpp:139`), and the orphans of the next exit are linked
   behind it, out of reach of every `waitpid(-1)`.

## 4. Proofs

`SchedulerProofs`, for any `SchedulerAssumption` (any set of tasks and wait
lists, any quantum and horizon that fit together):

* `TypeCorrect`: `Spec => []TypeOK`;
* `QueuesExact`: `Spec => []QueueInv`. With `TypeOK` the invariant is inductive; the
  steps that change only the interrupt flags keep it by one lemma.
  The proof has one lemma per action. They rest on a few facts about sequences
  without repetition in `SequenceFacts`: what appending, taking the head,
  inserting and unlinking do to the set of elements.

`PipeProofs`, for any `PipeAssumption` (any tasks, descriptors, objects and
buffer size):

* `WakeupsKept`: `Spec => []NoLostWakeup`;
* `HoldersExist`: `Spec => []OpenHasHolder`.

The inductive invariant `IInv` adds the shape of the tables, that a table refers
only to live objects (`RefsLive`), and that a task that is gone holds nothing
(`GoneEmpty`). The second is needed because closing looks at the mode of the
dying object, the third because fork overwrites the table of the new task.

Only model-checked: the liveness properties (out of the prover's reach), the
refinements `ImplementsTasking` and `ImplementsChannel`, `SleepersSorted`,
`WakesAreExact`, `Pipe`'s `TypeOK`, and all of `Process`.

## 5. Not modelled yet, and the plan

In this order, with the abstract specification or reference each will have:

1. `Signals`: pending set, mask, handlers, sigreturn; a signal that is sent is
   handled, also when it races with a normal wakeup. Composes with `Scheduler`.
2. `Tty` with `Keyboard`: the line discipline against an abstract line queue;
   readers are not left waiting with input there.
3. `IntrusiveList`: the pointer structure implements a sequence, also for the
   insertions in the middle that `Process` does not use.
4. `Cow`: reference counts of frames equal the number of mappings.
5. `VmSpace`: the range manager against a set of pages; brk and mmap on top.
6. `Slab`: free lists and slabs; a chunk is handed out to one owner at a time.
7. `Screen`: cursor and escape parser stay within the screen.
8. `Vfs`: the name cache agrees with the tree.

Then the proofs: `SleepersSorted` and the refinement of `Tasking`,
`TreeKept` of `Process`, the ring of `Pipe` against `Channel`, and the
invariants of `Cow` and `VmSpace`.
