--------------------------------- MODULE Pipe ---------------------------------
(***************************************************************************)
(* One pipe and the descriptors that lead to it: the ring buffer and wait  *)
(* lists of fs/pipe.cpp, the reference-counted FdObj objects of fs/fd.cpp  *)
(* and the descriptor tables of the tasks.                                 *)
(*                                                                         *)
(* A table holds references to FdObj objects.  fork() and spawn() share    *)
(* the objects of the parent, dup() makes a new object for the same end of *)
(* the pipe, and the death of an object marks its end as closed.           *)
(*                                                                         *)
(* A system call runs with interrupts off, so it is one step up to the     *)
(* point where it blocks.  Blocking is the one of Tasking; both wait lists *)
(* are only ever woken as a whole, so the order in them does not matter.   *)
(***************************************************************************)
EXTENDS Naturals, Sequences

CONSTANTS
    Task,          \* tasks
    First,         \* the task that exists at the start
    MaxFd,         \* descriptors are 0..MaxFd-1: __max_fd
    Obj,           \* bound: FdObj objects of this pipe
    NoObj,         \* an empty reference
    Size,          \* __pipe_buffer_size
    Wrap,          \* size_t counts modulo this: 2^32
    Byte,          \* what a byte may be
    MaxIO          \* bound: the longest buffer given to read() or write()

ASSUME PipeAssumption ==
    /\ First \in Task
    /\ MaxFd \in Nat /\ MaxIO \in Nat /\ NoObj \notin Obj
    /\ Size \in Nat \ {0} /\ Wrap \in Nat /\ Wrap > Size /\ Wrap % Size = 0

VARIABLES
    fd_table,      \* TaskFileInfo::__fd_table of every task
    fdobj,         \* the FdObj objects: the mode of the PipeObj, __close_on_exec
    buffer,        \* PipeState::__buffer
    head,          \* PipeState::__head
    tail,          \* PipeState::__tail
    read_alive,    \* PipeState::__read_alive
    write_alive,   \* PipeState::__write_alive
    pc,            \* "gone", "user", or the call the task is in
    wait,          \* "no", "blocked", or the reason it was woken for
    ret            \* what the last step returned to the caller, if it did

ends == <<read_alive, write_alive>>
ring == <<buffer, head, tail>>
vars == <<fd_table, fdobj, ring, ends, pc, wait, ret>>

Fd == 0..MaxFd - 1
Index == 0..Size - 1
FdObj == [mode : {"O_RDONLY", "O_WRONLY"}, cloexec : BOOLEAN]
Deleted == [mode |-> "deleted", cloexec |-> FALSE]
Nothing == [call |-> "none", data |-> <<>>]

\* size(), empty(), full(): unsigned arithmetic
size == (head + Wrap - tail) % Wrap
empty == head = tail
full == size = Size

Held(table) == {table[t][f] : t \in Task, f \in Fd} \ {NoObj}

TypeOK ==
    /\ fd_table \in [Task -> [Fd -> Obj \cup {NoObj}]]
    /\ fdobj \in [Obj -> FdObj \cup {Deleted}]
    /\ buffer \in [Index -> Byte]
    /\ head \in 0..Wrap - 1 /\ tail \in 0..Wrap - 1 /\ size <= Size
    /\ read_alive \in BOOLEAN /\ write_alive \in BOOLEAN
    /\ pc \in [Task -> {"gone", "user", "read", "write"}]
    /\ wait \in [Task -> {"no", "blocked", "WR_Normal", "WR_Signal"}]
    /\ \A t \in Task : pc[t] \in {"gone", "user"} => wait[t] = "no"

\* No pipe yet: both ends count as closed.
Init ==
    /\ fd_table = [t \in Task |-> [f \in Fd |-> NoObj]]
    /\ fdobj = [o \in Obj |-> Deleted]
    /\ buffer \in [Index -> Byte]
    /\ head = 0 /\ tail = 0
    /\ read_alive = FALSE /\ write_alive = FALSE
    /\ pc = [t \in Task |-> IF t = First THEN "user" ELSE "gone"]
    /\ wait = [t \in Task |-> "no"]
    /\ ret = Nothing

-----------------------------------------------------------------------------
(* Descriptors.                                                            *)

\* findFileSlot(fd, hint)
FreeSlot(t, hint, f) ==
    /\ f >= hint /\ fd_table[t][f] = NoObj
    /\ \A g \in Fd : g >= hint /\ g < f => fd_table[t][g] # NoObj

\* wakeAll() of the lists of the given calls.  (Mutant: nobody is woken.)
WakeMutant(calls) == UNCHANGED wait
Wake(calls) ==
    wait' = [t \in Task |-> IF pc[t] \in calls /\ wait[t] = "blocked"
                            THEN "WR_Normal" ELSE wait[t]]

\* An object of mode m dies when the tables become table, and onFdClose() marks
\* the end as closed.  (Mutant: onFdClose() handles one mode only.)
ClosesMutant(table, m) ==
    /\ m = "O_RDONLY"
    /\ \E o \in Held(fd_table) \ Held(table) : fdobj[o].mode = m
Closes(table, m) == \E o \in Held(fd_table) \ Held(table) : fdobj[o].mode = m

\* The tables become table and the objects objs.  An object that no table
\* refers to any more is deleted: ~FdObj() calls onFdClose(), which marks its
\* end as closed and wakes the other side.  (A task in read() or write() also
\* has the object in its table.)
SetTable(table, objs) ==
    /\ fd_table' = table
    /\ fdobj' = [o \in Obj |-> IF o \in Held(table) THEN objs[o] ELSE Deleted]
    /\ read_alive' = (read_alive /\ ~Closes(table, "O_RDONLY"))
    /\ write_alive' = (write_alive /\ ~Closes(table, "O_WRONLY"))
    /\ Wake((IF Closes(table, "O_RDONLY") THEN {"write"} ELSE {})
               \cup (IF Closes(table, "O_WRONLY") THEN {"read"} ELSE {}))

InUser(t) == pc[t] = "user"

\* The pipe() system call; the model has one pipe at a time.
Pipe(t) ==
    /\ InUser(t) /\ Held(fd_table) = {}
    /\ \E r, w \in Fd, o, p \in Obj :
          /\ FreeSlot(t, 0, r) /\ FreeSlot(t, r + 1, w) /\ o # p
          /\ fd_table' = [fd_table EXCEPT ![t][r] = o, ![t][w] = p]
          /\ fdobj' = [fdobj EXCEPT ![o] = [mode |-> "O_RDONLY", cloexec |-> FALSE],
                                    ![p] = [mode |-> "O_WRONLY", cloexec |-> FALSE]]
    /\ buffer' \in [Index -> Byte]
    /\ head' = 0 /\ tail' = 0
    /\ read_alive' = TRUE /\ write_alive' = TRUE
    /\ ret' = Nothing
    /\ UNCHANGED <<pc, wait>>

\* A new FdObj o for the file of the object old
Copy(o, old, cloexec) ==
    [fdobj EXCEPT ![o] = [mode |-> fdobj[old].mode, cloexec |-> cloexec]]

\* dup() and fcntl(F_DUPFD, F_DUPFD_CLOEXEC): installFd()
Dup(t, f, hint, cloexec) ==
    /\ InUser(t) /\ fd_table[t][f] # NoObj
    /\ \E g \in Fd, o \in Obj \ Held(fd_table) :
          /\ FreeSlot(t, hint, g)
          /\ SetTable([fd_table EXCEPT ![t][g] = o], Copy(o, fd_table[t][f], cloexec))
    /\ ret' = Nothing
    /\ UNCHANGED <<ring, pc>>

\* dup2(): installFdTo() replaces what the descriptor g refers to
Dup2(t, f, g) ==
    /\ InUser(t) /\ fd_table[t][f] # NoObj /\ f # g
    /\ \E o \in Obj \ Held(fd_table) :
          SetTable([fd_table EXCEPT ![t][g] = o], Copy(o, fd_table[t][f], FALSE))
    /\ ret' = Nothing
    /\ UNCHANGED <<ring, pc>>

\* fcntl(F_SETFD): the flag is in the object, not in the table
SetFd(t, f, cloexec) ==
    /\ InUser(t) /\ fd_table[t][f] # NoObj
    /\ fdobj' = [fdobj EXCEPT ![fd_table[t][f]].cloexec = cloexec]
    /\ ret' = Nothing
    /\ UNCHANGED <<fd_table, ring, ends, pc, wait>>

\* close(): closeFd()
Close(t, f) ==
    /\ InUser(t) /\ fd_table[t][f] # NoObj
    /\ SetTable([fd_table EXCEPT ![t][f] = NoObj], fdobj)
    /\ ret' = Nothing
    /\ UNCHANGED <<ring, pc>>

\* execve(): prepareForExec()
Exec(t) ==
    /\ InUser(t)
    /\ SetTable([fd_table EXCEPT ![t] =
          [f \in Fd |-> IF @[f] # NoObj /\ fdobj[@[f]].cloexec THEN NoObj ELSE @[f]]],
          fdobj)
    /\ ret' = Nothing
    /\ UNCHANGED <<ring, pc>>

\* fork() and spawn(): the new task u gets a copy of the table.
Fork(t, u) ==
    /\ InUser(t) /\ pc[u] = "gone"
    /\ fd_table' = [fd_table EXCEPT ![u] = fd_table[t]]
    /\ pc' = [pc EXCEPT ![u] = "user"]
    /\ ret' = Nothing
    /\ UNCHANGED <<fdobj, ring, ends, wait>>

\* Scheduler::exit() empties the table.
Exit(t) ==
    /\ InUser(t)
    /\ SetTable([fd_table EXCEPT ![t] = [f \in Fd |-> NoObj]], fdobj)
    /\ pc' = [pc EXCEPT ![t] = "gone"]
    /\ ret' = Nothing
    /\ UNCHANGED ring

-----------------------------------------------------------------------------
(* Reading and writing.  The buffer and its size matter only once the call *)
(* need not wait any more, and are chosen then.                            *)

Least(m, n) == IF m < n THEN m ELSE n
Buffers == UNION {[1..n -> Byte] : n \in 0..MaxIO}

\* memcpy of n bytes that start at index i of the ring
Piece(i, n) == [k \in 1..n |-> buffer[i + k - 1]]

\* The bytes read() copies out, in two pieces if they pass the end of the ring.
\* (Mutant: the two pieces change places.)
CopyOutMutant(len) ==
    LET left == tail % Size IN
    IF left + len > Size THEN Piece(0, len - (Size - left)) \o Piece(left, Size - left)
                         ELSE Piece(left, len)
CopyOut(len) ==
    LET left == tail % Size IN
    IF left + len > Size THEN Piece(left, Size - left) \o Piece(0, len - (Size - left))
                         ELSE Piece(left, len)

\* How many of n bytes write() takes.  (Mutant: all of them.)
RoomMutant(n) == n
Room(n) == Least(Size - size, n)

\* The ring after write() has copied the first len bytes of buf into it
CopyIn(buf, len) ==
    LET left == head % Size
        firstLen == IF left + len > Size THEN Size - left ELSE len
    IN  [i \in Index |->
            IF i >= left /\ i < left + firstLen THEN buf[i - left + 1]
            ELSE IF i < len - firstLen THEN buf[firstLen + i + 1]
            ELSE buffer[i]]

Returns(t, call, data) ==
    /\ pc' = [pc EXCEPT ![t] = "user"]
    /\ ret' = [call |-> call, data |-> data]

Blocks(t, call) ==
    /\ pc' = [pc EXCEPT ![t] = call]
    /\ wait' = [wait EXCEPT ![t] = "blocked"]
    /\ ret' = Nothing
    /\ UNCHANGED <<ring, ends>>

\* Back in its own code, t is in no list; the tasks of the other call are woken.
Unblocks(t, calls) ==
    wait' = [u \in Task |-> IF u = t THEN "no"
                            ELSE IF pc[u] \in calls /\ wait[u] = "blocked"
                                 THEN "WR_Normal" ELSE wait[u]]

\* PipeState::read() from the test in syncWaitForRead() on
ReadPass(t) ==
    \/ /\ empty /\ write_alive
       /\ Blocks(t, "read")
    \/ /\ empty /\ ~write_alive
       /\ Returns(t, "eof", <<>>)
       /\ Unblocks(t, {})
       /\ UNCHANGED <<ring, ends>>
    \/ /\ ~empty
       /\ \E sz \in 0..MaxIO :
             LET len == Least(size, sz) IN
             /\ Returns(t, "read", CopyOut(len))
             /\ tail' = (tail + len) % Wrap
       /\ Unblocks(t, {"write"})
       /\ UNCHANGED <<buffer, head, ends>>

\* PipeState::write() from the test in syncWaitForWrite() on; the SIGPIPE it
\* raises makes the task exit or not
WritePass(t) ==
    \/ /\ full /\ read_alive
       /\ Blocks(t, "write")
    \/ /\ ~read_alive
       /\ Returns(t, "EPIPE", <<>>)
       /\ Unblocks(t, {})
       /\ UNCHANGED <<ring, ends>>
    \/ /\ ~full /\ read_alive
       /\ \E buf \in Buffers :
             LET len == Room(Len(buf)) IN
             /\ buffer' = CopyIn(buf, len)
             /\ head' = (head + len) % Wrap
             /\ Returns(t, "write", SubSeq(buf, 1, len))
       /\ Unblocks(t, {"read"})
       /\ UNCHANGED <<tail, ends>>

\* FdObj::read() and FdObj::write() test the mode.
Uses(t, m) == \E f \in Fd : fd_table[t][f] # NoObj /\ fdobj[fd_table[t][f]].mode = m

Read(t) ==
    /\ InUser(t) /\ Uses(t, "O_RDONLY")
    /\ ReadPass(t)
    /\ UNCHANGED <<fd_table, fdobj>>

Write(t) ==
    /\ InUser(t) /\ Uses(t, "O_WRONLY")
    /\ WritePass(t)
    /\ UNCHANGED <<fd_table, fdobj>>

\* A woken task runs again: EINTR after a signal, otherwise it tests again.
Resume(t) ==
    /\ \/ /\ wait[t] = "WR_Normal"
          /\ \/ pc[t] = "read" /\ ReadPass(t)
             \/ pc[t] = "write" /\ WritePass(t)
       \/ /\ wait[t] = "WR_Signal"
          /\ pc' = [pc EXCEPT ![t] = "user"]
          /\ wait' = [wait EXCEPT ![t] = "no"]
          /\ ret' = Nothing
          /\ UNCHANGED <<ring, ends>>
    /\ UNCHANGED <<fd_table, fdobj>>

\* sendSignal() by anybody, to a task that waits
SendSignal(t) ==
    /\ wait[t] = "blocked"
    /\ wait' = [wait EXCEPT ![t] = "WR_Signal"]
    /\ ret' = Nothing
    /\ UNCHANGED <<fd_table, fdobj, ring, ends, pc>>

-----------------------------------------------------------------------------
Next ==
    \E t \in Task :
        \/ Pipe(t) \/ Exec(t) \/ Exit(t) \/ Read(t) \/ Write(t) \/ Resume(t)
        \/ SendSignal(t)
        \/ \E u \in Task : Fork(t, u)
        \/ \E f \in Fd : Close(t, f)
        \/ \E f \in Fd, b \in BOOLEAN : SetFd(t, f, b)
        \/ \E f, g \in Fd : Dup2(t, f, g)
        \/ \E f, hint \in Fd, b \in BOOLEAN : Dup(t, f, hint, b)

Spec == Init /\ [][Next]_vars

\* A woken task gets the processor: ReadyRuns of the scheduler, and so it rests on
\* the premise UserCodeYields there, that no program computes for ever with
\* interrupts off.
FairSpec == Spec /\ \A t \in Task : WF_vars(Resume(t))

-----------------------------------------------------------------------------
(* Properties.                                                             *)

\* The objects that refer to the end m of the pipe
Open(m) == {o \in Held(fd_table) : fdobj[o].mode = m}

\* No task sleeps through what it waits for: a task blocked in read() finds the
\* pipe empty and the write end open, a task blocked in write() finds it full
\* and the read end open, whatever the others did since it blocked
\* (pipe.cpp:25, pipe.cpp:37, the wakeAll calls at :48, :53, :78 and :105).
NoLostWakeup ==
    \A t \in Task : wait[t] = "blocked" =>
        \/ pc[t] = "read" /\ empty /\ write_alive
        \/ pc[t] = "write" /\ full /\ read_alive

\* An end that is marked open is open in some table, so that a wait for the
\* other side can end: every way a descriptor dies, close, dup2, exec and
\* exit, reaches onFdClose() (fd.cpp:8, pipe.cpp:131).
OpenHasHolder ==
    /\ read_alive => Open("O_RDONLY") # {}
    /\ write_alive => Open("O_WRONLY") # {}

\* Once the last descriptor of the other end is gone, a blocked call returns, if
\* woken tasks get to run (pipe.cpp:48, pipe.cpp:53).
CallsReturn ==
    \A t \in Task :
        /\ (pc[t] = "read" /\ Open("O_WRONLY") = {}) ~> pc[t] # "read"
        /\ (pc[t] = "write" /\ Open("O_RDONLY") = {}) ~> pc[t] # "write"

-----------------------------------------------------------------------------
\* The ring with its wrapping counters is a queue: what read() copies out are
\* the oldest bytes that write() copied in, in order and each of them once.
Chan == INSTANCE Channel WITH
    Capacity <- Size,
    queue <- [i \in 1..size |-> buffer[(tail + i - 1) % Size]],
    readable <- read_alive,
    writable <- write_alive

\* Reads, writes and closes of the pipe are those of a Channel, also when the
\* counters wrap and when the data pass the end of the buffer (pipe.cpp:66-77
\* and :93-104).
ImplementsChannel == Chan!Spec
=============================================================================
