------------------------------ MODULE PipeProofs ------------------------------
(***************************************************************************)
(* No wakeup is lost in a pipe, for any number of tasks, descriptors and   *)
(* objects and any buffer size.                                            *)
(*                                                                         *)
(* The argument: a waiting reader implies an empty pipe and a waiting      *)
(* writer a full one, and each call that moves bytes wakes the whole list  *)
(* of the other side, so a step that changes the ring leaves nobody who    *)
(* waits for the wrong thing.  An end is marked closed when one of its     *)
(* objects dies, so an end that is still marked open has kept them all.    *)
(***************************************************************************)
EXTENDS Pipe, TLAPS

\* The part of TypeOK that does not speak of the ring
Shape ==
    /\ fd_table \in [Task -> [Fd -> Obj \cup {NoObj}]]
    /\ fdobj \in [Obj -> FdObj \cup {Deleted}]
    /\ read_alive \in BOOLEAN /\ write_alive \in BOOLEAN
    /\ pc \in [Task -> {"gone", "user", "read", "write"}]
    /\ wait \in [Task -> {"no", "blocked", "WR_Normal", "WR_Signal"}]
    /\ \A t \in Task : pc[t] \in {"gone", "user"} => wait[t] = "no"

\* No table refers to a deleted object.
RefsLive == \A o \in Held(fd_table) : fdobj[o] \in FdObj

\* The table of a task that does not exist is empty.
GoneEmpty == \A t \in Task : pc[t] = "gone" => \A f \in Fd : fd_table[t][f] = NoObj

IInv == Shape /\ RefsLive /\ GoneEmpty /\ NoLostWakeup /\ OpenHasHolder

-----------------------------------------------------------------------------
\* Held(table) is a set of objects (tables of TaskFileInfo::__fd_table).
LEMMA HeldObj ==
    ASSUME NEW table \in [Task -> [Fd -> Obj \cup {NoObj}]]
    PROVE  /\ Held(table) \subseteq Obj
           /\ \A t \in Task, f \in Fd : table[t][f] # NoObj => table[t][f] \in Held(table)
  BY DEF Held

\* A change of the descriptor tables that leaves the objects in use as they
\* are keeps the invariant: ~FdObj() closes the end and wakes the other side.
LEMMA SetTableKeepsInv ==
    ASSUME IInv,
           NEW table \in [Task -> [Fd -> Obj \cup {NoObj}]],
           NEW objs \in [Obj -> FdObj \cup {Deleted}],
           \A o \in Held(fd_table) : objs[o].mode = fdobj[o].mode,
           \A o \in Held(table) : objs[o] \in FdObj,
           SetTable(table, objs),
           pc' \in [Task -> {"gone", "user", "read", "write"}],
           \A t \in Task : \/ pc'[t] = pc[t]
                           \/ pc[t] = "user" /\ pc'[t] = "gone",
           \A t \in Task : pc'[t] = "gone" => \A f \in Fd : table[t][f] = NoObj,
           UNCHANGED ring
    PROVE  IInv'
<1> DEFINE closed(m) == Closes(table, m)
           calls == (IF closed("O_RDONLY") THEN {"write"} ELSE {})
                       \cup (IF closed("O_WRONLY") THEN {"read"} ELSE {})
<1>1. /\ fd_table' = table
      /\ fdobj' = [o \in Obj |-> IF o \in Held(table) THEN objs[o] ELSE Deleted]
      /\ read_alive' = (read_alive /\ ~closed("O_RDONLY"))
      /\ write_alive' = (write_alive /\ ~closed("O_WRONLY"))
      /\ wait' = [t \in Task |-> IF pc[t] \in calls /\ wait[t] = "blocked"
                                 THEN "WR_Normal" ELSE wait[t]]
  BY DEF SetTable, Wake
<1>2. Shape'
  <2>1. /\ fd_table' \in [Task -> [Fd -> Obj \cup {NoObj}]]
        /\ fdobj' \in [Obj -> FdObj \cup {Deleted}]
    BY <1>1
  <2>2. read_alive' \in BOOLEAN /\ write_alive' \in BOOLEAN
    BY <1>1
  <2>3. /\ wait' \in [Task -> {"no", "blocked", "WR_Normal", "WR_Signal"}]
        /\ \A t \in Task : pc'[t] \in {"gone", "user"} => wait'[t] = "no"
    BY <1>1 DEF IInv, Shape
  <2> QED
    BY <2>1, <2>2, <2>3 DEF IInv, Shape
<1>3. NoLostWakeup'
  <2> SUFFICES ASSUME NEW t \in Task, wait'[t] = "blocked"
               PROVE  \/ pc'[t] = "read" /\ empty /\ write_alive'
                      \/ pc'[t] = "write" /\ full /\ read_alive'
    BY DEF NoLostWakeup, empty, full, size, ring
  <2>1. wait[t] = "blocked" /\ pc[t] \notin calls
    BY <1>1
  <2>2. \/ pc[t] = "read" /\ empty /\ write_alive
        \/ pc[t] = "write" /\ full /\ read_alive
    BY <2>1 DEF IInv, NoLostWakeup
  <2>3. /\ pc[t] = "read" => ~closed("O_WRONLY")
        /\ pc[t] = "write" => ~closed("O_RDONLY")
    BY <2>1
  <2> QED
    BY ZenonT(30), <1>1, <2>2, <2>3
<1>4. OpenHasHolder'
  <2>1. ASSUME NEW m \in {"O_RDONLY", "O_WRONLY"}, Open(m) # {}, ~closed(m)
        PROVE  Open(m)' # {}
    <3>1. PICK o \in Held(fd_table) : fdobj[o].mode = m
      BY <2>1 DEF Open
    <3>2. o \in Held(table) /\ o \in Obj
      BY <2>1, <3>1, HeldObj DEF IInv, Shape, Closes
    <3>3. fdobj'[o].mode = m
      BY <1>1, <3>1, <3>2
    <3>4. Held(fd_table)' = Held(table)
      BY <1>1 DEF Held
    <3> QED
      BY <3>2, <3>3, <3>4 DEF Open
  <2> QED
    BY ZenonT(30), <1>1, <2>1 DEF IInv, OpenHasHolder
<1>5. RefsLive'
  <2>1. Held(fd_table)' = Held(table)
    BY <1>1 DEF Held
  <2>2. Held(table) \subseteq Obj
    BY HeldObj
  <2> QED
    BY <1>1, <2>1, <2>2 DEF RefsLive
<1>6. GoneEmpty'
  BY <1>1 DEF GoneEmpty
<1> QED
  BY <1>2, <1>3, <1>4, <1>5, <1>6 DEF IInv

-----------------------------------------------------------------------------
(* The operations on descriptors.                                          *)

\* What a table holds after one of its slots was changed to o
LEMMA HeldAfter ==
    ASSUME NEW table \in [Task -> [Fd -> Obj \cup {NoObj}]],
           NEW t \in Task, NEW f \in Fd, NEW o \in Obj \cup {NoObj}
    PROVE  /\ [table EXCEPT ![t][f] = o] \in [Task -> [Fd -> Obj \cup {NoObj}]]
           /\ Held([table EXCEPT ![t][f] = o]) \subseteq Held(table) \cup ({o} \ {NoObj})
  BY DEF Held

\* A copy of an object in use has the mode of that object (installFd()).
LEMMA CopyFacts ==
    ASSUME IInv, NEW o \in Obj \ Held(fd_table), NEW old \in Held(fd_table),
           NEW cloexec \in BOOLEAN
    PROVE  /\ Copy(o, old, cloexec) \in [Obj -> FdObj \cup {Deleted}]
           /\ Copy(o, old, cloexec)[o] \in FdObj
           /\ \A p \in Held(fd_table) : Copy(o, old, cloexec)[p] = fdobj[p]
<1>1. Held(fd_table) \subseteq Obj
  BY HeldObj DEF IInv, Shape
<1>2. fdobj[old].mode \in {"O_RDONLY", "O_WRONLY"}
  BY DEF IInv, RefsLive, FdObj
<1>3. [mode |-> fdobj[old].mode, cloexec |-> cloexec] \in FdObj
  BY <1>2 DEF FdObj
<1> QED
  BY <1>1, <1>3 DEF Copy, IInv, Shape

\* pipe() opens both ends (syscall/pipe.cpp:20-24).
LEMMA PipeKeepsInv ==
    ASSUME IInv, NEW t \in Task, Pipe(t) PROVE IInv'
<1>1. PICK r \in Fd, w \in Fd, o \in Obj, p \in Obj :
         /\ FreeSlot(t, 0, r) /\ FreeSlot(t, r + 1, w) /\ o # p
         /\ fd_table' = [fd_table EXCEPT ![t][r] = o, ![t][w] = p]
         /\ fdobj' = [fdobj EXCEPT ![o] = [mode |-> "O_RDONLY", cloexec |-> FALSE],
                                   ![p] = [mode |-> "O_WRONLY", cloexec |-> FALSE]]
  BY ZenonT(30) DEF Pipe
<1>2. r # w /\ NoObj \notin Obj
  BY <1>1, PipeAssumption DEF FreeSlot, Fd
<1>3. /\ Held(fd_table) = {} /\ read_alive' /\ write_alive'
      /\ UNCHANGED <<pc, wait>>
  BY DEF Pipe
<1>4. /\ fdobj'[o] = [mode |-> "O_RDONLY", cloexec |-> FALSE]
      /\ fdobj'[p] = [mode |-> "O_WRONLY", cloexec |-> FALSE]
      /\ fdobj' \in [Obj -> FdObj \cup {Deleted}]
  BY ZenonT(30), <1>1 DEF IInv, Shape, FdObj
<1>5. /\ fd_table' \in [Task -> [Fd -> Obj \cup {NoObj}]]
      /\ fd_table'[t][r] = o /\ fd_table'[t][w] = p
      /\ \A u \in Task, f \in Fd : fd_table'[u][f] \in {o, p, fd_table[u][f]}
  BY <1>1, <1>2 DEF IInv, Shape
<1>6. Held(fd_table)' = {o, p}
  <2>1. \A u \in Task, f \in Fd : fd_table[u][f] = NoObj
    BY <1>3, HeldObj DEF IInv, Shape
  <2>2. \A u \in Task, f \in Fd : fd_table'[u][f] \in {o, p, NoObj}
    BY <1>5, <2>1
  <2>3. o \in Held(fd_table') /\ p \in Held(fd_table')
    BY <1>2, <1>5, HeldObj
  <2>4. Held(fd_table') \subseteq {o, p}
    BY <2>2 DEF Held
  <2>5. Held(fd_table)' = Held(fd_table')
    BY DEF Held
  <2> QED
    BY <2>3, <2>4, <2>5
<1>7. Shape'
  BY <1>3, <1>4, <1>5, Zenon DEF IInv, Shape, Pipe
<1>8. RefsLive' /\ OpenHasHolder'
  <2>1. fdobj'[o].mode = "O_RDONLY" /\ fdobj'[p].mode = "O_WRONLY"
    BY <1>4
  <2>2. fdobj'[o] \in FdObj /\ fdobj'[p] \in FdObj
    BY <1>4 DEF FdObj
  <2> QED
    BY <1>6, <2>1, <2>2 DEF RefsLive, OpenHasHolder, Open
<1>9. \A u \in Task : wait[u] # "blocked"
  <2>1. ~read_alive /\ ~write_alive
    BY <1>3 DEF IInv, OpenHasHolder, Open
  <2> QED
    BY <2>1 DEF IInv, NoLostWakeup
<1>10. GoneEmpty'
  <2>1. pc[t] = "user" /\ \A u \in Task : u # t => fd_table'[u] = fd_table[u]
    BY <1>1 DEF Pipe, InUser, IInv, Shape
  <2> QED
    BY <1>3, <2>1 DEF IInv, GoneEmpty
<1> QED
  BY <1>3, <1>7, <1>8, <1>9, <1>10 DEF IInv, NoLostWakeup

\* dup() adds an object (task/mod.cpp:43).
LEMMA DupKeepsInv ==
    ASSUME IInv, NEW t \in Task, NEW f \in Fd, NEW hint \in Fd,
           NEW cloexec \in BOOLEAN, Dup(t, f, hint, cloexec)
    PROVE  IInv'
<1>1. PICK g \in Fd, o \in Obj \ Held(fd_table) :
         SetTable([fd_table EXCEPT ![t][g] = o], Copy(o, fd_table[t][f], cloexec))
  BY DEF Dup
<1> DEFINE table == [fd_table EXCEPT ![t][g] = o]
           objs == Copy(o, fd_table[t][f], cloexec)
<1>2. fd_table[t][f] \in Held(fd_table)
  BY HeldObj DEF IInv, Shape, Dup
<1>3. /\ objs \in [Obj -> FdObj \cup {Deleted}] /\ objs[o] \in FdObj
      /\ \A p \in Held(fd_table) : objs[p] = fdobj[p]
  BY <1>2, CopyFacts
<1>4. /\ table \in [Task -> [Fd -> Obj \cup {NoObj}]]
      /\ Held(table) \subseteq Held(fd_table) \cup {o}
  BY ZenonT(30), HeldAfter DEF IInv, Shape
<1>5. SetTable(table, objs) /\ UNCHANGED <<ring, pc>>
  BY <1>1 DEF Dup
<1>6. pc[t] = "user"
  BY DEF Dup, InUser
<1> HIDE DEF table, objs
<1>7. /\ \A p \in Held(fd_table) : objs[p].mode = fdobj[p].mode
      /\ \A p \in Held(table) : objs[p] \in FdObj
  BY <1>3, <1>4 DEF IInv, RefsLive
<1>8. /\ pc' = pc /\ pc \in [Task -> {"gone", "user", "read", "write"}]
      /\ \A u \in Task : pc[u] = "gone" => \A h \in Fd : table[u][h] = NoObj
  BY <1>5, <1>6 DEF IInv, Shape, GoneEmpty, table
<1> QED
  BY <1>3, <1>4, <1>5, <1>7, <1>8, SetTableKeepsInv

\* dup2() replaces the object of a descriptor (task/mod.cpp:52).
LEMMA Dup2KeepsInv ==
    ASSUME IInv, NEW t \in Task, NEW f \in Fd, NEW g \in Fd, Dup2(t, f, g)
    PROVE  IInv'
<1>1. PICK o \in Obj \ Held(fd_table) :
         SetTable([fd_table EXCEPT ![t][g] = o], Copy(o, fd_table[t][f], FALSE))
  BY ZenonT(30) DEF Dup2
<1> DEFINE table == [fd_table EXCEPT ![t][g] = o]
           objs == Copy(o, fd_table[t][f], FALSE)
<1>2. fd_table[t][f] \in Held(fd_table)
  BY HeldObj DEF IInv, Shape, Dup2
<1>3. /\ objs \in [Obj -> FdObj \cup {Deleted}] /\ objs[o] \in FdObj
      /\ \A p \in Held(fd_table) : objs[p] = fdobj[p]
  BY ZenonT(30), <1>2, CopyFacts
<1>4. /\ table \in [Task -> [Fd -> Obj \cup {NoObj}]]
      /\ Held(table) \subseteq Held(fd_table) \cup {o}
  BY ZenonT(30), HeldAfter DEF IInv, Shape
<1>5. SetTable(table, objs) /\ UNCHANGED <<ring, pc>>
  BY ZenonT(30), <1>1 DEF Dup2
<1>6. pc[t] = "user"
  BY DEF Dup2, InUser
<1> HIDE DEF table, objs
<1>7. /\ \A p \in Held(fd_table) : objs[p].mode = fdobj[p].mode
      /\ \A p \in Held(table) : objs[p] \in FdObj
  BY <1>3, <1>4 DEF IInv, RefsLive
<1>8. /\ pc' = pc /\ pc \in [Task -> {"gone", "user", "read", "write"}]
      /\ \A u \in Task : pc[u] = "gone" => \A h \in Fd : table[u][h] = NoObj
  BY <1>5, <1>6 DEF IInv, Shape, GoneEmpty, table
<1> QED
  BY <1>3, <1>4, <1>5, <1>7, <1>8, SetTableKeepsInv

\* A table that only lost references keeps the invariant: close(), execve()
\* and the exit of a task.
LEMMA DropKeepsInv ==
    ASSUME IInv, NEW table \in [Task -> [Fd -> Obj \cup {NoObj}]],
           \A u \in Task, f \in Fd : table[u][f] \in {fd_table[u][f], NoObj},
           SetTable(table, fdobj), UNCHANGED ring,
           pc' \in [Task -> {"gone", "user", "read", "write"}],
           \A t \in Task :
              \/ pc'[t] = pc[t]
              \/ /\ pc[t] = "user" /\ pc'[t] = "gone"
                 /\ \A f \in Fd : table[t][f] = NoObj
    PROVE  IInv'
<1>1. Held(table) \subseteq Held(fd_table)
  BY DEF Held
<1>2. /\ fdobj \in [Obj -> FdObj \cup {Deleted}]
      /\ \A o \in Held(table) : fdobj[o] \in FdObj
  BY <1>1 DEF IInv, Shape, RefsLive
<1>3. \A t \in Task : pc'[t] = "gone" => \A f \in Fd : table[t][f] = NoObj
  BY DEF IInv, GoneEmpty
<1> QED
  BY <1>2, <1>3, SetTableKeepsInv

\* close() drops one reference (task/mod.cpp:13).
LEMMA CloseKeepsInv ==
    ASSUME IInv, NEW t \in Task, NEW f \in Fd, Close(t, f) PROVE IInv'
<1> DEFINE table == [fd_table EXCEPT ![t][f] = NoObj]
<1>1. /\ table \in [Task -> [Fd -> Obj \cup {NoObj}]]
      /\ \A u \in Task, g \in Fd : table[u][g] \in {fd_table[u][g], NoObj}
  BY DEF IInv, Shape
<1>2. SetTable(table, fdobj) /\ UNCHANGED <<ring, pc>>
  BY DEF Close
<1>3. pc \in [Task -> {"gone", "user", "read", "write"}]
  BY DEF IInv, Shape
<1> HIDE DEF table
<1> QED
  BY <1>1, <1>2, <1>3, DropKeepsInv

\* execve() drops the close-on-exec descriptors (task/tcb/file.cpp:36).
LEMMA ExecKeepsInv ==
    ASSUME IInv, NEW t \in Task, Exec(t) PROVE IInv'
<1> DEFINE row == [f \in Fd |-> IF /\ fd_table[t][f] # NoObj
                                   /\ fdobj[fd_table[t][f]].cloexec
                                THEN NoObj ELSE fd_table[t][f]]
           table == [fd_table EXCEPT ![t] = row]
<1>1. row \in [Fd -> Obj \cup {NoObj}]
  BY DEF IInv, Shape
<1>2. /\ table \in [Task -> [Fd -> Obj \cup {NoObj}]]
      /\ \A u \in Task, g \in Fd : table[u][g] \in {fd_table[u][g], NoObj}
  BY <1>1 DEF IInv, Shape
<1>3. SetTable(table, fdobj) /\ UNCHANGED <<ring, pc>>
  BY DEF Exec
<1>4. pc \in [Task -> {"gone", "user", "read", "write"}]
  BY DEF IInv, Shape
<1> HIDE DEF table
<1> QED
  BY <1>2, <1>3, <1>4, DropKeepsInv

\* exit() empties the table (scheduler.self.cpp:22).
LEMMA ExitKeepsInv ==
    ASSUME IInv, NEW t \in Task, Exit(t) PROVE IInv'
<1> DEFINE row == [f \in Fd |-> NoObj]
           table == [fd_table EXCEPT ![t] = row]
<1>1. row \in [Fd -> Obj \cup {NoObj}]
  OBVIOUS
<1>2. /\ table \in [Task -> [Fd -> Obj \cup {NoObj}]]
      /\ \A u \in Task, g \in Fd : table[u][g] \in {fd_table[u][g], NoObj}
      /\ \A f \in Fd : table[t][f] = NoObj
  BY <1>1 DEF IInv, Shape
<1>3. SetTable(table, fdobj) /\ UNCHANGED ring
  BY DEF Exit
<1>4. /\ pc' = [pc EXCEPT ![t] = "gone"] /\ pc[t] = "user"
      /\ pc \in [Task -> {"gone", "user", "read", "write"}]
  BY DEF IInv, Shape, Exit, InUser
<1>5. /\ pc' \in [Task -> {"gone", "user", "read", "write"}]
      /\ \A u \in Task : u # t => pc'[u] = pc[u]
      /\ pc'[t] = "gone"
  BY <1>4
<1> HIDE DEF table
<1> QED
  BY <1>2, <1>3, <1>4, <1>5, DropKeepsInv

\* fcntl(F_SETFD) changes a flag of an object (syscall/fcntl64.cpp:17).
LEMMA SetFdKeepsInv ==
    ASSUME IInv, NEW t \in Task, NEW f \in Fd, NEW b \in BOOLEAN, SetFd(t, f, b)
    PROVE  IInv'
<1> DEFINE x == fd_table[t][f]
<1>1. x \in Held(fd_table) /\ x \in Obj /\ fdobj[x] \in FdObj
  BY HeldObj DEF IInv, Shape, SetFd, RefsLive
<1>2. fdobj' = [fdobj EXCEPT ![x] = [fdobj[x] EXCEPT !.cloexec = b]]
  BY DEF SetFd
<1>3. UNCHANGED <<fd_table, ring, ends, pc, wait>>
  BY DEF SetFd
<1> HIDE DEF x
<1>4. /\ [fdobj[x] EXCEPT !.cloexec = b] \in FdObj
      /\ [fdobj[x] EXCEPT !.cloexec = b].mode = fdobj[x].mode
  BY <1>1 DEF FdObj
<1>5. Shape'
  BY <1>1, <1>2, <1>3, <1>4 DEF IInv, Shape, ends
<1>6. Held(fd_table)' = Held(fd_table)
  BY <1>3 DEF Held
<1>7. \A o \in Obj : /\ fdobj'[o].mode = fdobj[o].mode
                     /\ fdobj[o] \in FdObj => fdobj'[o] \in FdObj
  BY <1>1, <1>2, <1>4 DEF IInv, Shape
<1>8. Held(fd_table) \subseteq Obj
  BY HeldObj DEF IInv, Shape
<1>9. RefsLive' /\ GoneEmpty'
  BY <1>3, <1>6, <1>7, <1>8 DEF IInv, RefsLive, GoneEmpty
<1>10. OpenHasHolder'
  BY <1>3, <1>6, <1>7, <1>8 DEF IInv, OpenHasHolder, Open, ends
<1>11. NoLostWakeup'
  BY <1>3 DEF IInv, NoLostWakeup, empty, full, size, ring, ends
<1> QED
  BY <1>5, <1>9, <1>10, <1>11 DEF IInv

\* fork() shares the objects of the parent (task/task.cpp:118).
LEMMA ForkKeepsInv ==
    ASSUME IInv, NEW t \in Task, NEW u \in Task, Fork(t, u) PROVE IInv'
<1>1. /\ fd_table' = [fd_table EXCEPT ![u] = fd_table[t]]
      /\ pc' = [pc EXCEPT ![u] = "user"]
      /\ pc[u] = "gone"
      /\ UNCHANGED <<fdobj, ring, ends, wait>>
  BY DEF Fork
<1>2. wait[u] = "no"
  BY <1>1 DEF IInv, Shape
<1>3. Shape'
  BY <1>1, <1>2 DEF IInv, Shape, ends
<1>4. NoLostWakeup'
  BY <1>1, <1>2 DEF IInv, Shape, NoLostWakeup, empty, full, size, ring, ends
<1>5. Held(fd_table)' = Held(fd_table)
  <2>1. \A f \in Fd : fd_table[u][f] = NoObj
    BY <1>1 DEF IInv, GoneEmpty
  <2>2. /\ \A v \in Task, f \in Fd : fd_table'[v][f] = fd_table[IF v = u THEN t ELSE v][f]
        /\ \A v \in Task, f \in Fd : fd_table[v][f] # NoObj
                                         => fd_table'[v][f] = fd_table[v][f]
    BY <1>1, <2>1 DEF IInv, Shape
  <2> QED
    BY <2>1, <2>2 DEF Held
<1>6. RefsLive' /\ OpenHasHolder'
  BY ZenonT(30), <1>1, <1>5 DEF IInv, RefsLive, OpenHasHolder, Open, ends
<1>7. GoneEmpty'
  BY <1>1 DEF IInv, Shape, GoneEmpty
<1> QED
  BY <1>3, <1>4, <1>6, <1>7 DEF IInv

-----------------------------------------------------------------------------
(* Reading and writing.                                                    *)

\* The tables, objects and ends stay as they are, and task t, which exists,
\* goes on existing: all but the waiting is then as before.
LEMMA CallFrame ==
    ASSUME IInv, NEW t \in Task, pc[t] # "gone",
           UNCHANGED <<fd_table, fdobj, ends>>,
           NEW c \in {"user", "read", "write"}, pc' = [pc EXCEPT ![t] = c],
           wait' \in [Task -> {"no", "blocked", "WR_Normal", "WR_Signal"}],
           \A u \in Task : u # t /\ wait[u] = "no" => wait'[u] = "no",
           c = "user" => wait'[t] = "no",
           NoLostWakeup'
    PROVE  IInv'
<1>1. Shape'
  BY ZenonT(30) DEF IInv, Shape, ends
<1>2. RefsLive' /\ OpenHasHolder'
  BY DEF IInv, RefsLive, OpenHasHolder, Open, Held, ends
<1>3. GoneEmpty'
  BY DEF IInv, Shape, GoneEmpty
<1> QED
  BY <1>1, <1>2, <1>3 DEF IInv

\* A call that waits found nothing to do, and a call that goes on wakes
\* everybody it might concern (pipe.cpp:22-32, 56-80).
LEMMA ReadPassKeepsInv ==
    ASSUME IInv, NEW t \in Task, pc[t] # "gone", ReadPass(t),
           UNCHANGED <<fd_table, fdobj>>
    PROVE  IInv'
<1>1. CASE empty /\ write_alive /\ Blocks(t, "read")
  <2>1. /\ pc' = [pc EXCEPT ![t] = "read"] /\ wait' = [wait EXCEPT ![t] = "blocked"]
        /\ UNCHANGED <<ring, ends>>
    BY <1>1 DEF Blocks
  <2>2. NoLostWakeup'
    BY <1>1, <2>1 DEF IInv, Shape, NoLostWakeup, empty, full, size, ring, ends
  <2> QED
    BY ZenonT(30), <2>1, <2>2, CallFrame DEF IInv, Shape
<1>2. CASE empty /\ ~write_alive /\ Returns(t, "eof", <<>>) /\ Unblocks(t, {})
             /\ UNCHANGED <<ring, ends>>
  <2>1. /\ pc' = [pc EXCEPT ![t] = "user"]
        /\ wait' = [u \in Task |-> IF u = t THEN "no" ELSE wait[u]]
    BY <1>2 DEF Returns, Unblocks, IInv, Shape
  <2>2. NoLostWakeup'
    BY <1>2, <2>1 DEF IInv, Shape, NoLostWakeup, empty, full, size, ring, ends
  <2> QED
    BY ZenonT(30), <1>2, <2>1, <2>2, CallFrame DEF IInv, Shape
<1>3. CASE /\ ~empty
           /\ \E sz \in 0..MaxIO :
                 LET len == Least(size, sz) IN
                 /\ Returns(t, "read", CopyOut(len))
                 /\ tail' = (tail + len) % Wrap
           /\ Unblocks(t, {"write"})
           /\ UNCHANGED <<buffer, head, ends>>
  <2>1. /\ pc' = [pc EXCEPT ![t] = "user"]
        /\ wait' = [u \in Task |-> IF u = t THEN "no"
                                   ELSE IF pc[u] \in {"write"} /\ wait[u] = "blocked"
                                        THEN "WR_Normal" ELSE wait[u]]
    BY <1>3 DEF Returns, Unblocks
  <2>2. \A u \in Task : wait'[u] # "blocked"
    BY <1>3, <2>1 DEF IInv, NoLostWakeup
  <2>3. NoLostWakeup'
    BY <2>2 DEF NoLostWakeup
  <2> QED
    BY ZenonT(30), <1>3, <2>1, <2>3, CallFrame DEF IInv, Shape
<1> QED
  BY <1>1, <1>2, <1>3 DEF ReadPass

\* The same for write() (pipe.cpp:34-44, 82-107).
LEMMA WritePassKeepsInv ==
    ASSUME IInv, NEW t \in Task, pc[t] # "gone", WritePass(t),
           UNCHANGED <<fd_table, fdobj>>
    PROVE  IInv'
<1>1. CASE full /\ read_alive /\ Blocks(t, "write")
  <2>1. /\ pc' = [pc EXCEPT ![t] = "write"] /\ wait' = [wait EXCEPT ![t] = "blocked"]
        /\ UNCHANGED <<ring, ends>>
    BY <1>1 DEF Blocks
  <2>2. NoLostWakeup'
    BY <1>1, <2>1 DEF IInv, Shape, NoLostWakeup, empty, full, size, ring, ends
  <2> QED
    BY ZenonT(30), <2>1, <2>2, CallFrame DEF IInv, Shape
<1>2. CASE ~read_alive /\ Returns(t, "EPIPE", <<>>) /\ Unblocks(t, {})
             /\ UNCHANGED <<ring, ends>>
  <2>1. /\ pc' = [pc EXCEPT ![t] = "user"]
        /\ wait' = [u \in Task |-> IF u = t THEN "no" ELSE wait[u]]
    BY <1>2 DEF Returns, Unblocks, IInv, Shape
  <2>2. NoLostWakeup'
    BY <1>2, <2>1 DEF IInv, Shape, NoLostWakeup, empty, full, size, ring, ends
  <2> QED
    BY ZenonT(30), <1>2, <2>1, <2>2, CallFrame DEF IInv, Shape
<1>3. CASE /\ ~full /\ read_alive
           /\ \E buf \in Buffers :
                 LET len == Room(Len(buf)) IN
                 /\ buffer' = CopyIn(buf, len)
                 /\ head' = (head + len) % Wrap
                 /\ Returns(t, "write", SubSeq(buf, 1, len))
           /\ Unblocks(t, {"read"})
           /\ UNCHANGED <<tail, ends>>
  <2>1. /\ pc' = [pc EXCEPT ![t] = "user"]
        /\ wait' = [u \in Task |-> IF u = t THEN "no"
                                   ELSE IF pc[u] \in {"read"} /\ wait[u] = "blocked"
                                        THEN "WR_Normal" ELSE wait[u]]
    BY <1>3 DEF Returns, Unblocks
  <2>2. \A u \in Task : wait'[u] # "blocked"
    BY <1>3, <2>1 DEF IInv, NoLostWakeup
  <2>3. NoLostWakeup'
    BY <2>2 DEF NoLostWakeup
  <2> QED
    BY ZenonT(30), <1>3, <2>1, <2>3, CallFrame DEF IInv, Shape
<1> QED
  BY <1>1, <1>2, <1>3 DEF WritePass

\* A woken task that returns with EINTR waits for nothing any more.
LEMMA ResumeKeepsInv ==
    ASSUME IInv, NEW t \in Task, Resume(t) PROVE IInv'
<1>1. UNCHANGED <<fd_table, fdobj>>
  BY DEF Resume
<1>2. CASE wait[t] = "WR_Normal" /\ pc[t] = "read" /\ ReadPass(t)
  BY <1>1, <1>2, ReadPassKeepsInv
<1>3. CASE wait[t] = "WR_Normal" /\ pc[t] = "write" /\ WritePass(t)
  BY <1>1, <1>3, WritePassKeepsInv
<1>4. CASE /\ wait[t] = "WR_Signal"
           /\ pc' = [pc EXCEPT ![t] = "user"]
           /\ wait' = [wait EXCEPT ![t] = "no"]
           /\ UNCHANGED <<ring, ends>>
  <2>1. NoLostWakeup'
    BY <1>4 DEF IInv, Shape, NoLostWakeup, empty, full, size, ring, ends
  <2>2. pc[t] # "gone"
    BY <1>4 DEF IInv, Shape
  <2> QED
    BY ZenonT(30), <1>1, <1>4, <2>1, <2>2, CallFrame DEF IInv, Shape
<1> QED
  BY <1>2, <1>3, <1>4 DEF Resume

\* A signal takes the task off its wait list (scheduler.other.cpp:57).
LEMMA SendSignalKeepsInv ==
    ASSUME IInv, NEW t \in Task, SendSignal(t) PROVE IInv'
<1>1. /\ wait[t] = "blocked" /\ wait' = [wait EXCEPT ![t] = "WR_Signal"]
      /\ UNCHANGED <<fd_table, fdobj, ring, ends, pc>>
  BY DEF SendSignal
<1>2. NoLostWakeup'
  BY <1>1 DEF IInv, Shape, NoLostWakeup, empty, full, size, ring, ends
<1>3. Shape'
  BY <1>1 DEF IInv, Shape, ends
<1>4. RefsLive' /\ OpenHasHolder' /\ GoneEmpty'
  BY <1>1 DEF IInv, RefsLive, OpenHasHolder, Open, Held, GoneEmpty, ends
<1> QED
  BY <1>2, <1>3, <1>4 DEF IInv

-----------------------------------------------------------------------------
\* Every step keeps the invariant.
LEMMA NextKeepsInv == IInv /\ [Next]_vars => IInv'
<1> SUFFICES ASSUME IInv, [Next]_vars PROVE IInv'
  OBVIOUS
<1>1. CASE UNCHANGED vars
  BY <1>1 DEF IInv, Shape, RefsLive, GoneEmpty, NoLostWakeup, OpenHasHolder, Open,
              Held, empty, full, size, vars, ring, ends
<1>2. ASSUME NEW t \in Task, Read(t) PROVE IInv'
  BY <1>2, ReadPassKeepsInv DEF Read, InUser
<1>3. ASSUME NEW t \in Task, Write(t) PROVE IInv'
  BY <1>3, WritePassKeepsInv DEF Write, InUser
<1> QED
  BY <1>1, <1>2, <1>3, PipeKeepsInv, ExecKeepsInv, ExitKeepsInv, ResumeKeepsInv,
     SendSignalKeepsInv, ForkKeepsInv, CloseKeepsInv, SetFdKeepsInv, Dup2KeepsInv,
     DupKeepsInv DEF Next

\* It holds before there is a pipe.
LEMMA InitInv == Init => IInv
<1> SUFFICES ASSUME Init PROVE IInv
  OBVIOUS
<1>1. Shape
  BY ZenonT(30) DEF Init, Shape
<1>2. Held(fd_table) = {}
  BY DEF Init, Held
<1> QED
  BY <1>1, <1>2 DEF Init, IInv, RefsLive, GoneEmpty, NoLostWakeup, OpenHasHolder

\* Nobody sleeps through what he waits for: a reader that waits has an empty
\* pipe with an open write end before him, a writer a full one with an open
\* read end, for any number of tasks and any buffer size (fs/pipe.cpp:22-107).
THEOREM WakeupsKept == Spec => []NoLostWakeup
<1>1. IInv => NoLostWakeup
  BY DEF IInv
<1> QED
  BY <1>1, InitInv, NextKeepsInv, PTL DEF Spec

\* An end that is marked open has a descriptor in some task, so that its
\* closing, and the wakeup that comes with it, is still to come (fs/fd.cpp:8).
THEOREM HoldersExist == Spec => []OpenHasHolder
<1>1. IInv => OpenHasHolder
  BY DEF IInv
<1> QED
  BY <1>1, InitInv, NextKeepsInv, PTL DEF Spec
=============================================================================
