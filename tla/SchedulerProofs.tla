--------------------------- MODULE SchedulerProofs ---------------------------
(***************************************************************************)
(* QueueInv, with TypeOK, is inductive: it is preserved by every operation *)
(* of the scheduler for every number of tasks and lists.                   *)
(***************************************************************************)
EXTENDS Scheduler, SequenceFacts

\* The run queue q is exact for the states st.
QueueOf(st, q) ==
    /\ q \in Seq(Task)
    /\ IsInjective(q)
    /\ ToSet(q) = {t \in Task \ {IdleTask} : st[t] = "S_Ready"}

\* A state in which yield() may be called.
YieldPre(st, q, wr) ==
    /\ st \in [Task -> State]
    /\ wr \in [Task -> WakeReason]
    /\ QueueOf(st, q)
    /\ \A t \in Task : st[t] = "S_Running" => t = current
    /\ st[current] \in {"S_Running", "S_Blocked", "S_Exited"}
    /\ st[IdleTask] \in {"S_Ready", "S_Running"}

\* What a switch leaves true.
Switched(st) ==
    /\ current' \in Task
    /\ state' \in [Task -> State]
    /\ wakeReason' \in [Task -> WakeReason]
    /\ QueueOf(state', pending')
    /\ RunningIsCurrent'
    /\ state'[IdleTask] \in {"S_Ready", "S_Running"}
    /\ \A t \in Task :
          IF st[t] \in {"S_Ready", "S_Running"}
          THEN state'[t] \in {"S_Ready", "S_Running"} ELSE state'[t] = st[t]

\* yield() takes the head of the run queue and appends the task it preempts.
LEMMA YieldSwitches ==
    ASSUME SchedulerAssumption, TypeOK,
           NEW st, NEW q, NEW wr, YieldPre(st, q, wr), yieldFrom(st, q, wr)
    PROVE  Switched(st)
<1>0. /\ IdleTask \in Task /\ current \in Task
      /\ st \in [Task -> State] /\ wr \in [Task -> WakeReason]
      /\ q \in Seq(Task) /\ IsInjective(q)
      /\ ToSet(q) = {t \in Task \ {IdleTask} : st[t] = "S_Ready"}
      /\ \A t \in Task : st[t] = "S_Running" => t = current
      /\ st[current] \in {"S_Running", "S_Blocked", "S_Exited"}
      /\ st[IdleTask] \in {"S_Ready", "S_Running"}
  BY DEF SchedulerAssumption, TypeOK, YieldPre, QueueOf
<1>1. ASSUME q # <<>>
      PROVE  /\ Head(q) \in Task /\ Head(q) \in ToSet(q) /\ Tail(q) \in Seq(Task)
             /\ IsInjective(Tail(q)) /\ ToSet(Tail(q)) = ToSet(q) \ {Head(q)}
  BY <1>0, <1>1, TailFacts
<1>2. CASE q # <<>> /\ st[current] = "S_Running"
  <2> DEFINE h == Head(q)
             r == Tail(q)
  <2>1. /\ current' = h /\ wakeReason' = [wr EXCEPT ![h] = "WR_Normal"]
        /\ state' = [[st EXCEPT ![current] = "S_Ready"] EXCEPT ![h] = "S_Running"]
        /\ pending' = IF current = IdleTask THEN r ELSE Append(r, current)
    BY <1>2 DEF yieldFrom, switchToTask, requeued
  <2>2. /\ h \in Task /\ h \in ToSet(q) /\ r \in Seq(Task)
        /\ IsInjective(r) /\ ToSet(r) = ToSet(q) \ {h}
    BY <1>1, <1>2
  <2> HIDE DEF h, r
  <2>3. h # current /\ current \notin ToSet(r) /\ h # IdleTask
    BY <1>0, <1>2, <2>2
  <2>4. QueueOf(state', pending')
    <3>1. CASE current = IdleTask
      <4>1. {t \in Task \ {IdleTask} : state'[t] = "S_Ready"} = ToSet(r)
        BY <1>0, <2>1, <2>2, <2>3, <3>1 DEF State
      <4> QED
        BY ZenonT(30), <2>1, <2>2, <3>1, <4>1 DEF QueueOf
    <3>2. CASE current # IdleTask
      <4>1. /\ Append(r, current) \in Seq(Task) /\ IsInjective(Append(r, current))
            /\ ToSet(Append(r, current)) = ToSet(r) \cup {current}
        BY <1>0, <2>2, <2>3, AppendFacts
      <4>2. {t \in Task \ {IdleTask} : state'[t] = "S_Ready"} = ToSet(r) \cup {current}
        BY <1>0, <2>1, <2>2, <2>3, <3>2 DEF State
      <4> QED
        BY ZenonT(30), <2>1, <3>2, <4>1, <4>2 DEF QueueOf
    <3> QED
      BY <3>1, <3>2
  <2> QED
    BY SMTT(30), <1>0, <1>2, <2>1, <2>2, <2>3, <2>4
    DEF Switched, RunningIsCurrent, State, WakeReason
<1>3. CASE q # <<>> /\ st[current] # "S_Running"
  <2>1. /\ current' = Head(q) /\ state' = [st EXCEPT ![Head(q)] = "S_Running"]
        /\ wakeReason' = [wr EXCEPT ![Head(q)] = "WR_Normal"]
        /\ pending' = Tail(q)
    BY <1>3 DEF yieldFrom, switchToTask
  <2>2. QueueOf(state', pending')
    BY <1>0, <1>1, <1>3, <2>1 DEF QueueOf
  <2> QED
    BY <1>0, <1>1, <1>3, <2>1, <2>2 DEF Switched, RunningIsCurrent, State, WakeReason
<1>4. CASE q = <<>> /\ st[current] # "S_Running"
  <2>1. /\ current' = IdleTask /\ state' = [st EXCEPT ![IdleTask] = "S_Running"]
        /\ wakeReason' = [wr EXCEPT ![IdleTask] = "WR_Normal"]
        /\ pending' = q
    BY <1>4 DEF yieldFrom, switchToTask
  <2>2. QueueOf(state', pending')
    BY <1>0, <2>1 DEF QueueOf
  <2> QED
    BY <1>0, <1>4, <2>1, <2>2 DEF Switched, RunningIsCurrent, State, WakeReason
<1>5. CASE q = <<>> /\ st[current] = "S_Running"
  BY <1>0, <1>5 DEF yieldFrom, Switched, RunningIsCurrent, QueueOf
<1> QED
  BY <1>2, <1>3, <1>4, <1>5

-----------------------------------------------------------------------------
(* The lists.                                                              *)

\* The lists ls and detach functions dt are exact for the states st.
ListsOf(st, dt, ls) ==
    /\ dt \in [Task -> List \cup {NoDetach}]
    /\ ls \in [List -> Seq(Task)]
    /\ \A l \in List :
          /\ IsInjective(ls[l])
          /\ ToSet(ls[l]) = {t \in Task : st[t] = "S_Blocked" /\ dt[t] = l}
    /\ \A t \in Task : dt[t] # NoDetach => st[t] = "S_Blocked"
    /\ \A t \in Task : st[t] = "S_Blocked" /\ dt[t] = NoDetach => t = InitTask

Inv == TypeOK /\ QueueInv

RestOK ==
    /\ sleepTime \in [Task -> Nat] /\ msSinceBoot \in 0..Horizon
    /\ enabled \subseteq Task /\ starting \subseteq Task

\* The parts of the invariant, in the form the steps below use.
LEMMA InvFacts ==
    ASSUME SchedulerAssumption, Inv
    PROVE  /\ InitTask \in Task /\ IdleTask \in Task /\ current \in Task
           /\ state \in [Task -> State] /\ wakeReason \in [Task -> WakeReason]
           /\ QueueOf(state, pending)
           /\ ListsOf(state, request_detach, lists)
           /\ \A t \in Task : state[t] = "S_Running" => t = current
           /\ state[current] \in {"S_Running", "S_Exited"}
           /\ state[IdleTask] \in {"S_Ready", "S_Running"}
           /\ RestOK
  BY DEF SchedulerAssumption, Inv, TypeOK, QueueInv, RunningIsCurrent,
         PendingIsReady, WaitersAreBlocked, OnlyInitBlocksBare, QueueOf, ListsOf,
         RestOK, flags

\* A switch that starts from exact lists ends in the invariant.
LEMMA SwitchKeepsInv ==
    ASSUME NEW st, st \in [Task -> State], Switched(st),
           ListsOf(st, request_detach', lists'), RestOK'
    PROVE  Inv'
<1>1. \A t \in Task : state'[t] = "S_Blocked" <=> st[t] = "S_Blocked"
  BY DEF Switched
<1>2. ListsOf(state', request_detach', lists')
  <2>1. ASSUME NEW l \in List
        PROVE  {t \in Task : st[t] = "S_Blocked" /\ request_detach'[t] = l}
                 = {t \in Task : state'[t] = "S_Blocked" /\ request_detach'[t] = l}
    BY <1>1
  <2> QED
    BY <1>1, <2>1 DEF ListsOf
<1> QED
  BY <1>2 DEF Inv, TypeOK, QueueInv, RunningIsCurrent, PendingIsReady,
              WaitersAreBlocked, OnlyInitBlocksBare, QueueOf, ListsOf, RestOK,
              Switched

\* A step that changes no list and blocks or unblocks nobody keeps them exact.
LEMMA SameBlocked ==
    ASSUME NEW st, NEW dt, NEW ls, ListsOf(st, dt, ls),
           NEW st2, \A t \in Task : st2[t] = "S_Blocked" <=> st[t] = "S_Blocked"
    PROVE  ListsOf(st2, dt, ls)
<1>1. ASSUME NEW l \in List
      PROVE  {t \in Task : st[t] = "S_Blocked" /\ dt[t] = l}
               = {t \in Task : st2[t] = "S_Blocked" /\ dt[t] = l}
  OBVIOUS
<1> QED
  BY <1>1 DEF ListsOf

\* block(): the running task leaves the processor.
LEMMA BlockSwitches ==
    ASSUME SchedulerAssumption, Inv, Calls, block
    PROVE  /\ [state EXCEPT ![current] = "S_Blocked"] \in [Task -> State]
           /\ Switched([state EXCEPT ![current] = "S_Blocked"])
<1> DEFINE st == [state EXCEPT ![current] = "S_Blocked"]
           wr == [wakeReason EXCEPT ![current] = "WR_Normal"]
<1>0. current # IdleTask /\ state[current] = "S_Running"
  BY DEF Calls
<1>1. st \in [Task -> State] /\ wr \in [Task -> WakeReason]
  BY InvFacts DEF State, WakeReason
<1>2. {t \in Task \ {IdleTask} : st[t] = "S_Ready"}
         = {t \in Task \ {IdleTask} : state[t] = "S_Ready"}
  BY <1>0, InvFacts
<1>3. YieldPre(st, pending, wr)
  <2>1. QueueOf(st, pending)
    BY <1>2, InvFacts DEF QueueOf
  <2>2. /\ \A t \in Task : st[t] = "S_Running" => t = current
        /\ st[current] \in {"S_Running", "S_Blocked", "S_Exited"}
        /\ st[IdleTask] \in {"S_Ready", "S_Running"}
    BY <1>0, InvFacts
  <2> QED
    BY <1>1, <2>1, <2>2 DEF YieldPre
<1>4. yieldFrom(st, pending, wr)
  BY DEF block
<1> HIDE DEF st, wr
<1>5. Switched(st)
  BY <1>3, <1>4, YieldSwitches DEF Inv
<1> QED
  BY <1>1, <1>5 DEF st

\* wait() and sleep(): the running task is linked into a list it was not in.
LEMMA BlockOnList ==
    ASSUME SchedulerAssumption, Inv, Calls, block, RestOK', NEW l \in List,
           lists' \in [List -> Seq(Task)], IsInjective(lists'[l]),
           ToSet(lists'[l]) = ToSet(lists[l]) \cup {current},
           \A m \in List \ {l} : lists'[m] = lists[m],
           request_detach' = [request_detach EXCEPT ![current] = l]
    PROVE  Inv'
<1> DEFINE st == [state EXCEPT ![current] = "S_Blocked"]
<1>1. st \in [Task -> State] /\ Switched(st)
  BY BlockSwitches
<1>2. /\ state[current] = "S_Running" /\ request_detach[current] = NoDetach
      /\ NoDetach \notin List
  BY InvFacts DEF Calls, ListsOf, SchedulerAssumption, List
<1>3. request_detach' \in [Task -> List \cup {NoDetach}]
  BY InvFacts DEF ListsOf
<1>4. ASSUME NEW m \in List
      PROVE  /\ IsInjective(lists'[m])
             /\ ToSet(lists'[m])
                  = {t \in Task : st[t] = "S_Blocked" /\ request_detach'[t] = m}
  <2>1. ToSet(lists[m])
          = {t \in Task : state[t] = "S_Blocked" /\ request_detach[t] = m}
    BY InvFacts DEF ListsOf
  <2>2. CASE m = l
    BY <1>2, <2>1, <2>2, InvFacts DEF ListsOf
  <2>3. CASE m # l
    BY <1>2, <2>1, <2>3, InvFacts DEF ListsOf
  <2> QED
    BY <2>2, <2>3
<1>5. ListsOf(st, request_detach', lists')
  BY <1>2, <1>3, <1>4, InvFacts DEF ListsOf
<1> HIDE DEF st
<1> QED
  BY ZenonT(30), <1>1, <1>5, SwitchKeepsInv

-----------------------------------------------------------------------------
(* Waking.                                                                 *)

\* ts is a sequence of blocked tasks, and lists' the lists without them.
Unlinked(ts) ==
    /\ ts \in Seq(Task)
    /\ IsInjective(ts)
    /\ \A t \in ToSet(ts) : t \in Task /\ state[t] = "S_Blocked"
    /\ lists' \in [List -> Seq(Task)]
    /\ \A l \in List : /\ IsInjective(lists'[l])
                       /\ ToSet(lists'[l]) = ToSet(lists[l]) \ ToSet(ts)

\* wake() moves tasks from the lists to the run queue and loses none.
LEMMA WokenFacts ==
    ASSUME SchedulerAssumption, Inv, NEW ts, NEW reason \in WakeReason,
           Unlinked(ts), request_detach' = wokenDetach(ts)
    PROVE  /\ wokenState(ts) \in [Task -> State]
           /\ wokenReason(ts, reason) \in [Task -> WakeReason]
           /\ QueueOf(wokenState(ts), pending \o ts)
           /\ ListsOf(wokenState(ts), request_detach', lists')
           /\ wokenState(ts)[current] = state[current]
           /\ wokenState(ts)[IdleTask] = state[IdleTask]
           /\ \A t \in Task : wokenState(ts)[t] = "S_Running" => t = current
<1> DEFINE st == wokenState(ts)
<1>1. st \in [Task -> State] /\ wokenReason(ts, reason) \in [Task -> WakeReason]
  BY InvFacts DEF wokenState, wokenReason, State
<1>2. \A t \in Task : st[t] = IF t \in ToSet(ts) THEN "S_Ready" ELSE state[t]
  BY DEF wokenState
<1>3. /\ st[current] = state[current] /\ st[IdleTask] = state[IdleTask]
      /\ \A t \in Task : st[t] = "S_Running" => t = current
  BY <1>2, InvFacts DEF Unlinked
<1>4. QueueOf(st, pending \o ts)
  <2>1. ToSet(pending) \cap ToSet(ts) = {}
    BY InvFacts DEF Unlinked, QueueOf
  <2>2. /\ pending \o ts \in Seq(Task) /\ IsInjective(pending \o ts)
        /\ ToSet(pending \o ts) = ToSet(pending) \cup ToSet(ts)
    BY <2>1, InvFacts, ConcatFacts DEF Unlinked, QueueOf
  <2>3. {t \in Task \ {IdleTask} : st[t] = "S_Ready"} = ToSet(pending) \cup ToSet(ts)
    BY <1>2, InvFacts DEF Unlinked, QueueOf
  <2> QED
    BY <2>2, <2>3 DEF QueueOf
<1>5. ListsOf(st, request_detach', lists')
  <2>1. /\ request_detach' \in [Task -> List \cup {NoDetach}]
        /\ \A t \in Task : request_detach'[t] =
              IF t \in ToSet(ts) THEN NoDetach ELSE request_detach[t]
    BY InvFacts DEF wokenDetach, ListsOf
  <2>2. NoDetach \notin List
    BY DEF SchedulerAssumption, List
  <2>3. ASSUME NEW l \in List
        PROVE  ToSet(lists'[l])
                 = {t \in Task : st[t] = "S_Blocked" /\ request_detach'[t] = l}
    BY <1>2, <2>1, <2>2, InvFacts DEF Unlinked, ListsOf
  <2> QED
    BY <1>2, <2>1, <2>3, InvFacts DEF Unlinked, ListsOf
<1> QED
  BY <1>1, <1>3, <1>4, <1>5

\* The wake operations that do not switch.
LEMMA WakesKeepInv ==
    ASSUME SchedulerAssumption, Inv, NEW ts, NEW reason \in WakeReason,
           Unlinked(ts), Wakes(ts, reason)
    PROVE  Inv'
<1>1. /\ state' = wokenState(ts) /\ wakeReason' = wokenReason(ts, reason)
      /\ request_detach' = wokenDetach(ts) /\ pending' = pending \o ts
      /\ current' = current /\ RestOK'
  BY InvFacts DEF Wakes, RestOK, flags
<1>2. Switched(wokenState(ts))
  BY <1>1, WokenFacts, InvFacts DEF Switched, RunningIsCurrent
<1> QED
  BY <1>1, <1>2, WokenFacts, SwitchKeepsInv

\* List::erase removes the node of a task that is in the list.
LEMMA UnlinkFacts ==
    ASSUME NEW s \in Seq(Task), IsInjective(s), NEW t \in ToSet(s)
    PROVE  /\ Unlink(s, t) \in Seq(Task)
           /\ IsInjective(Unlink(s, t))
           /\ ToSet(Unlink(s, t)) = ToSet(s) \ {t}
<1> DEFINE p == CHOOSE i \in DOMAIN s : s[i] = t
<1>1. \E i \in DOMAIN s : s[i] = t
  BY DEF ToSet
<1>2. p \in DOMAIN s /\ s[p] = t
  BY <1>1
<1> HIDE DEF p
<1>3. /\ RemoveAt(s, p) \in Seq(Task) /\ IsInjective(RemoveAt(s, p))
      /\ ToSet(RemoveAt(s, p)) = ToSet(s) \ {s[p]}
  BY <1>2, RemoveFacts
<1> QED
  BY <1>2, <1>3 DEF Unlink, p

\* One task as a sequence.
LEMMA SingletonFacts ==
    ASSUME NEW t \in Task
    PROVE  <<t>> \in Seq(Task) /\ IsInjective(<<t>>) /\ ToSet(<<t>>) = {t}
  BY DEF IsInjective, ToSet

\* WaitList::wakeOne() moves the first waiter to the run queue (wait.cpp:17).
LEMMA WakeOneKeepsInv ==
    ASSUME SchedulerAssumption, Inv, NEW w \in WaitList, WakeOne(w)
    PROVE  Inv'
<1> DEFINE t == Head(lists[w])
<1>0. w \in List
  BY DEF List
<1>1. /\ lists[w] # <<>> /\ Wakes(<<t>>, "WR_Normal")
      /\ lists' = [lists EXCEPT ![w] = Tail(lists[w])]
  BY DEF WakeOne
<1>2. lists \in [List -> Seq(Task)] /\ IsInjective(lists[w])
  BY <1>0, InvFacts DEF ListsOf
<1>3. /\ t \in Task /\ t \in ToSet(lists[w]) /\ Tail(lists[w]) \in Seq(Task)
      /\ IsInjective(Tail(lists[w])) /\ ToSet(Tail(lists[w])) = ToSet(lists[w]) \ {t}
  BY <1>0, <1>1, <1>2, TailFacts
<1> HIDE DEF t
<1>4. state[t] = "S_Blocked" /\ request_detach[t] = w
  BY <1>0, <1>3, InvFacts DEF ListsOf
<1>5. Unlinked(<<t>>)
  <2>1. <<t>> \in Seq(Task) /\ IsInjective(<<t>>) /\ ToSet(<<t>>) = {t}
    BY <1>3, SingletonFacts
  <2>2. lists' \in [List -> Seq(Task)]
    BY <1>0, <1>1, <1>2, <1>3
  <2>3. ASSUME NEW l \in List
        PROVE  IsInjective(lists'[l]) /\ ToSet(lists'[l]) = ToSet(lists[l]) \ {t}
    <3>1. CASE l = w
      BY <1>0, <1>1, <1>2, <1>3, <3>1
    <3>2. CASE l # w
      <4>1. lists'[l] = lists[l] /\ IsInjective(lists[l]) /\ t \notin ToSet(lists[l])
        BY <1>1, <1>4, <3>2, InvFacts DEF ListsOf
      <4> QED
        BY <4>1
    <3> QED
      BY <3>1, <3>2
  <2> QED
    BY <1>3, <1>4, <2>1, <2>2, <2>3 DEF Unlinked
<1> QED
  BY <1>1, <1>5, WakesKeepInv DEF WakeReason

\* WaitList::wakeAll() moves all the waiters to the run queue (wait.cpp:29).
LEMMA WakeAllKeepsInv ==
    ASSUME SchedulerAssumption, Inv, NEW w \in WaitList, WakeAll(w)
    PROVE  Inv'
<1>0. w \in List
  BY DEF List
<1>1. Wakes(lists[w], "WR_Normal") /\ lists' = [lists EXCEPT ![w] = <<>>]
  BY DEF WakeAll
<1>2. Unlinked(lists[w])
  <2>1. /\ lists[w] \in Seq(Task) /\ IsInjective(lists[w])
        /\ lists' \in [List -> Seq(Task)]
    BY <1>0, <1>1, InvFacts DEF ListsOf
  <2>2. \A t \in ToSet(lists[w]) : t \in Task /\ state[t] = "S_Blocked"
    BY <1>0, InvFacts DEF ListsOf
  <2>3. ASSUME NEW l \in List
        PROVE  /\ IsInjective(lists'[l])
               /\ ToSet(lists'[l]) = ToSet(lists[l]) \ ToSet(lists[w])
    <3>1. CASE l = w
      <4>1. lists'[l] = <<>>
        BY <1>1, <3>1, InvFacts DEF ListsOf
      <4>2. IsInjective(<<>>) /\ ToSet(<<>>) = {}
        BY DEF IsInjective, ToSet
      <4> QED
        BY <3>1, <4>1, <4>2
    <3>2. CASE l # w
      <4>1. lists'[l] = lists[l] /\ IsInjective(lists[l])
        BY <1>1, <3>2, InvFacts DEF ListsOf
      <4>2. ToSet(lists[l]) \cap ToSet(lists[w]) = {}
        <5>1. \A m \in List : ToSet(lists[m])
                = {t \in Task : state[t] = "S_Blocked" /\ request_detach[t] = m}
          BY InvFacts DEF ListsOf
        <5> QED
          BY <1>0, <3>2, <5>1
      <4> QED
        BY <4>1, <4>2
    <3> QED
      BY <3>1, <3>2
  <2> QED
    BY <2>1, <2>2, <2>3 DEF Unlinked
<1> QED
  BY <1>1, <1>2, WakesKeepInv DEF WakeReason

\* A signal takes a blocked task off its list (scheduler.other.cpp:44).
LEMMA SendSignalKeepsInv ==
    ASSUME SchedulerAssumption, Inv, NEW t \in Task, SendSignal(t)
    PROVE  Inv'
<1> DEFINE d == request_detach[t]
<1>1. /\ state[t] = "S_Blocked" /\ Wakes(<<t>>, "WR_Signal")
      /\ lists' = IF d = NoDetach THEN lists
                  ELSE [lists EXCEPT ![d] = Unlink(lists[d], t)]
  BY DEF SendSignal, detached
<1>2. <<t>> \in Seq(Task) /\ IsInjective(<<t>>) /\ ToSet(<<t>>) = {t}
  BY SingletonFacts
<1>3. /\ lists \in [List -> Seq(Task)] /\ d \in List \cup {NoDetach}
      /\ NoDetach \notin List
  BY InvFacts DEF ListsOf, SchedulerAssumption, List
<1>4. \A l \in List : IsInjective(lists[l]) /\ (t \in ToSet(lists[l]) <=> d = l)
  BY <1>1, InvFacts DEF ListsOf
<1> HIDE DEF d
<1>5. CASE d = NoDetach
  <2>1. Unlinked(<<t>>)
    BY <1>1, <1>2, <1>3, <1>4, <1>5 DEF Unlinked
  <2> QED
    BY <1>1, <2>1, WakesKeepInv DEF WakeReason
<1>6. CASE d # NoDetach
  <2>0. /\ d \in List /\ lists[d] \in Seq(Task) /\ IsInjective(lists[d])
        /\ t \in ToSet(lists[d])
    BY <1>3, <1>4, <1>6
  <2>1. /\ Unlink(lists[d], t) \in Seq(Task) /\ IsInjective(Unlink(lists[d], t))
        /\ ToSet(Unlink(lists[d], t)) = ToSet(lists[d]) \ {t}
    BY <2>0, UnlinkFacts
  <2>2. lists' = [lists EXCEPT ![d] = Unlink(lists[d], t)]
    BY <1>1, <1>6
  <2>3. lists' \in [List -> Seq(Task)]
    BY ZenonT(30), <1>3, <2>1, <2>2
  <2>4. ASSUME NEW l \in List
        PROVE  IsInjective(lists'[l]) /\ ToSet(lists'[l]) = ToSet(lists[l]) \ {t}
    <3>1. CASE l = d
      BY <1>3, <2>0, <2>1, <2>2, <3>1
    <3>2. CASE l # d
      BY <1>3, <1>4, <2>2, <3>2
    <3> QED
      BY <3>1, <3>2
  <2>5. Unlinked(<<t>>)
    BY ZenonT(30), <1>1, <1>2, <2>3, <2>4 DEF Unlinked
  <2> QED
    BY <1>1, <2>5, WakesKeepInv DEF WakeReason
<1> QED
  BY <1>5, <1>6

-----------------------------------------------------------------------------
(* The other operations.                                                   *)

\* The idle task yields without being queued (pid.cpp:16).
LEMMA IdleYieldKeepsInv ==
    ASSUME SchedulerAssumption, Inv, IdleYield
    PROVE  Inv'
<1>1. YieldPre(state, pending, wakeReason)
  BY InvFacts DEF YieldPre
<1>2. Switched(state)
  BY <1>1, YieldSwitches DEF IdleYield, Inv
<1>3. ListsOf(state, request_detach', lists') /\ RestOK'
  BY InvFacts DEF IdleYield, RestOK, flags
<1> QED
  BY <1>2, <1>3, InvFacts, SwitchKeepsInv

\* WaitList::wait() links the running task into one list (wait.cpp:10).
LEMMA WaitKeepsInv ==
    ASSUME SchedulerAssumption, Inv, NEW w \in WaitList, Wait(w)
    PROVE  Inv'
<1>0. w \in List /\ Calls /\ block
  BY DEF List, Wait
<1>1. /\ lists' = [lists EXCEPT ![w] = Append(lists[w], current)]
      /\ request_detach' = [request_detach EXCEPT ![current] = w]
      /\ RestOK'
  BY InvFacts DEF Wait, RestOK, flags
<1>2. /\ lists \in [List -> Seq(Task)] /\ lists[w] \in Seq(Task)
      /\ IsInjective(lists[w]) /\ current \in Task
      /\ current \notin ToSet(lists[w])
  BY <1>0, InvFacts DEF ListsOf, Calls
<1>3. /\ Append(lists[w], current) \in Seq(Task)
      /\ IsInjective(Append(lists[w], current))
      /\ ToSet(Append(lists[w], current)) = ToSet(lists[w]) \cup {current}
  BY <1>2, AppendFacts
<1> DEFINE s == Append(lists[w], current)
<1> HIDE DEF s
<1>4. lists' = [lists EXCEPT ![w] = s] /\ s \in Seq(Task)
      /\ IsInjective(s) /\ ToSet(s) = ToSet(lists[w]) \cup {current}
  BY <1>1, <1>3 DEF s
<1>5. /\ lists' \in [List -> Seq(Task)] /\ lists'[w] = s
      /\ \A m \in List \ {w} : lists'[m] = lists[m]
  BY <1>0, <1>2, <1>4
<1> QED
  BY ZenonT(30), <1>0, <1>1, <1>4, <1>5, BlockOnList

\* sleep() links the running task into the sleep list (scheduler.self.cpp:90).
LEMMA SleepKeepsInv ==
    ASSUME SchedulerAssumption, Inv, NEW ms \in Durations, Sleep(ms)
    PROVE  Inv'
<1>0. Sleeping \in List /\ Calls /\ block
  BY DEF List, Sleep
<1>1. PICK p \in 1..Len(lists[Sleeping]) + 1 :
         lists' = [lists EXCEPT ![Sleeping] = InsertAt(lists[Sleeping], p, current)]
  BY ZenonT(30) DEF Sleep
<1>2. /\ request_detach' = [request_detach EXCEPT ![current] = Sleeping]
      /\ RestOK'
  <2>1. msSinceBoot \in Nat /\ ms \in Nat /\ sleepTime \in [Task -> Nat]
    BY InvFacts DEF SchedulerAssumption, RestOK, flags
  <2> QED
    BY <2>1, InvFacts DEF Sleep, wakeTime, RestOK, flags
<1>3. /\ lists \in [List -> Seq(Task)] /\ lists[Sleeping] \in Seq(Task)
      /\ IsInjective(lists[Sleeping]) /\ current \in Task
      /\ current \notin ToSet(lists[Sleeping])
  BY <1>0, InvFacts DEF ListsOf, Calls
<1> DEFINE s == InsertAt(lists[Sleeping], p, current)
<1>4. s \in Seq(Task) /\ IsInjective(s) /\ ToSet(s) = ToSet(lists[Sleeping]) \cup {current}
  BY <1>3, InsertFacts
<1> HIDE DEF s
<1>5. lists' = [lists EXCEPT ![Sleeping] = s]
  BY <1>1 DEF s
<1>6. /\ lists' \in [List -> Seq(Task)] /\ lists'[Sleeping] = s
      /\ \A m \in List \ {Sleeping} : lists'[m] = lists[m]
  BY <1>0, <1>3, <1>4, <1>5
<1> QED
  BY ZenonT(30), <1>0, <1>2, <1>4, <1>6, BlockOnList

\* init blocks on no list (main.cpp:70-75).
LEMMA InitBlockKeepsInv ==
    ASSUME SchedulerAssumption, Inv, InitBlock
    PROVE  Inv'
<1> DEFINE st == [state EXCEPT ![current] = "S_Blocked"]
<1>1. current = InitTask /\ state[current] = "S_Running" /\ block
  BY DEF InitBlock, Calls
<1>2. Calls
  BY DEF InitBlock
<1>3. st \in [Task -> State] /\ Switched(st)
  BY <1>1, <1>2, BlockSwitches
<1>4. request_detach[InitTask] = NoDetach /\ NoDetach \notin List
  BY <1>1, InvFacts DEF ListsOf, SchedulerAssumption, List
<1>5. ASSUME NEW l \in List
      PROVE  {t \in Task : state[t] = "S_Blocked" /\ request_detach[t] = l}
               = {t \in Task : st[t] = "S_Blocked" /\ request_detach[t] = l}
  BY <1>1, <1>4, InvFacts
<1>6. ListsOf(st, request_detach, lists)
  BY <1>1, <1>5, InvFacts DEF ListsOf
<1>7. ListsOf(st, request_detach', lists') /\ RestOK'
  BY <1>6, InvFacts DEF InitBlock, RestOK, flags
<1> HIDE DEF st
<1> QED
  BY <1>3, <1>7, SwitchKeepsInv

\* addTask(), freeTask() and the first part of exit() move one task between
\* states that no list is about.
LEMMA StateChangeKeepsInv ==
    ASSUME SchedulerAssumption, Inv, NEW t \in Task, NEW a \in State,
           state[t] # "S_Blocked", a \notin {"S_Blocked", "S_Running"},
           state' = [state EXCEPT ![t] = a],
           t = current => a = "S_Exited", t # IdleTask,
           current' = current, QueueOf(state', pending'),
           UNCHANGED <<lists, request_detach>>,
           wakeReason' \in [Task -> WakeReason], RestOK'
    PROVE  Inv'
<1>1. /\ state' \in [Task -> State]
      /\ \A u \in Task : state'[u] = IF u = t THEN a ELSE state[u]
  BY InvFacts
<1>2. \A u \in Task : state'[u] = "S_Blocked" <=> state[u] = "S_Blocked"
  BY <1>1
<1>3. ListsOf(state', request_detach, lists)
  BY ZenonT(30), <1>2, InvFacts, SameBlocked
<1>4. ListsOf(state', request_detach', lists')
  BY <1>3
<1>5. Switched(state')
  BY <1>1, InvFacts DEF Switched, RunningIsCurrent
<1> QED
  BY ZenonT(30), <1>1, <1>4, <1>5, SwitchKeepsInv

\* addTask() queues a task that was in no list (scheduler.task.cpp:16).
LEMMA AddTaskKeepsInv ==
    ASSUME SchedulerAssumption, Inv, NEW t \in Task, AddTask(t)
    PROVE  Inv'
<1>1. /\ state[t] = "Free" /\ state' = [state EXCEPT ![t] = "S_Ready"]
      /\ pending' = Append(pending, t) /\ current' = current
      /\ UNCHANGED <<lists, request_detach, wakeReason>> /\ RestOK'
  BY InvFacts DEF AddTask, RestOK
<1>2. t # current /\ t # IdleTask /\ t \notin ToSet(pending)
  BY <1>1, InvFacts DEF QueueOf
<1>3. /\ Append(pending, t) \in Seq(Task) /\ IsInjective(Append(pending, t))
      /\ ToSet(Append(pending, t)) = ToSet(pending) \cup {t}
  BY <1>2, InvFacts, AppendFacts DEF QueueOf
<1>4. {u \in Task \ {IdleTask} : state'[u] = "S_Ready"}
        = {u \in Task \ {IdleTask} : state[u] = "S_Ready"} \cup {t}
  BY <1>1, <1>2, InvFacts
<1>5. QueueOf(state', pending')
  BY <1>1, <1>3, <1>4, InvFacts DEF QueueOf
<1> QED
  BY ZenonT(30), <1>1, <1>2, <1>5, InvFacts, StateChangeKeepsInv DEF State

\* freeTask() deletes a task that is in no list (scheduler.task.cpp:26).
LEMMA FreeTaskKeepsInv ==
    ASSUME SchedulerAssumption, Inv, NEW t \in Task, FreeTask(t)
    PROVE  Inv'
<1>1. /\ state[t] = "S_Exited" /\ state' = [state EXCEPT ![t] = "Free"]
      /\ state[current] = "S_Running" /\ pending' = pending /\ current' = current
      /\ UNCHANGED <<lists, request_detach>>
  BY DEF FreeTask, Calls
<1>5. wakeReason' \in [Task -> WakeReason] /\ RestOK'
  BY InvFacts DEF FreeTask, WakeReason, RestOK
<1>2. t # current /\ t # IdleTask
  BY <1>1, InvFacts
<1>3. {u \in Task \ {IdleTask} : state'[u] = "S_Ready"}
        = {u \in Task \ {IdleTask} : state[u] = "S_Ready"}
  BY <1>1, InvFacts
<1>4. QueueOf(state', pending')
  BY <1>1, <1>3, InvFacts DEF QueueOf
<1> QED
  BY ZenonT(30), <1>1, <1>2, <1>4, <1>5, StateChangeKeepsInv DEF State

\* exit() marks the running task, which is in no list (scheduler.self.cpp:24).
LEMMA ExitBeginKeepsInv ==
    ASSUME SchedulerAssumption, Inv, ExitBegin
    PROVE  Inv'
<1>1. /\ state[current] = "S_Running" /\ current # IdleTask
      /\ state' = [state EXCEPT ![current] = "S_Exited"]
      /\ pending' = pending /\ current' = current
      /\ UNCHANGED <<lists, request_detach, wakeReason>> /\ RestOK'
  BY InvFacts DEF ExitBegin, Calls, RestOK, flags
<1>2. {u \in Task \ {IdleTask} : state'[u] = "S_Ready"}
        = {u \in Task \ {IdleTask} : state[u] = "S_Ready"}
  BY <1>1, InvFacts
<1>3. QueueOf(state', pending')
  BY <1>1, <1>2, InvFacts DEF QueueOf
<1> QED
  BY ZenonT(30), <1>1, <1>3, InvFacts, StateChangeKeepsInv DEF State

\* exit() ends like a yield() of a task that is not running any more.
LEMMA ExitSwitchKeepsInv ==
    ASSUME SchedulerAssumption, Inv, ExitSwitch
    PROVE  Inv'
<1>1. YieldPre(state, pending, wakeReason)
  BY InvFacts DEF YieldPre
<1>2. yieldFrom(state, pending, wakeReason)
  BY DEF ExitSwitch, yieldFrom
<1>3. Switched(state)
  BY <1>1, <1>2, YieldSwitches DEF Inv
<1>4. ListsOf(state, request_detach', lists') /\ RestOK'
  BY InvFacts DEF ExitSwitch, RestOK, flags
<1> QED
  BY <1>3, <1>4, InvFacts, SwitchKeepsInv

\* execEntry(), forkEntry() and sigreturn() change interrupt flags only.
LEMMA FlagsKeepInv ==
    ASSUME SchedulerAssumption, Inv, EnterUser \/ Sigreturn
    PROVE  Inv'
<1>1. /\ UNCHANGED <<state, current, pending, lists, request_detach, wakeReason,
                     sleepTime, msSinceBoot>>
      /\ enabled' \subseteq Task /\ starting' \subseteq Task
  BY InvFacts DEF EnterUser, Sigreturn, RestOK
<1> QED
  BY <1>1 DEF Inv, TypeOK, QueueInv, RunningIsCurrent, PendingIsReady,
              WaitersAreBlocked, OnlyInitBlocksBare

\* The timer takes a prefix of the sleep list.
LEMMA TickKeepsInv ==
    ASSUME SchedulerAssumption, Inv, Tick
    PROVE  Inv'
<1> DEFINE s == lists[Sleeping]
<1>1. PICK n \in 0..Len(s) :
        /\ lists' = [lists EXCEPT ![Sleeping] = SubSeq(s, n + 1, Len(s))]
        /\ request_detach' = wokenDetach(SubSeq(s, 1, n))
        /\ \/ yieldFrom(wokenState(SubSeq(s, 1, n)), pending \o SubSeq(s, 1, n),
                        wokenReason(SubSeq(s, 1, n), "WR_Normal"))
           \/ /\ state' = wokenState(SubSeq(s, 1, n))
              /\ wakeReason' = wokenReason(SubSeq(s, 1, n), "WR_Normal")
              /\ pending' = pending \o SubSeq(s, 1, n)
              /\ current' = current
  BY ZenonT(30) DEF Tick
<1> DEFINE ts == SubSeq(s, 1, n)
           rest == SubSeq(s, n + 1, Len(s))
<1>2. /\ Sleeping \in List /\ lists \in [List -> Seq(Task)]
      /\ s \in Seq(Task) /\ IsInjective(s)
      /\ \A l \in List : ToSet(lists[l])
            = {t \in Task : state[t] = "S_Blocked" /\ request_detach[t] = l}
      /\ \A l \in List : IsInjective(lists[l])
  BY InvFacts DEF ListsOf, List
<1>3. /\ ts \in Seq(Task) /\ IsInjective(ts) /\ ToSet(ts) \subseteq ToSet(s)
      /\ rest \in Seq(Task) /\ IsInjective(rest) /\ ToSet(rest) = ToSet(s) \ ToSet(ts)
  BY <1>2, SplitFacts
<1>4. /\ lists' = [lists EXCEPT ![Sleeping] = rest]
      /\ request_detach' = wokenDetach(ts)
      /\ \/ yieldFrom(wokenState(ts), pending \o ts, wokenReason(ts, "WR_Normal"))
         \/ /\ state' = wokenState(ts) /\ wakeReason' = wokenReason(ts, "WR_Normal")
            /\ pending' = pending \o ts /\ current' = current
  BY <1>1
<1> HIDE DEF ts, rest
<1>5. Unlinked(ts)
  <2>1. lists' \in [List -> Seq(Task)]
    BY <1>2, <1>3, <1>4
  <2>2. ASSUME NEW l \in List
        PROVE  IsInjective(lists'[l]) /\ ToSet(lists'[l]) = ToSet(lists[l]) \ ToSet(ts)
    <3>1. CASE l = Sleeping
      BY SMTT(30), <1>2, <1>3, <1>4, <3>1
    <3>2. CASE l # Sleeping
      <4>1. lists'[l] = lists[l]
        BY <1>2, <1>4, <3>2
      <4>2. ToSet(lists[l]) \cap ToSet(s) = {}
        BY <1>2, <3>2
      <4> QED
        BY <1>2, <1>3, <4>1, <4>2
    <3> QED
      BY <3>1, <3>2
  <2>3. \A t \in ToSet(ts) : t \in Task /\ state[t] = "S_Blocked"
    BY <1>2, <1>3
  <2> QED
    BY SMTT(30), <1>3, <2>1, <2>2, <2>3 DEF Unlinked
<1>6. /\ wokenState(ts) \in [Task -> State]
      /\ wokenReason(ts, "WR_Normal") \in [Task -> WakeReason]
      /\ QueueOf(wokenState(ts), pending \o ts)
      /\ ListsOf(wokenState(ts), request_detach', lists')
      /\ wokenState(ts)[current] = state[current]
      /\ wokenState(ts)[IdleTask] = state[IdleTask]
      /\ \A t \in Task : wokenState(ts)[t] = "S_Running" => t = current
  BY ZenonT(30), <1>4, <1>5, WokenFacts DEF WakeReason
<1>7. RestOK'
  <2>1. /\ sleepTime' = sleepTime /\ enabled' = enabled /\ starting' = starting
        /\ msSinceBoot' = IF msSinceBoot < Horizon THEN msSinceBoot + 1 ELSE Horizon
    BY DEF Tick, flags
  <2>2. /\ sleepTime \in [Task -> Nat] /\ msSinceBoot \in 0..Horizon
        /\ Horizon \in Nat /\ enabled \subseteq Task /\ starting \subseteq Task
    BY InvFacts DEF RestOK, flags, SchedulerAssumption
  <2> QED
    BY <2>1, <2>2 DEF RestOK, flags
<1>8. Switched(wokenState(ts))
  <2>1. CASE yieldFrom(wokenState(ts), pending \o ts, wokenReason(ts, "WR_Normal"))
    <3>1. YieldPre(wokenState(ts), pending \o ts, wokenReason(ts, "WR_Normal"))
      BY <1>6, InvFacts DEF YieldPre
    <3> QED
      BY <2>1, <3>1, YieldSwitches DEF Inv
  <2>2. CASE /\ state' = wokenState(ts) /\ wakeReason' = wokenReason(ts, "WR_Normal")
             /\ pending' = pending \o ts /\ current' = current
    BY <1>6, <2>2, InvFacts DEF Switched, RunningIsCurrent
  <2> QED
    BY <1>4, <2>1, <2>2
<1> QED
  BY <1>6, <1>7, <1>8, SwitchKeepsInv

-----------------------------------------------------------------------------
\* The state after startDeamons() satisfies the invariant (main.cpp:66-68).
LEMMA InitInv == ASSUME SchedulerAssumption, Init PROVE Inv
<1>1. /\ InitTask \in Task /\ IdleTask \in Task /\ InitTask # IdleTask
      /\ Deamons \in Seq(Task \ {InitTask, IdleTask}) /\ Deamons # <<>>
      /\ IsInjective(Deamons) /\ NoDetach \notin List
  BY DEF SchedulerAssumption, List
<1> DEFINE h == Head(Deamons)
           r == Tail(Deamons)
<1>2. /\ h \in Task \ {InitTask, IdleTask} /\ h \in ToSet(Deamons)
      /\ r \in Seq(Task \ {InitTask, IdleTask}) /\ IsInjective(r)
      /\ ToSet(r) = ToSet(Deamons) \ {h}
  BY <1>1, TailFacts
<1>3. /\ ToSet(Deamons) \subseteq Task \ {InitTask, IdleTask} /\ r \in Seq(Task)
  BY <1>1, <1>2 DEF ToSet
<1> HIDE DEF h, r
<1>4. /\ pending = Append(r, InitTask) /\ current = h
      /\ state = [t \in Task |->
                   IF t = h THEN "S_Running"
                   ELSE IF t \in ToSet(Deamons) \cup {InitTask, IdleTask}
                        THEN "S_Ready" ELSE "Free"]
  BY DEF Init, h, r
<1>5. /\ pending \in Seq(Task) /\ IsInjective(pending)
      /\ ToSet(pending) = ToSet(r) \cup {InitTask}
  BY <1>1, <1>2, <1>3, <1>4, AppendFacts
<1>6. TypeOK
  <2>1. state \in [Task -> State]
    BY <1>4 DEF State
  <2> QED
    BY <1>1, <1>2, <1>3, <1>4, <1>5, <2>1
    DEF Init, TypeOK, WakeReason, SchedulerAssumption
<1>7. RunningIsCurrent
  BY <1>4 DEF RunningIsCurrent
<1>8. PendingIsReady
  BY <1>1, <1>2, <1>3, <1>4, <1>5 DEF PendingIsReady
<1>9. WaitersAreBlocked
  <2>1. IsInjective(<<>>) /\ ToSet(<<>>) = {}
    BY DEF IsInjective, ToSet
  <2>2. \A t \in Task : request_detach[t] = NoDetach
    BY DEF Init
  <2>3. \A l \in List : lists[l] = <<>>
    BY DEF Init
  <2> QED
    BY <1>1, <2>1, <2>2, <2>3 DEF WaitersAreBlocked
<1>10. OnlyInitBlocksBare
  BY <1>1, <1>2, <1>4 DEF OnlyInitBlocksBare
<1> QED
  BY <1>6, <1>7, <1>8, <1>9, <1>10 DEF Inv, QueueInv

\* Every step of the scheduler keeps every task where its state says.
LEMMA NextKeepsInv == ASSUME SchedulerAssumption, Inv, [Next]_vars PROVE Inv'
<1>1. CASE UNCHANGED vars
  BY <1>1 DEF vars, flags, Inv, TypeOK, QueueInv, RunningIsCurrent, PendingIsReady,
              WaitersAreBlocked, OnlyInitBlocksBare
<1>2. CASE IdleYield
  BY <1>2, IdleYieldKeepsInv
<1>3. CASE InitBlock
  BY <1>3, InitBlockKeepsInv
<1>4. CASE ExitBegin
  BY <1>4, ExitBeginKeepsInv
<1>5. CASE ExitSwitch
  BY <1>5, ExitSwitchKeepsInv
<1>6. CASE Tick
  BY <1>6, TickKeepsInv
<1>7. ASSUME NEW w \in WaitList, Wait(w) \/ WakeOne(w) \/ WakeAll(w) PROVE Inv'
  BY <1>7, WaitKeepsInv, WakeOneKeepsInv, WakeAllKeepsInv
<1>8. ASSUME NEW t \in Task, AddTask(t) \/ FreeTask(t) \/ SendSignal(t) PROVE Inv'
  BY <1>8, AddTaskKeepsInv, FreeTaskKeepsInv, SendSignalKeepsInv
<1>9. ASSUME NEW ms \in Durations, Sleep(ms) PROVE Inv'
  BY <1>9, SleepKeepsInv
<1>10. CASE EnterUser \/ Sigreturn
  BY <1>10, FlagsKeepInv
<1> QED
  BY <1>1, <1>2, <1>3, <1>4, <1>5, <1>6, <1>7, <1>8, <1>9, <1>10 DEF Next

\* The variables of the scheduler keep their types, for any number of tasks
\* and lists (the fields of tcb.hpp and scheduler.hpp).
THEOREM TypeCorrect == Spec => []TypeOK
<1>1. Init => Inv
  BY InitInv, SchedulerAssumption
<1>2. Inv /\ [Next]_vars => Inv'
  BY NextKeepsInv, SchedulerAssumption
<1>3. Inv => TypeOK
  BY DEF Inv
<1> QED
  BY <1>1, <1>2, <1>3, PTL DEF Spec

\* No operation of the scheduler (scheduler.self.cpp, scheduler.other.cpp,
\* wait.cpp) ever links a task twice, leaves a woken task linked, or loses a
\* ready or blocked task.
THEOREM QueuesExact == Spec => []QueueInv
<1>1. Init => Inv
  BY InitInv, SchedulerAssumption
<1>2. Inv /\ [Next]_vars => Inv'
  BY NextKeepsInv, SchedulerAssumption
<1>3. Inv => QueueInv
  BY DEF Inv
<1> QED
  BY <1>1, <1>2, <1>3, PTL DEF Spec
=============================================================================
