----------------------- MODULE DownloadManagerProofs -----------------------
(***************************************************************************)
(* What holds of the task queue and of the download manager on it for      *)
(* every number of tasks, callers, slots and downloads, every workload and *)
(* every interleaving of critical sections: first of the queue by itself,  *)
(* then of the queue and the manager together.                             *)
(***************************************************************************)
EXTENDS DownloadManager, FiniteSetTheorems, TLAPS

(* The invariant IInv allows for a task that is set to Failed behind the     *)
(* queue's back, which the download manager does (t.SetError), so that it    *)
(* holds of the queue in its place under the manager as well.                *)

\* The heap's items are of tasks of the queue that wait, or waited until
\* somebody failed them, and a task has one item.
ItemSound ==
    /\ \A e \in pq : e.task \in tasks /\ status[e.task] \in {"pending", "failed"}
    /\ \A e, f \in pq : e.task = f.task => e = f

\* What a caller between "there is a free slot" and startTask relies on: the
\* task it will start neither waits in the heap nor runs, and no other caller
\* is about to start it as well.
StartSound ==
    /\ \A c \in Callers : pc[c] = "startTask" =>
          /\ c \in Handlers
          /\ \E t \in Tasks :
                /\ arg[c] = {t}
                /\ status[t] \in {"pending", "cancelled", "failed"}
                /\ ~Queued(t)
    /\ \A c, d \in Callers :
          pc[c] = "startTask" /\ pc[d] = "startTask" /\ c # d => arg[c] \cap arg[d] = {}

\* A task nobody created is in no part of the queue.
NoneUnknown == \A t \in tasks : status[t] # "none"

\* A waiting task is in the heap or about to be started.
PendingKept ==
    \A t \in tasks : status[t] = "pending" => Queued(t) \/ \E c \in Callers : StartedBy(c, t)

\* A task that a caller of Remove is about to cancel has left the queue for
\* good: its ID is not added a second time.
CancelSound ==
    \A c \in Callers : pc[c] = "cancel" => \A t \in arg[c] : t \notin tasks /\ status[t] # "none"

IInv == TypeOK /\ ItemSound /\ StartSound /\ NoneUnknown /\ PendingKept /\ CancelSound

\* What the queue alone adds: nobody fails a task that waits or is about to
\* be started.
NotFailed ==
    /\ \A e \in pq : status[e.task] # "failed"
    /\ \A c \in Callers : pc[c] = "startTask" => \A t \in arg[c] : status[t] # "failed"

Starters == {c \in Callers : pc[c] = "startTask"}

\* Every caller about to start a task has been promised a slot; the promises
\* made beyond the limit are those of different request handlers.
SlotsPromised == activeCount + Cardinality(Starters) <= MaxLimit + Cardinality(Handlers)

\* A goroutine that runs has a task, and so does a monitor: the one of the
\* download it was started for.
HasTask ==
    /\ \A w \in Downloads : wpc[w] # "free" => wtask[w] \in Tasks
    /\ \A m \in Monitors : mpc[m] # "off" =>
          watched[m] \in Downloads /\ wtask[watched[m]] \in Tasks

\* Two goroutines never work for one task.
OneWriter ==
    \A v, w \in Downloads : ~Ended(v) /\ ~Ended(w) /\ wtask[v] = wtask[w] => v = w

\* Once Stop waits, every download that still runs has been cancelled.
StopReachesAll ==
    stop \in {"waiting", "returned"} => \A w \in Downloads : ~Ended(w) => w \in cancelled

\* The types of the manager's own variables.
ManagerTypes ==
    /\ active \in [Tasks -> Downloads \cup {None}]
    /\ wtask \in [Downloads -> Tasks \cup {None}]
    /\ wpc \in [Downloads -> WorkerSteps]
    /\ cancelled \subseteq Downloads
    /\ watched \in [Monitors -> Downloads \cup {None}]
    /\ victim \in [Monitors -> Downloads \cup {None}]
    /\ mpc \in [Monitors -> MonitorSteps]
    /\ stop \in StopSteps

\* The queue's invariants in its place under the manager.
QueueInv == IInv /\ RunningCounted /\ SlotsPromised

MInv == QueueInv /\ ManagerTypes /\ HasTask /\ StoppedForGood

-----------------------------------------------------------------------------
(* Facts about the operators the queue is built from.                       *)

\* The heap holds no more items than there are tasks, so it is finite.
LEMMA HeapFinite ==
    ASSUME TypeOK, ItemSound
    PROVE  IsFiniteSet(pq) /\ Cardinality(pq) \in Nat
<1> DEFINE f == [e \in pq |-> e.task]
<1>1. f \in Injection(pq, Tasks)
    BY DEF Injection, IsInjective, ItemSound, TypeOK, Item
<1>2. IsFiniteSet(pq)
    BY <1>1, FS_Injection, QueueAssumption
<1> QED BY <1>2, FS_CardinalityType

\* ChangePosition renumbers with natural numbers.
LEMMA ShiftedIsNat ==
    ASSUME NEW n \in Nat \ {0}, NEW cur \in 0..(n - 1), NEW i \in 0..(n - 1),
           NEW pos \in Int, NEW how \in Hows
    PROVE  ShiftedIndex(i, cur, NewPosition(how, pos, cur, n)) \in 0..(n - 1)
<1>1. NewPosition(how, pos, cur, n) \in 0..(n - 1)
    BY DEF NewPosition, Clamp, Hows
<1> QED BY <1>1 DEF ShiftedIndex

\* ChangePosition renumbers the items and keeps their tasks, one item each.
LEMMA ReorderKeepsTasks ==
    ASSUME TypeOK, ItemSound,
           NEW c, NEW t, NEW pos \in Offsets, NEW how \in Hows, ChangePosition(c, t, pos, how)
    PROVE  /\ pq' \subseteq Item
           /\ priority' \in [Tasks -> Nat]
           /\ \A e \in pq' : \E f \in pq : f.task = e.task
           /\ \A f \in pq : \E e \in pq' : f.task = e.task
           /\ \A e, f \in pq' : e.task = f.task => e = f
<1> DEFINE n == Cardinality(pq)
<1>0. PICK s \in PopOrders : \E cur \in DOMAIN s :
         LET new == NewPosition(how, pos, cur, n)
             at  == [e \in pq |-> CHOOSE i \in DOMAIN s : s[i] = e]
             to(e) == ShiftedIndex(at[e], cur, new)
         IN /\ s[cur].task = t
            /\ pq' = {[task |-> e.task, priority |-> to(e)] : e \in pq}
            /\ priority' = [u \in Tasks |->
                  IF \E e \in pq : e.task = u
                  THEN to(CHOOSE e \in pq : e.task = u) ELSE priority[u]]
    BY DEF ChangePosition
<1>1. PICK cur \in DOMAIN s :
         LET new == NewPosition(how, pos, cur, n)
             at  == [e \in pq |-> CHOOSE i \in DOMAIN s : s[i] = e]
             to(e) == ShiftedIndex(at[e], cur, new)
         IN /\ s[cur].task = t
            /\ pq' = {[task |-> e.task, priority |-> to(e)] : e \in pq}
            /\ priority' = [u \in Tasks |->
                  IF \E e \in pq : e.task = u
                  THEN to(CHOOSE e \in pq : e.task = u) ELSE priority[u]]
    BY <1>0
<1> DEFINE new == NewPosition(how, pos, cur, n)
           at  == [e \in pq |-> CHOOSE i \in DOMAIN s : s[i] = e]
           to(e) == ShiftedIndex(at[e], cur, new)
<1>2. n \in Nat /\ DOMAIN s = 0..(n - 1)
    BY HeapFinite DEF PopOrders
<1>3. n \in Nat \ {0} /\ cur \in 0..(n - 1)
    BY <1>2
<1>4. ASSUME NEW e \in pq PROVE at[e] \in 0..(n - 1)
    BY <1>2, <1>4 DEF PopOrders
<1>5. ASSUME NEW e \in pq PROVE to(e) \in Nat
    <2>1. at[e] \in 0..(n - 1)
        BY <1>4
    <2>2. to(e) \in 0..(n - 1)
        BY <2>1, <1>3, ShiftedIsNat, QueueAssumption
    <2> QED BY <2>2, <1>3
<1> HIDE DEF to, at, new, n
<1>6. pq' = {[task |-> e.task, priority |-> to(e)] : e \in pq}
    BY <1>1 DEF to, at, new, n
<1>7. priority' = [u \in Tasks |->
          IF \E e \in pq : e.task = u
          THEN to(CHOOSE e \in pq : e.task = u) ELSE priority[u]]
    BY <1>1 DEF to, at, new, n
<1>8. pq' \subseteq Item
    BY <1>5, <1>6 DEF TypeOK, Item
<1>9. priority' \in [Tasks -> Nat]
    BY <1>5, <1>7 DEF TypeOK
<1>10. \A e \in pq' : \E f \in pq : f.task = e.task
    BY <1>6
<1>11. ASSUME NEW f \in pq PROVE \E e \in pq' : f.task = e.task
    <2>1. [task |-> f.task, priority |-> to(f)] \in pq'
        BY <1>6
    <2> QED BY <2>1
<1>12. ASSUME NEW e \in pq', NEW f \in pq', e.task = f.task PROVE e = f
    <2>1. PICK e0 \in pq : e = [task |-> e0.task, priority |-> to(e0)]
        BY <1>6
    <2>2. PICK f0 \in pq : f = [task |-> f0.task, priority |-> to(f0)]
        BY <1>6
    <2>3. e0 = f0
        BY <2>1, <2>2, <1>12 DEF ItemSound
    <2> QED BY <2>1, <2>2, <2>3
<1> QED BY <1>8, <1>9, <1>10, <1>11, <1>12

-----------------------------------------------------------------------------
(* The inductive invariant, one lemma for each group of actions.            *)

LEMMA InitIInv == Init => IInv
<1> SUFFICES ASSUME Init PROVE IInv
    OBVIOUS
<1>1. TypeOK
    BY QueueAssumption DEF Init, TypeOK, Statuses, Steps, Item
<1> QED
    BY <1>1 DEF Init, IInv, ItemSound, StartSound, NoneUnknown, PendingKept, CancelSound

\* A step that leaves the items, the starters and the waiting tasks as they
\* are, apart from what it adds, keeps every waiting task tracked.
LEMMA PendingKeptStep ==
    ASSUME PendingKept,
           \A e \in pq : e.task \in tasks' /\ status'[e.task] = "pending"
               => \E f \in pq' : f.task = e.task,
           \A d \in Callers : pc[d] = "startTask" =>
               \/ pc'[d] = "startTask" /\ arg'[d] = arg[d]
               \/ \A u \in arg[d] : status'[u] # "pending",
           \A u \in tasks' : status'[u] = "pending" =>
               \/ u \in tasks /\ status[u] = "pending"
               \/ \E f \in pq' : f.task = u
               \/ \E d \in Callers : pc'[d] = "startTask" /\ u \in arg'[d]
    PROVE  PendingKept'
<1> SUFFICES ASSUME NEW u \in tasks', status'[u] = "pending"
             PROVE  \/ \E f \in pq' : f.task = u
                    \/ \E d \in Callers : pc'[d] = "startTask" /\ u \in arg'[d]
    BY DEF PendingKept, Queued, StartedBy
<1>1. CASE u \in tasks /\ status[u] = "pending"
    BY <1>1 DEF PendingKept, Queued, StartedBy
<1> QED BY <1>1

\* Add: the task ends up with one item or with one starter.
LEMMA AddIInv ==
    ASSUME IInv, NEW c \in Handlers, NEW t \in Tasks, NEW p \in Priorities, Add(c, t, p)
    PROVE  IInv'
<1> USE DEF Add, SetStatus, Goto, Callers
<1>1. TypeOK'
    BY QueueAssumption DEF IInv, TypeOK, Push, Item, Statuses, Steps
<1>2. t \notin tasks /\ ~Queued(t)
    BY DEF IInv, NoneUnknown, ItemSound, Queued
<1>3. ItemSound'
    BY <1>2 DEF IInv, ItemSound, TypeOK, Push, Queued, Item
<1>4. StartSound'
    BY <1>2 DEF IInv, StartSound, TypeOK, Push, Queued, Item
<1>5. NoneUnknown'
    BY DEF IInv, NoneUnknown, TypeOK
<1>6. PendingKept'
    <2>1. CASE HasFreeSlot
        BY <2>1, PendingKeptStep DEF IInv, TypeOK
    <2>2. CASE ~HasFreeSlot
        <3>1. [task |-> t, priority |-> p] \in pq' /\ pq \subseteq pq'
            BY <2>2 DEF Push
        <3> QED BY <2>2, <3>1, PendingKeptStep DEF IInv, TypeOK
    <2> QED BY <2>1, <2>2
<1>7. CancelSound'
    BY DEF IInv, CancelSound, TypeOK
<1> QED BY <1>1, <1>3, <1>4, <1>5, <1>6, <1>7 DEF IInv

LEMMA ResumeIInv ==
    ASSUME IInv, NEW c \in Handlers, NEW t \in Tasks, Resume(c, t)
    PROVE  IInv'
<1> USE DEF Resume, SetStatus, Goto, Callers
<1>1. TypeOK'
    BY QueueAssumption DEF IInv, TypeOK, Push, Item, Statuses, Steps
<1>2. ~Queued(t)
    BY DEF IInv, ItemSound, Queued
<1>3. ItemSound'
    BY <1>2 DEF IInv, ItemSound, TypeOK, Push, Queued, Item
<1>4. StartSound'
    BY <1>2 DEF IInv, StartSound, TypeOK, Push, Queued, Item
<1>5. NoneUnknown'
    BY DEF IInv, NoneUnknown, TypeOK
<1>6. PendingKept'
    <2>1. CASE HasFreeSlot
        BY <2>1, PendingKeptStep DEF IInv, TypeOK
    <2>2. CASE ~HasFreeSlot
        <3>1. [task |-> t, priority |-> priority[t]] \in pq' /\ pq \subseteq pq'
            BY <2>2 DEF Push
        <3> QED BY <2>2, <3>1, PendingKeptStep DEF IInv, TypeOK
    <2> QED BY <2>1, <2>2
<1>7. CancelSound'
    BY DEF IInv, CancelSound, TypeOK
<1> QED BY <1>1, <1>3, <1>4, <1>5, <1>6, <1>7 DEF IInv

\* Removing tasks from the map together with their items; the caller goes on
\* to anything but a start.
LEMMA RemovalIInv ==
    ASSUME IInv, NEW ts, NEW c \in Callers, pc[c] = "idle",
           tasks' = tasks \ ts, pq' = WithoutItem(ts),
           UNCHANGED <<status, priority, maxConcurrent>>, activeCount' \in Int,
           \/ UNCHANGED <<pc, arg>>
           \/ Goto(c, "cancel", ts) /\ ts \subseteq tasks
    PROVE  IInv'
<1> USE DEF Goto, Callers
<1>1. TypeOK'
    BY DEF IInv, TypeOK, WithoutItem, Steps
<1>2. ItemSound'
    BY DEF IInv, ItemSound, WithoutItem
<1>3. StartSound'
    BY DEF IInv, StartSound, TypeOK, WithoutItem, Queued
<1>4. NoneUnknown'
    BY DEF IInv, NoneUnknown
<1>5. PendingKept'
    BY PendingKeptStep DEF IInv, TypeOK, WithoutItem
<1>6. CancelSound'
    BY DEF IInv, CancelSound, NoneUnknown, TypeOK
<1> QED BY <1>1, <1>2, <1>3, <1>4, <1>5, <1>6 DEF IInv

\* Pause, CompleteTask and FailTask: a running task leaves that state.
LEMMA StopsRunningIInv ==
    ASSUME IInv, NEW c \in Callers, pc[c] = "idle", NEW t \in tasks, status[t] = "downloading",
           NEW s \in {"paused", "done", "failed"}, SetStatus(t, s),
           tasks' = tasks \/ tasks' = tasks \ {t},
           activeCount' \in Int, TryStartAfterwards(c),
           UNCHANGED <<priority, pq, maxConcurrent>>
    PROVE  IInv'
<1> USE DEF SetStatus, TryStartAfterwards, Goto, Callers
<1>1. TypeOK'
    BY DEF IInv, TypeOK, Statuses, Steps
<1>2. ItemSound'
    BY DEF IInv, ItemSound, TypeOK
<1>3. StartSound'
    BY DEF IInv, StartSound, TypeOK, Queued
<1>4. NoneUnknown'
    BY DEF IInv, NoneUnknown, TypeOK
<1>5. PendingKept'
    BY PendingKeptStep DEF IInv, TypeOK
<1>6. CancelSound'
    BY DEF IInv, CancelSound, TypeOK
<1> QED BY <1>1, <1>2, <1>3, <1>4, <1>5, <1>6 DEF IInv

LEMMA ChangePositionIInv ==
    ASSUME IInv, NEW c \in Handlers, NEW t \in Tasks, NEW pos \in Offsets, NEW how \in Hows,
           ChangePosition(c, t, pos, how)
    PROVE  IInv'
<1>1. /\ pq' \subseteq Item
      /\ priority' \in [Tasks -> Nat]
      /\ \A e \in pq' : \E f \in pq : f.task = e.task
      /\ \A f \in pq : \E e \in pq' : f.task = e.task
      /\ \A e, f \in pq' : e.task = f.task => e = f
    BY ReorderKeepsTasks DEF IInv
<1>2. UNCHANGED <<tasks, status, activeCount, maxConcurrent, pc, arg>>
    BY DEF ChangePosition
<1>3. TypeOK'
    BY <1>1, <1>2 DEF IInv, TypeOK
<1>4. ItemSound'
    BY <1>1, <1>2 DEF IInv, ItemSound
<1>5. StartSound'
    BY <1>1, <1>2 DEF IInv, StartSound, Queued
<1>6. NoneUnknown'
    BY <1>2 DEF IInv, NoneUnknown
<1>7. PendingKept'
    BY <1>1, <1>2, PendingKeptStep DEF IInv
<1>8. CancelSound'
    BY <1>2 DEF IInv, CancelSound
<1> QED BY <1>3, <1>4, <1>5, <1>6, <1>7, <1>8 DEF IInv

LEMMA TryStartNextIInv ==
    ASSUME IInv, NEW c \in Callers, TryStartNext(c)
    PROVE  IInv'
<1>1. PICK S \in SUBSET pq :
         LET started == {e.task : e \in Startable(S)} IN
         /\ Pops(S)
         /\ pq' = pq \ S
         /\ status' = [t \in Tasks |-> IF t \in started THEN "downloading" ELSE status[t]]
         /\ activeCount' = activeCount + Cardinality(Startable(S))
         /\ IF started = {} THEN Return(c) ELSE Goto(c, "onTaskStart", started)
    BY DEF TryStartNext
<1> DEFINE started == {e.task : e \in Startable(S)}
<1>2. pc[c] = "tryStartNext" /\ UNCHANGED <<tasks, priority, maxConcurrent>>
    BY DEF TryStartNext
<1>3. /\ \A e \in S : status[e.task] = "pending" => e.task \in started
      /\ \A t \in started : \E e \in S : e.task = t /\ status[t] = "pending"
    BY DEF Startable
<1>4. IsFiniteSet(Startable(S)) /\ Cardinality(Startable(S)) \in Nat
    <2>1. IsFiniteSet(pq) /\ Startable(S) \subseteq pq
        BY HeapFinite DEF IInv, Startable
    <2> QED BY <2>1, FS_Subset, FS_CardinalityType
<1>5. started \subseteq Tasks
    BY DEF Startable, IInv, TypeOK, Item
<1>6. status' = [t \in Tasks |-> IF t \in started THEN "downloading" ELSE status[t]]
    BY <1>1
<1>7. \/ pc' = [pc EXCEPT ![c] = "idle"] /\ arg' = [arg EXCEPT ![c] = {}]
      \/ pc' = [pc EXCEPT ![c] = "onTaskStart"] /\ arg' = [arg EXCEPT ![c] = started]
    BY <1>1 DEF Return, Goto
<1> HIDE DEF started
<1>8. TypeOK'
    BY <1>1, <1>2, <1>4, <1>5, <1>6, <1>7 DEF IInv, TypeOK, Statuses, Steps
<1>9. \A e \in pq' : e.task \notin started
    BY <1>1, <1>3 DEF IInv, ItemSound
<1>10. ItemSound'
    BY <1>1, <1>2, <1>6, <1>9 DEF IInv, ItemSound, TypeOK, Item
<1>11. \A d \in Callers : pc[d] = "startTask" => arg[d] \cap started = {}
    BY <1>3 DEF IInv, StartSound, Queued
<1>12. StartSound'
    BY <1>1, <1>2, <1>6, <1>7, <1>11 DEF IInv, StartSound, TypeOK, Queued
<1>13. NoneUnknown'
    BY <1>2, <1>6 DEF IInv, NoneUnknown, TypeOK
<1>14. PendingKept'
    <2>1. \A e \in pq : status'[e.task] = "pending" => e \in pq'
        BY <1>1, <1>3, <1>6 DEF IInv, TypeOK, Item
    <2>2. \A d \in Callers : pc[d] = "startTask" => pc'[d] = "startTask" /\ arg'[d] = arg[d]
        BY <1>2, <1>7 DEF IInv, TypeOK
    <2>3. \A u \in tasks' : status'[u] = "pending" => u \in tasks /\ status[u] = "pending"
        BY <1>2, <1>6 DEF IInv, TypeOK
    <2> QED BY <2>1, <2>2, <2>3, PendingKeptStep DEF IInv
<1>15. CancelSound'
    BY <1>2, <1>6, <1>7 DEF IInv, CancelSound, TypeOK
<1> QED BY <1>8, <1>10, <1>12, <1>13, <1>14, <1>15 DEF IInv

LEMMA StartTaskIInv ==
    ASSUME IInv, NEW c \in Callers, StartTask(c)
    PROVE  IInv'
<1>1. PICK t \in Tasks : /\ arg[c] = {t} /\ ~Queued(t)
                         /\ status[t] \in {"pending", "cancelled", "failed"}
    BY DEF IInv, StartSound, StartTask
<1>2. /\ pc[c] = "startTask"
      /\ status' = [status EXCEPT ![t] = "downloading"]
      /\ activeCount' = activeCount + 1
      /\ pc' = [pc EXCEPT ![c] = "onTaskStart"] /\ arg' = arg
      /\ UNCHANGED <<tasks, priority, pq, maxConcurrent>>
    BY <1>1 DEF StartTask, Goto, IInv, TypeOK
<1>3. TypeOK'
    BY <1>2 DEF IInv, TypeOK, Statuses, Steps
<1>4. ItemSound'
    BY <1>1, <1>2 DEF IInv, ItemSound, TypeOK, Queued
<1>5. StartSound'
    <2>1. \A d \in Callers : pc[d] = "startTask" /\ d # c => t \notin arg[d]
        BY <1>1, <1>2 DEF IInv, StartSound
    <2> QED BY <1>2, <2>1 DEF IInv, StartSound, TypeOK, Queued
<1>6. NoneUnknown'
    BY <1>2 DEF IInv, NoneUnknown, TypeOK
<1>7. PendingKept'
    BY <1>1, <1>2, PendingKeptStep DEF IInv, TypeOK
<1>8. CancelSound'
    BY <1>2 DEF IInv, CancelSound, TypeOK
<1> QED BY <1>3, <1>4, <1>5, <1>6, <1>7, <1>8 DEF IInv

LEMMA OnTaskStartIInv ==
    ASSUME IInv, NEW c \in Callers, NEW t \in Tasks, OnTaskStart(c, t)
    PROVE  IInv'
<1>1. /\ pc[c] = "onTaskStart" /\ UNCHANGED queueVars
      /\ \E step \in {"idle", "onTaskStart"} : pc' = [pc EXCEPT ![c] = step]
      /\ \E ts \in SUBSET Tasks : arg' = [arg EXCEPT ![c] = ts]
    BY DEF OnTaskStart, Return, Goto, IInv, TypeOK
<1>2. TypeOK'
    BY <1>1 DEF IInv, TypeOK, Steps, queueVars
<1>3. ItemSound' /\ NoneUnknown'
    BY <1>1 DEF IInv, ItemSound, NoneUnknown, queueVars
<1>4. StartSound'
    BY <1>1 DEF IInv, StartSound, TypeOK, Queued, queueVars
<1>5. PendingKept'
    BY <1>1, PendingKeptStep DEF IInv, TypeOK, queueVars
<1>6. CancelSound'
    BY <1>1 DEF IInv, CancelSound, TypeOK, queueVars
<1> QED BY <1>2, <1>3, <1>4, <1>5, <1>6 DEF IInv

LEMMA CancelIInv ==
    ASSUME IInv, NEW c \in Callers, Cancel(c)
    PROVE  IInv'
<1>1. /\ pc[c] = "cancel"
      /\ status' = [t \in Tasks |->
            IF t \in arg[c] /\ status[t] \notin Stopped THEN "cancelled" ELSE status[t]]
      /\ pc' = [pc EXCEPT ![c] = "idle"] /\ arg' = [arg EXCEPT ![c] = {}]
      /\ UNCHANGED <<tasks, priority, pq, activeCount, maxConcurrent>>
    BY DEF Cancel, Return, Goto
<1>2. TypeOK'
    BY <1>1 DEF IInv, TypeOK, Statuses, Steps
<1>3. ItemSound' /\ NoneUnknown'
    BY <1>1 DEF IInv, ItemSound, NoneUnknown, CancelSound, TypeOK
<1>4. StartSound'
    BY <1>1 DEF IInv, StartSound, CancelSound, TypeOK, Queued
<1>5. PendingKept'
    BY <1>1, PendingKeptStep DEF IInv, TypeOK
<1>6. CancelSound'
    BY <1>1 DEF IInv, CancelSound, TypeOK
<1> QED BY <1>2, <1>3, <1>4, <1>5, <1>6 DEF IInv

\* Every step of the queue preserves the invariant.
LEMMA NextIInv ==
    ASSUME IInv, [Next]_vars
    PROVE  IInv'
<1>1. ASSUME NEW c \in Handlers, ClientStep(c) PROVE IInv'
    <2> USE DEF Callers
    <2>1. ASSUME NEW t \in Tasks, NEW p \in Priorities, Add(c, t, p) PROVE IInv'
        BY <2>1, AddIInv
    <2>2. ASSUME NEW t \in Tasks, Remove(c, t) PROVE IInv'
        <3>1. activeCount' \in Int
            BY <2>2 DEF Remove, IInv, TypeOK
        <3> QED BY <2>2, <3>1, RemovalIInv DEF Remove
    <2>3. ASSUME NEW t \in Tasks, Pause(c, t) PROVE IInv'
        <3>1. activeCount' \in Int
            BY <2>3 DEF Pause, IInv, TypeOK
        <3> QED BY <2>3, <3>1, StopsRunningIInv DEF Pause
    <2>4. ASSUME NEW t \in Tasks, Resume(c, t) PROVE IInv'
        BY <2>4, ResumeIInv
    <2>7. ASSUME NEW t \in Tasks, NEW p \in Priorities, SetPriority(c, t, p) PROVE IInv'
        <3>1. TypeOK'
            BY <2>7, QueueAssumption DEF SetPriority, IInv, TypeOK
        <3> QED BY <2>7, <3>1 DEF SetPriority, IInv, ItemSound, StartSound, NoneUnknown,
                                  PendingKept, CancelSound, Queued, StartedBy
    <2>8. ASSUME NEW t \in Tasks, NEW pos \in Offsets, NEW how \in Hows,
                 ChangePosition(c, t, pos, how)
          PROVE  IInv'
        BY <2>8, ChangePositionIInv
    <2>9. ASSUME NEW n \in 1..MaxLimit, SetMaxConcurrent(c, n) PROVE IInv'
        <3> USE DEF SetMaxConcurrent, TryStartAfterwards, Goto
        <3>1. TypeOK'
            BY <2>9 DEF IInv, TypeOK, Steps
        <3>2. ItemSound' /\ NoneUnknown'
            BY <2>9 DEF IInv, ItemSound, NoneUnknown
        <3>3. StartSound' /\ CancelSound'
            BY <2>9 DEF IInv, StartSound, CancelSound, TypeOK, Queued
        <3>4. PendingKept'
            BY <2>9, PendingKeptStep DEF IInv, TypeOK
        <3> QED BY <3>1, <3>2, <3>3, <3>4 DEF IInv
    <2> QED BY <1>1, <2>1, <2>2, <2>3, <2>4, <2>7, <2>8, <2>9 DEF ClientStep
<1>2. ASSUME NEW c \in Callers, Continue(c) PROVE IInv'
    BY <1>2, TryStartNextIInv, StartTaskIInv, CancelIInv, OnTaskStartIInv DEF Continue
<1>3. ASSUME NEW t \in Tasks, NEW w \in Workers, NEW s \in {"done", "failed"}, Finish(w, t, s)
      PROVE  IInv'
    <2>1. activeCount' \in Int /\ tasks' = tasks \ {t}
        BY <1>3 DEF Finish, IInv, TypeOK
    <2> QED BY <1>3, <2>1, StopsRunningIInv DEF Finish, MayFinish, Callers
<1>4. CASE UNCHANGED vars
    BY <1>4 DEF vars, IInv, TypeOK, ItemSound, StartSound, NoneUnknown, PendingKept,
                CancelSound, Queued, StartedBy
<1> QED BY <1>1, <1>2, <1>3, <1>4 DEF Next, DownloadEnds, CompleteTask, FailTask

-----------------------------------------------------------------------------
(* The theorems about the queue.                                            *)

\* The inductive invariant holds throughout.
THEOREM QueueInvariant == Spec => []IInv
<1>1. IInv /\ [Next]_vars => IInv'
    BY NextIInv
<1> QED BY InitIInv, <1>1, PTL DEF Spec

\* The variables of the queue keep their types.
THEOREM QueueTypeCorrect == Spec => []TypeOK
<1>1. IInv => TypeOK
    BY DEF IInv
<1> QED BY QueueInvariant, <1>1, PTL

\* Nobody but a download that runs fails its task: what waits or is about to
\* be started has not failed.
THEOREM QueueNotFailed == Spec => []NotFailed
<1>1. Init => NotFailed
    BY DEF Init, NotFailed
<1>2. ASSUME IInv, NotFailed, [Next]_vars PROVE NotFailed'
    <2>1. ASSUME NEW c \in Handlers, ClientStep(c) PROVE NotFailed'
        <3>1. ASSUME NEW t \in Tasks, NEW p \in Priorities, Add(c, t, p) PROVE NotFailed'
            BY <1>2, <3>1 DEF Add, SetStatus, Goto, Push, NotFailed, IInv, TypeOK, ItemSound, Item
        <3>2. ASSUME NEW t \in Tasks, Resume(c, t) PROVE NotFailed'
            BY <1>2, <3>2 DEF Resume, SetStatus, Goto, Push, NotFailed, IInv, TypeOK, ItemSound, Item
        <3>3. ASSUME NEW t \in Tasks, Pause(c, t) PROVE NotFailed'
            BY <1>2, <3>3 DEF Pause, SetStatus, TryStartAfterwards, Goto, NotFailed, IInv, TypeOK, Item
        <3>4. ASSUME NEW t \in Tasks, Remove(c, t) PROVE NotFailed'
            BY <1>2, <3>4 DEF Remove, Goto, WithoutItem, NotFailed, IInv, TypeOK
        <3>5. ASSUME NEW t \in Tasks, NEW p \in Priorities, SetPriority(c, t, p) PROVE NotFailed'
            BY <1>2, <3>5 DEF SetPriority, NotFailed
        <3>6. ASSUME NEW t \in Tasks, NEW pos \in Offsets, NEW how \in Hows,
                     ChangePosition(c, t, pos, how)
              PROVE  NotFailed'
            <4>1. \A e \in pq' : \E f \in pq : f.task = e.task
                BY <1>2, <3>6, ReorderKeepsTasks DEF IInv
            <4> QED BY <1>2, <3>6, <4>1 DEF ChangePosition, NotFailed
        <3>7. ASSUME NEW n \in 1..MaxLimit, SetMaxConcurrent(c, n) PROVE NotFailed'
            BY <1>2, <3>7 DEF SetMaxConcurrent, TryStartAfterwards, Goto, NotFailed, IInv, TypeOK
        <3> QED BY <2>1, <3>1, <3>2, <3>3, <3>4, <3>5, <3>6, <3>7 DEF ClientStep
    <2>2. ASSUME NEW c \in Callers, Continue(c) PROVE NotFailed'
        <3>1. CASE TryStartNext(c)
            BY <1>2, <3>1 DEF TryStartNext, Return, Goto, NotFailed, IInv, TypeOK, Item
        <3>2. CASE StartTask(c)
            BY <1>2, <3>2 DEF StartTask, Goto, NotFailed, IInv, TypeOK, Item
        <3>3. CASE Cancel(c)
            BY <1>2, <3>3 DEF Cancel, Return, Goto, NotFailed, IInv, TypeOK, Item
        <3>4. CASE \E u \in Tasks : OnTaskStart(c, u)
            BY <1>2, <3>4 DEF OnTaskStart, Return, Goto, queueVars, NotFailed, IInv, TypeOK
        <3> QED BY <2>2, <3>1, <3>2, <3>3, <3>4 DEF Continue
    <2>3. ASSUME NEW t \in Tasks, NEW w \in Workers, NEW s \in {"done", "failed"}, Finish(w, t, s)
          PROVE  NotFailed'
        <3>1. ~Queued(t) /\ \A c \in Callers : pc[c] = "startTask" => t \notin arg[c]
            BY <1>2, <2>3 DEF Finish, MayFinish, IInv, ItemSound, StartSound, Queued
        <3> QED BY <1>2, <2>3, <3>1 DEF Finish, SetStatus, TryStartAfterwards, Goto, Queued,
                                        NotFailed, IInv, TypeOK, Item
    <2>4. CASE UNCHANGED vars
        BY <1>2, <2>4 DEF vars, NotFailed
    <2> QED BY <1>2, <2>1, <2>2, <2>3, <2>4 DEF Next, DownloadEnds, CompleteTask, FailTask
<1> QED BY <1>1, <1>2, QueueInvariant, PTL DEF Spec

\* The heap carries nothing but waiting tasks of the queue, once each.
THEOREM QueueHeapSound == Spec => []HeapSound
<1>1. IInv /\ NotFailed => HeapSound
    BY DEF IInv, ItemSound, NotFailed, HeapSound
<1> QED BY QueueInvariant, QueueNotFailed, <1>1, PTL

\* The invariant says where a waiting task is.
LEMMA IInvPendingTracked == IInv => PendingTracked
<1> SUFFICES ASSUME IInv, NEW t \in tasks, status[t] = "pending"
             PROVE  /\ Queued(t) \/ \E c \in Callers : StartedBy(c, t)
                    /\ \A c \in Callers : StartedBy(c, t) => ~Queued(t)
                    /\ \A c, d \in Callers : StartedBy(c, t) /\ StartedBy(d, t) => c = d
    BY DEF PendingTracked
<1>1. Queued(t) \/ \E c \in Callers : StartedBy(c, t)
    BY DEF IInv, PendingKept
<1>2. \A c \in Callers : StartedBy(c, t) => ~Queued(t)
    BY DEF IInv, StartSound, StartedBy
<1>3. \A c, d \in Callers : StartedBy(c, t) /\ StartedBy(d, t) => c = d
    BY DEF IInv, StartSound, StartedBy
<1> QED BY <1>1, <1>2, <1>3

\* No waiting task is lost or started twice.
THEOREM QueuePendingTracked == Spec => []PendingTracked
BY QueueInvariant, IInvPendingTracked, PTL

-----------------------------------------------------------------------------
(* The order of the heap.                                                   *)

\* The position asked for is one of the queue.
LEMMA NewPositionInQueue ==
    ASSUME NEW n \in Nat \ {0}, NEW cur \in 0..(n - 1), NEW pos \in Int, NEW how \in Hows
    PROVE  NewPosition(how, pos, cur, n) \in 0..(n - 1)
BY DEF NewPosition, Clamp, Hows

\* Shifting reaches every index.
LEMMA ShiftedOnto ==
    ASSUME NEW n \in Nat \ {0}, NEW cur \in 0..(n - 1), NEW new \in 0..(n - 1)
    PROVE  \A k \in 0..(n - 1) : \E i \in 0..(n - 1) : ShiftedIndex(i, cur, new) = k
<1> TAKE k \in 0..(n - 1)
<1> DEFINE i == IF k = new THEN cur
                ELSE IF cur <= k /\ k < new THEN k + 1
                ELSE IF new < k /\ k <= cur THEN k - 1
                ELSE k
<1>1. i \in 0..(n - 1)
    OBVIOUS
<1>2. ShiftedIndex(i, cur, new) = k
    BY DEF ShiftedIndex
<1> QED BY <1>1, <1>2

\* Shifting keeps the order of all but the one that moves.
LEMMA ShiftedMonotone ==
    ASSUME NEW cur \in Int, NEW new \in Int, NEW i \in Int, NEW j \in Int,
           i # cur, j # cur, i < j
    PROVE  ShiftedIndex(i, cur, new) < ShiftedIndex(j, cur, new)
BY DEF ShiftedIndex

\* A drained heap yields each of its items once.
LEMMA DrainedOnce ==
    ASSUME TypeOK, ItemSound, NEW s \in PopOrders
    PROVE  /\ DOMAIN s = 0..(Cardinality(pq) - 1)
           /\ \A i, j \in DOMAIN s : s[i] = s[j] => i = j
<1> DEFINE n == Cardinality(pq)
<1>1. IsFiniteSet(pq) /\ n \in Nat
    BY HeapFinite
<1>2. s \in [0..(n - 1) -> pq] /\ \A e \in pq : \E i \in 0..(n - 1) : s[i] = e
    BY DEF PopOrders
<1> HIDE DEF n
<1>3. IsFiniteSet(0..(n - 1)) /\ Cardinality(0..(n - 1)) = n
    BY <1>1, FS_Interval
<1>4. s \in Surjection(0..(n - 1), pq)
    BY <1>2 DEF Surjection
<1>5. s \in Injection(0..(n - 1), pq)
    BY <1>3, <1>4, FS_SurjSameCardinalityImpliesInj DEF n
<1>6. DOMAIN s = 0..(n - 1)
    BY <1>2
<1>7. \A i, j \in 0..(n - 1) : s[i] = s[j] => i = j
    BY <1>5 DEF Injection, IsInjective
<1> QED BY <1>6, <1>7 DEF n

\* As many tasks wait as the heap has items.
LEMMA OneItemEach ==
    ASSUME TypeOK, ItemSound
    PROVE  Cardinality({e.task : e \in pq}) = Cardinality(pq)
<1> DEFINE waiting == {e.task : e \in pq}
           f == [e \in pq |-> e.task]
<1>1. f \in Bijection(pq, waiting)
    BY DEF Bijection, Injection, IsInjective, Surjection, ItemSound
<1>2. ExistsBijection(pq, waiting)
    BY <1>1 DEF ExistsBijection
<1> HIDE DEF waiting
<1>3. Cardinality(waiting) = Cardinality(pq)
    BY <1>2, HeapFinite, FS_Bijection
<1> QED BY <1>3 DEF waiting

\* ChangePosition moves one task of the queue.
LEMMA ChangePositionMovesOne ==
    ASSUME TypeOK, ItemSound,
           NEW c, NEW t, NEW pos \in Offsets, NEW how \in Hows, ChangePosition(c, t, pos, how)
    PROVE  MovesOne
<1> DEFINE n == Cardinality(pq)
           new(cur) == NewPosition(how, pos, cur, n)
           at(s)    == [e \in pq |-> CHOOSE i \in DOMAIN s : s[i] = e]
           to(s, cur, e) == ShiftedIndex(at(s)[e], cur, new(cur))
<1>0. PICK s \in PopOrders : \E cur \in DOMAIN s :
         /\ s[cur].task = t
         /\ pq' = {[task |-> e.task, priority |-> to(s, cur, e)] : e \in pq}
    BY DEF ChangePosition
<1>1. PICK cur \in DOMAIN s :
         /\ s[cur].task = t
         /\ pq' = {[task |-> e.task, priority |-> to(s, cur, e)] : e \in pq}
    BY <1>0
<1>2. n \in Nat /\ DOMAIN s = 0..(n - 1) /\ \A i, j \in DOMAIN s : s[i] = s[j] => i = j
    BY HeapFinite, DrainedOnce
<1>3. /\ s \in [0..(n - 1) -> pq]
      /\ \A e \in pq : \E i \in 0..(n - 1) : s[i] = e
      /\ \A i, j \in 0..(n - 1) : i < j => s[i].priority <= s[j].priority
    BY DEF PopOrders
<1>4. n \in Nat \ {0} /\ cur \in 0..(n - 1)
    BY <1>2
<1>5. new(cur) \in 0..(n - 1)
    BY <1>4, NewPositionInQueue, QueueAssumption
<1>6. \A e \in pq : at(s)[e] \in 0..(n - 1) /\ s[at(s)[e]] = e
    BY <1>2, <1>3
<1>7. \A i \in 0..(n - 1) : at(s)[s[i]] = i
    BY <1>2, <1>3, <1>6
<1> DEFINE prio(e) == to(s, cur, e)
           renumbered(u) == (CHOOSE e \in pq' : e.task = u).priority
           waiting == {e.task : e \in pq}
<1>8. pq' = {[task |-> e.task, priority |-> prio(e)] : e \in pq}
    BY <1>1
<1>9. \A e \in pq : prio(e) = ShiftedIndex(at(s)[e], cur, new(cur))
    OBVIOUS
<1> HIDE DEF n, new, at, to, prio
<1>10. ASSUME NEW e \in pq PROVE renumbered(e.task) = prio(e)
    <2> DEFINE x == CHOOSE d \in pq' : d.task = e.task
    <2>1. [task |-> e.task, priority |-> prio(e)] \in pq'
        BY <1>8
    <2>2. x \in pq' /\ x.task = e.task
        BY <2>1
    <2>3. PICK d \in pq : x = [task |-> d.task, priority |-> prio(d)]
        BY <1>8, <2>2
    <2>4. d = e
        BY <2>2, <2>3 DEF ItemSound
    <2>5. renumbered(e.task) = x.priority
        OBVIOUS
    <2> HIDE DEF x, renumbered
    <2>6. x.priority = prio(e)
        BY <2>3, <2>4
    <2> QED BY <2>5, <2>6
<1> HIDE DEF renumbered
<1>11. {renumbered(u) : u \in waiting} = 0..(n - 1)
    <2>1. ASSUME NEW e \in pq PROVE renumbered(e.task) \in 0..(n - 1)
        <3>1. at(s)[e] \in 0..(n - 1) /\ prio(e) = ShiftedIndex(at(s)[e], cur, new(cur))
            BY <1>6, <1>9
        <3>2. \A i \in 0..(n - 1) : ShiftedIndex(i, cur, new(cur)) \in 0..(n - 1)
            BY <1>4, <1>5 DEF ShiftedIndex
        <3> QED BY <1>10, <3>1, <3>2
    <2>2. ASSUME NEW k \in 0..(n - 1) PROVE \E u \in waiting : renumbered(u) = k
        <3>0. \A l \in 0..(n - 1) : \E i \in 0..(n - 1) : ShiftedIndex(i, cur, new(cur)) = l
            BY <1>4, <1>5, ShiftedOnto, Zenon
        <3>1. PICK i \in 0..(n - 1) : ShiftedIndex(i, cur, new(cur)) = k
            BY <3>0
        <3>2. s[i] \in pq /\ s[i].task \in waiting
            BY <1>3
        <3>3. renumbered(s[i].task) = k
            BY <1>7, <1>10, <1>9, <3>1, <3>2
        <3> QED BY <3>2, <3>3
    <2> QED BY <2>1, <2>2
<1>12. Cardinality(waiting) = n
    BY OneItemEach DEF n
<1>13. t \in waiting
    BY <1>1, <1>3, <1>4
<1>14. ASSUME NEW e \in pq, NEW f \in pq, t \notin {e.task, f.task}, e.priority < f.priority
       PROVE  renumbered(e.task) < renumbered(f.task)
    <2>1. e.priority \in Nat /\ f.priority \in Nat
        BY DEF TypeOK, Item
    <2>2. at(s)[e] # cur /\ at(s)[f] # cur
        BY <1>1, <1>6, <1>14
    <2>3. at(s)[e] \in Int /\ at(s)[f] \in Int /\ cur \in Int /\ new(cur) \in Int
        BY <1>2, <1>4, <1>5, <1>6
    <2>4. ~(at(s)[f] < at(s)[e]) /\ at(s)[e] # at(s)[f]
        BY <1>3, <1>6, <1>14, <2>1
    <2>5. at(s)[e] < at(s)[f]
        BY <2>3, <2>4
    <2>6. prio(e) < prio(f)
        BY <1>9, <2>2, <2>3, <2>5, ShiftedMonotone
    <2> QED BY <1>10, <2>6
<1>15. \E m \in waiting : \A e, f \in pq :
          m \notin {e.task, f.task} /\ e.priority < f.priority
          => renumbered(e.task) < renumbered(f.task)
    BY <1>13, <1>14
<1> QED BY <1>11, <1>12, <1>15 DEF MovesOne, renumbered

\* No other operation renumbers: it leaves the heap alone or changes which
\* tasks wait in it.
THEOREM QueueReorderMovesOne == Spec => ReorderMovesOne
<1>1. ASSUME IInv, [Next]_vars PROVE [MovesOne]_vars
    <2> DEFINE kept == {e.task : e \in pq} = {e.task : e \in pq'}
    <2>1. ASSUME NEW S, pq' = pq \ S PROVE kept => pq' = pq
        BY <1>1, <2>1 DEF IInv, ItemSound
    <2>2. ASSUME NEW t \in Tasks, NEW p, pq' = Push(t, p), ~Queued(t) PROVE ~kept
        <3>1. [task |-> t, priority |-> p] \in pq'
            BY <2>2 DEF Push
        <3>2. t \in {e.task : e \in pq'}
            BY <3>1
        <3> QED BY <2>2, <3>2 DEF Queued
    <2>3. ASSUME NEW ts, pq' = WithoutItem(ts) PROVE kept => pq' = pq
        <3>1. pq' = pq \ {e \in pq : e.task \in ts}
            BY <2>3 DEF WithoutItem
        <3> QED BY <2>1, <3>1
    <2>4. ASSUME NEW t \in Tasks, status[t] \notin {"pending", "failed"} PROVE ~Queued(t)
        BY <1>1, <2>4 DEF IInv, ItemSound, Queued
    <2>5. (kept => pq' = pq) => MovesOne
        BY DEF MovesOne
    <2>6. ASSUME NEW c \in Handlers, ClientStep(c) PROVE MovesOne
        <3>1. ASSUME NEW t \in Tasks, NEW p \in Priorities, Add(c, t, p) PROVE MovesOne
            BY <2>2, <2>4, <2>5, <3>1 DEF Add
        <3>2. ASSUME NEW t \in Tasks, Remove(c, t) PROVE MovesOne
            BY <2>3, <2>5, <3>2 DEF Remove
        <3>3. ASSUME NEW t \in Tasks, Resume(c, t) PROVE MovesOne
            BY <2>2, <2>4, <2>5, <3>3 DEF Resume
        <3>4. ASSUME NEW t \in Tasks, NEW pos \in Offsets, NEW how \in Hows,
                     ChangePosition(c, t, pos, how)
              PROVE  MovesOne
            BY <1>1, <3>4, ChangePositionMovesOne DEF IInv
        <3>5. CASE UNCHANGED pq
            BY <2>5, <3>5
        <3> QED BY <2>6, <3>1, <3>2, <3>3, <3>4, <3>5
                DEF ClientStep, Pause, SetPriority, SetMaxConcurrent
    <2>7. ASSUME NEW c \in Callers, Continue(c) PROVE MovesOne
        <3>1. CASE TryStartNext(c)
            BY <2>1, <2>5, <3>1 DEF TryStartNext
        <3>2. CASE UNCHANGED pq
            BY <2>5, <3>2
        <3> QED BY <2>7, <3>1, <3>2 DEF Continue, StartTask, Cancel, OnTaskStart, queueVars
    <2>8. ASSUME NEW t \in Tasks, DownloadEnds(t) PROVE MovesOne
        <3>1. UNCHANGED pq
            BY <2>8 DEF DownloadEnds, CompleteTask, FailTask, Finish
        <3> QED BY <2>5, <3>1
    <2> QED BY <1>1, <2>6, <2>7, <2>8 DEF Next
<1> QED BY <1>1, QueueInvariant, PTL DEF Spec, ReorderMovesOne

-----------------------------------------------------------------------------
(* The slots.                                                               *)

LEMMA StartersBound ==
    ASSUME IInv
    PROVE  /\ IsFiniteSet(Starters)
           /\ Cardinality(Starters) \in Nat /\ Cardinality(Handlers) \in Nat
           /\ Cardinality(Starters) <= Cardinality(Handlers)
<1>1. Starters \subseteq Handlers
    BY DEF IInv, StartSound, Starters
<1> QED BY <1>1, FS_Subset, FS_CardinalityType, QueueAssumption

\* The running tasks are finitely many.
LEMMA RunningFinite ==
    ASSUME TypeOK
    PROVE  IsFiniteSet(Running) /\ Cardinality(Running) \in Nat
<1>1. Running \subseteq Tasks
    BY DEF TypeOK, Running
<1> QED BY <1>1, FS_Subset, FS_CardinalityType, QueueAssumption

\* tryStartNext fills free slots and no more, and what it marks as running
\* are as many tasks as it counts.
LEMMA TryStartNextSlots ==
    ASSUME IInv, NEW c \in Callers, TryStartNext(c)
    PROVE  \E k \in Nat, ts \in SUBSET Tasks :
              /\ activeCount' = activeCount + k
              /\ k # 0 => activeCount + k <= maxConcurrent
              /\ IsFiniteSet(ts) /\ Cardinality(ts) <= k
              /\ Running' \subseteq Running \cup ts
              /\ pq' # {} => activeCount' >= maxConcurrent
<1>1. PICK S \in SUBSET pq :
         LET started == {e.task : e \in Startable(S)} IN
         /\ Pops(S)
         /\ pq' = pq \ S
         /\ status' = [t \in Tasks |-> IF t \in started THEN "downloading" ELSE status[t]]
         /\ activeCount' = activeCount + Cardinality(Startable(S))
    BY DEF TryStartNext
<1> DEFINE Q == Startable(S)
           ts == {e.task : e \in Q}
           f == [e \in Q |-> e.task]
<1>2. IsFiniteSet(Q) /\ Cardinality(Q) \in Nat
    <2>1. IsFiniteSet(pq) /\ Q \subseteq pq
        BY HeapFinite DEF IInv, Startable
    <2> QED BY <2>1, FS_Subset, FS_CardinalityType
<1>3. IsFiniteSet(ts) /\ Cardinality(ts) <= Cardinality(Q)
    <2>1. f \in Surjection(Q, ts)
        BY DEF Surjection
    <2> HIDE DEF f, ts, Q
    <2> QED BY <2>1, <1>2, FS_Surjection
<1>4. ts \in SUBSET Tasks
    BY DEF Startable, IInv, TypeOK, Item
<1>5. Running' \subseteq Running \cup ts
    BY <1>1 DEF Running, TryStartNext, IInv, TypeOK
<1>6. activeCount \in Int /\ maxConcurrent \in Int
    BY QueueAssumption DEF IInv, TypeOK
<1>7. Cardinality(Q) # 0 => activeCount + Cardinality(Q) <= maxConcurrent
    <2>1. S = {} => Cardinality(Q) = 0
        BY FS_EmptySet DEF Startable
    <2> QED BY <1>1, <1>2, <1>6, <2>1 DEF Pops
<1>8. pq' # {} => activeCount' >= maxConcurrent
    <2>1. S = {} => Cardinality(Q) = 0
        BY FS_EmptySet DEF Startable
    <2> QED BY <1>1, <1>2, <1>6, <2>1 DEF Pops, HasFreeSlot
<1>9. activeCount' = activeCount + Cardinality(Q)
    BY <1>1
<1> HIDE DEF ts, Q
<1> QED BY <1>2, <1>3, <1>4, <1>5, <1>7, <1>8, <1>9

\* A step that starts nothing and leaves activeCount alone.
LEMMA FewerRunning ==
    ASSUME TypeOK, RunningCounted, Running' \subseteq Running, activeCount' = activeCount
    PROVE  RunningCounted'
<1>1. IsFiniteSet(Running) /\ Cardinality(Running) \in Nat /\ activeCount \in Int
    BY RunningFinite DEF TypeOK
<1>2. Cardinality(Running') <= Cardinality(Running) /\ Cardinality(Running') \in Nat
    BY <1>1, FS_Subset, FS_CardinalityType
<1> QED BY <1>1, <1>2 DEF RunningCounted

LEMMA InitRunningCounted == Init => RunningCounted
<1>1. Init => Running = {}
    BY DEF Init, Running
<1> QED BY <1>1, FS_EmptySet DEF Init, RunningCounted

\* Every step of the queue keeps its running tasks counted.
LEMMA NextRunningCounted ==
    ASSUME IInv, RunningCounted, [Next]_vars
    PROVE  RunningCounted'
<1>0. IsFiniteSet(Running) /\ Cardinality(Running) \in Nat /\ activeCount \in Int
    BY RunningFinite DEF IInv, TypeOK
<1>1. ASSUME Running' \subseteq Running, activeCount' = activeCount PROVE RunningCounted'
    BY <1>1, FewerRunning DEF IInv
<1>2. ASSUME NEW t \in Running, Running' \subseteq Running \ {t},
             activeCount' = activeCount - 1
      PROVE  RunningCounted'
    <2>1. IsFiniteSet(Running \ {t}) /\ Cardinality(Running \ {t}) = Cardinality(Running) - 1
        BY <1>0, <1>2, FS_RemoveElement
    <2>2. Cardinality(Running') <= Cardinality(Running \ {t}) /\ Cardinality(Running') \in Nat
        BY <1>2, <2>1, FS_Subset, FS_CardinalityType
    <2> QED BY <1>0, <1>2, <2>1, <2>2 DEF RunningCounted
<1>3. ASSUME NEW k \in Nat, NEW ts, IsFiniteSet(ts), Cardinality(ts) <= k,
             Running' \subseteq Running \cup ts, activeCount' = activeCount + k
      PROVE  RunningCounted'
    <2>1. /\ IsFiniteSet(Running \cup ts) /\ Cardinality(ts) \in Nat
          /\ Cardinality(Running \cup ts) <= Cardinality(Running) + Cardinality(ts)
        <3>1. /\ IsFiniteSet(Running \cup ts) /\ IsFiniteSet(Running \cap ts)
              /\ Cardinality(Running \cup ts)
                 = Cardinality(Running) + Cardinality(ts) - Cardinality(Running \cap ts)
            BY <1>0, <1>3, FS_Union, FS_Intersection
        <3> QED BY <1>0, <1>3, <3>1, FS_CardinalityType
    <2>2. /\ Cardinality(Running') <= Cardinality(Running \cup ts)
          /\ Cardinality(Running') \in Nat /\ Cardinality(Running \cup ts) \in Nat
        BY <1>3, <2>1, FS_Subset, FS_CardinalityType
    <2> QED BY <1>0, <1>3, <2>1, <2>2 DEF RunningCounted
<1>4. ASSUME NEW c \in Handlers, ClientStep(c) PROVE RunningCounted'
    <2>1. ASSUME NEW t \in Tasks, Remove(c, t) PROVE RunningCounted'
        <3>1. CASE status[t] = "downloading"
            <4>1. t \in Running /\ Running' \subseteq Running \ {t}
                BY <2>1, <3>1 DEF Remove, Running
            <4> QED BY <1>2, <2>1, <3>1, <4>1 DEF Remove
        <3>2. CASE status[t] # "downloading"
            <4>1. Running' \subseteq Running
                BY <2>1 DEF Remove, Running
            <4> QED BY <1>1, <2>1, <3>2, <4>1 DEF Remove
        <3> QED BY <3>1, <3>2
    <2>2. ASSUME NEW t \in Tasks, Pause(c, t) PROVE RunningCounted'
        <3>1. t \in Running /\ Running' \subseteq Running \ {t}
            BY <2>2 DEF Pause, Running, SetStatus, IInv, TypeOK
        <3> QED BY <1>2, <2>2, <3>1 DEF Pause
    <2>3. ASSUME NEW t \in Tasks, NEW p \in Priorities, Add(c, t, p) PROVE RunningCounted'
        <3>1. Running' \subseteq Running
            BY <2>3 DEF Add, Running, SetStatus, IInv, TypeOK
        <3> QED BY <1>1, <2>3, <3>1 DEF Add
    <2>4. ASSUME NEW t \in Tasks, Resume(c, t) PROVE RunningCounted'
        <3>1. Running' \subseteq Running
            BY <2>4 DEF Resume, Running, SetStatus, IInv, TypeOK
        <3> QED BY <1>1, <2>4, <3>1 DEF Resume
    <2>5. ASSUME tasks' \subseteq tasks, UNCHANGED <<status, activeCount>>
          PROVE  RunningCounted'
        <3>1. Running' \subseteq Running
            BY <2>5 DEF Running
        <3> QED BY <1>1, <2>5, <3>1
    <2> QED BY <1>4, <2>1, <2>2, <2>3, <2>4, <2>5
            DEF ClientStep, SetPriority, ChangePosition,
                SetMaxConcurrent
<1>5. ASSUME NEW c \in Callers, Continue(c) PROVE RunningCounted'
    <2>1. CASE TryStartNext(c)
        <3>1. PICK k \in Nat, ts \in SUBSET Tasks :
                 /\ activeCount' = activeCount + k
                 /\ IsFiniteSet(ts) /\ Cardinality(ts) <= k
                 /\ Running' \subseteq Running \cup ts
            BY <2>1, TryStartNextSlots
        <3> QED BY <1>3, <3>1
    <2>2. CASE StartTask(c)
        <3>1. PICK t \in Tasks : arg[c] = {t}
            BY <2>2 DEF StartTask, IInv, StartSound
        <3>2. Running' \subseteq Running \cup {t}
            BY <2>2, <3>1 DEF StartTask, Running, IInv, TypeOK
        <3>3. IsFiniteSet({t}) /\ Cardinality({t}) = 1
            BY FS_Singleton, Zenon
        <3>4. activeCount' = activeCount + 1 /\ Cardinality({t}) <= 1 /\ 1 \in Nat
            BY <2>2, <3>3 DEF StartTask
        <3> QED BY <1>3, <3>2, <3>3, <3>4
    <2>3. CASE Cancel(c)
        <3>1. Running' \subseteq Running
            BY <2>3 DEF Cancel, Running, IInv, TypeOK
        <3> QED BY <1>1, <2>3, <3>1 DEF Cancel
    <2>4. CASE \E u \in Tasks : OnTaskStart(c, u)
        <3>1. Running' \subseteq Running
            BY <2>4 DEF OnTaskStart, queueVars, Running
        <3> QED BY <1>1, <2>4, <3>1 DEF OnTaskStart, queueVars
    <2> QED BY <1>5, <2>1, <2>2, <2>3, <2>4 DEF Continue
<1>6. ASSUME NEW t \in Tasks, NEW w \in Workers, NEW s \in {"done", "failed"}, Finish(w, t, s)
      PROVE  RunningCounted'
    <2>1. t \in Running /\ Running' \subseteq Running \ {t}
        BY <1>6 DEF Finish, MayFinish, Running, SetStatus, IInv, TypeOK
    <2>2. activeCount >= 1
        <3>1. Cardinality(Running) # 0
            BY <1>0, <2>1, FS_EmptySet
        <3> QED BY <1>0, <3>1 DEF RunningCounted
    <2>3. activeCount' = activeCount - 1
        BY <1>0, <1>6, <2>2 DEF Finish
    <2> QED BY <1>2, <2>1, <2>3
<1>7. CASE UNCHANGED vars
    <2>1. Running' \subseteq Running
        BY <1>7 DEF vars, Running
    <2> QED BY <1>1, <1>7, <2>1 DEF vars
<1> QED BY <1>4, <1>5, <1>6, <1>7 DEF Next, DownloadEnds, CompleteTask, FailTask

\* Running tasks are always counted, so a slot is never freed twice.
THEOREM QueueRunningCounted == Spec => []RunningCounted
<1>1. IInv /\ RunningCounted /\ [Next]_vars => RunningCounted'
    BY NextRunningCounted
<1> QED BY InitRunningCounted, <1>1, QueueInvariant, PTL DEF Spec

LEMMA InitSlotsPromised == Init => SlotsPromised
<1>1. Init => Starters = {}
    BY DEF Init, Starters
<1>2. Cardinality(Handlers) \in Nat
    BY FS_CardinalityType, QueueAssumption
<1>3. Cardinality({}) = 0
    BY FS_EmptySet
<1>4. ASSUME Init PROVE Cardinality(Starters) = 0 /\ activeCount = 0
    BY <1>1, <1>3, <1>4 DEF Init
<1> QED BY <1>2, <1>4, QueueAssumption DEF SlotsPromised

\* Every step of the queue keeps the promises of slots within bounds.
LEMMA NextSlotsPromised ==
    ASSUME IInv, RunningCounted, SlotsPromised, [Next]_vars
    PROVE  SlotsPromised'
<1>0. /\ IsFiniteSet(Starters)
      /\ Cardinality(Starters) \in Nat /\ Cardinality(Handlers) \in Nat
      /\ Cardinality(Starters) <= Cardinality(Handlers)
      /\ activeCount \in Int /\ maxConcurrent \in Int /\ maxConcurrent <= MaxLimit
      /\ MaxLimit \in Nat
    BY StartersBound, QueueAssumption DEF IInv, TypeOK
<1>1. IInv'
    BY NextIInv
<1>2. /\ Cardinality(Starters') \in Nat
      /\ Cardinality(Starters') <= Cardinality(Handlers)
    <2>1. Starters' \subseteq Handlers
        BY <1>1 DEF IInv, StartSound, Starters
    <2> QED BY <2>1, FS_Subset, FS_CardinalityType, QueueAssumption
<1>3. ASSUME Starters' = Starters, activeCount' \in Int, activeCount' <= activeCount
      PROVE  SlotsPromised'
    BY <1>0, <1>3 DEF SlotsPromised
<1>4. ASSUME activeCount < maxConcurrent, activeCount' = activeCount PROVE SlotsPromised'
    BY <1>0, <1>2, <1>4 DEF SlotsPromised
<1>5. ASSUME NEW c \in Callers, pc[c] # "startTask",
             \/ UNCHANGED pc
             \/ \E step \in Steps \ {"startTask"} : pc' = [pc EXCEPT ![c] = step]
      PROVE  Starters' = Starters
    BY <1>5 DEF Starters, IInv, TypeOK
<1>6. ASSUME NEW c \in Handlers, ClientStep(c) PROVE SlotsPromised'
    <2>1. CASE \E t \in Tasks : (\E p \in Priorities : Add(c, t, p)) \/ Resume(c, t)
        <3>1. CASE HasFreeSlot
            BY <1>4, <2>1, <3>1 DEF Add, Resume, HasFreeSlot
        <3>2. CASE ~HasFreeSlot
            <4>1. UNCHANGED <<pc, activeCount>>
                BY <2>1, <3>2 DEF Add, Resume
            <4> QED BY <1>0, <1>3, <4>1 DEF Starters
        <3> QED BY <3>1, <3>2
    <2>2. ASSUME \/ \E t \in Tasks : Remove(c, t) \/ Pause(c, t)
                 \/ \E t \in Tasks, p \in Priorities : SetPriority(c, t, p)
                 \/ \E t \in Tasks, pos \in Offsets, how \in Hows :
                       ChangePosition(c, t, pos, how)
                 \/ \E n \in 1..MaxLimit : SetMaxConcurrent(c, n)
          PROVE  SlotsPromised'
        <3>1. /\ pc[c] # "startTask"
              /\ \/ UNCHANGED pc
                 \/ \E step \in Steps \ {"startTask"} : pc' = [pc EXCEPT ![c] = step]
            BY <2>2 DEF Remove, Pause, SetPriority, ChangePosition,
                        SetMaxConcurrent, TryStartAfterwards, Goto, Steps
        <3>2. activeCount' = activeCount \/ activeCount' = activeCount - 1
            BY <2>2 DEF Remove, Pause, SetPriority, ChangePosition,
                        SetMaxConcurrent
        <3> QED BY <1>0, <1>3, <1>5, <3>1, <3>2 DEF Callers
    <2> QED BY <1>6, <2>1, <2>2 DEF ClientStep
<1>7. ASSUME NEW c \in Callers, Continue(c) PROVE SlotsPromised'
    <2>1. CASE TryStartNext(c)
        <3>1. PICK k \in Nat :
                 /\ activeCount' = activeCount + k
                 /\ k # 0 => activeCount + k <= maxConcurrent
            BY <2>1, TryStartNextSlots
        <3>2. Starters' = Starters
            BY <1>5, <2>1 DEF TryStartNext, Return, Goto, Steps
        <3> QED BY <1>0, <3>1, <3>2 DEF SlotsPromised
    <2>2. CASE StartTask(c)
        <3>1. c \in Starters /\ Starters' = Starters \ {c}
            BY <2>2 DEF StartTask, Goto, Starters, IInv, TypeOK
        <3>2. Cardinality(Starters') = Cardinality(Starters) - 1
            BY <1>0, <3>1, FS_RemoveElement
        <3> QED BY <1>0, <2>2, <3>2 DEF StartTask, SlotsPromised
    <2>3. CASE Cancel(c)
        <3>1. Starters' = Starters
            BY <1>5, <2>3 DEF Cancel, Return, Goto, Steps
        <3> QED BY <1>0, <1>3, <2>3, <3>1 DEF Cancel
    <2>4. CASE \E u \in Tasks : OnTaskStart(c, u)
        <3>1. Starters' = Starters
            BY <1>5, <2>4 DEF OnTaskStart, Return, Goto, Steps
        <3> QED BY <1>0, <1>3, <2>4, <3>1 DEF OnTaskStart, queueVars
    <2> QED BY <1>7, <2>1, <2>2, <2>3, <2>4 DEF Continue
<1>8. ASSUME NEW t \in Tasks, NEW w \in Workers, NEW s \in {"done", "failed"}, Finish(w, t, s)
      PROVE  SlotsPromised'
    <2>1. Starters' = Starters
        BY <1>5, <1>8 DEF Finish, TryStartAfterwards, Goto, Steps, Callers
    <2>2. activeCount >= 1
        <3>1. t \in Running
            BY <1>8 DEF Finish, MayFinish, Running
        <3>2. Cardinality(Running) \in Nat /\ Cardinality(Running) # 0
            BY <3>1, RunningFinite, FS_EmptySet DEF IInv
        <3> QED BY <1>0, <3>2 DEF RunningCounted
    <2> QED BY <1>0, <1>3, <1>8, <2>1, <2>2 DEF Finish
<1>9. CASE UNCHANGED vars
    <2>1. Starters' = Starters /\ activeCount' = activeCount
        BY <1>9 DEF vars, Starters
    <2> QED BY <1>0, <1>3, <2>1
<1> QED BY <1>6, <1>7, <1>8, <1>9 DEF Next, DownloadEnds, CompleteTask, FailTask

LEMMA SlotsBound == IInv /\ SlotsPromised => OvershootBounded
BY StartersBound, QueueAssumption DEF SlotsPromised, OvershootBounded, IInv, TypeOK

\* Concurrent requests pass the limit by at most the number of handlers.
THEOREM QueueOvershootBounded == Spec => []OvershootBounded
<1>1. IInv /\ RunningCounted /\ SlotsPromised /\ [Next]_vars => SlotsPromised'
    BY NextSlotsPromised
<1> QED BY InitSlotsPromised, <1>1, SlotsBound, QueueInvariant, QueueRunningCounted, PTL DEF Spec

-----------------------------------------------------------------------------
\* Without Remove in the workload a free slot is noticed by somebody.
THEOREM QueueFreeSlotNoticed ==
    ASSUME "Remove" \notin ClientOps
    PROVE  Spec => []FreeSlotNoticed
<1>1. Init => FreeSlotNoticed
    BY DEF Init, FreeSlotNoticed
<1>2. ASSUME IInv, FreeSlotNoticed, [Next]_vars PROVE FreeSlotNoticed'
    <2>0. activeCount \in Int /\ maxConcurrent \in Int
        BY <1>2, QueueAssumption DEF IInv, TypeOK
    <2>1. ASSUME NEW c \in Callers, pc' = [pc EXCEPT ![c] = "tryStartNext"]
          PROVE  FreeSlotNoticed'
        BY <1>2, <2>1 DEF FreeSlotNoticed, IInv, TypeOK
    <2>2. ASSUME NEW c \in Callers, pc[c] # "tryStartNext",
                 UNCHANGED pc \/ \E step \in Steps : pc' = [pc EXCEPT ![c] = step],
                 pq' # {} => pq # {}, activeCount' >= activeCount, activeCount' \in Int,
                 maxConcurrent' = maxConcurrent
          PROVE  FreeSlotNoticed'
        BY <1>2, <2>0, <2>2 DEF FreeSlotNoticed, IInv, TypeOK
    <2>3. ASSUME activeCount' >= maxConcurrent' PROVE FreeSlotNoticed'
        BY <2>3 DEF FreeSlotNoticed
    <2>4. ASSUME NEW c \in Handlers, ClientStep(c) PROVE FreeSlotNoticed'
        <3>1. CASE \E t \in Tasks : (\E p \in Priorities : Add(c, t, p)) \/ Resume(c, t)
            <4>1. CASE HasFreeSlot
                BY <2>0, <2>2, <3>1, <4>1 DEF Add, Resume, Goto, Steps, Callers
            <4>2. CASE ~HasFreeSlot
                BY <2>0, <2>3, <3>1, <4>2 DEF Add, Resume, HasFreeSlot
            <4> QED BY <4>1, <4>2
        <3>2. CASE \/ \E t \in Tasks : Pause(c, t)
                   \/ \E n \in 1..MaxLimit : SetMaxConcurrent(c, n)
            BY <2>1, <3>2 DEF Pause, SetMaxConcurrent, TryStartAfterwards, Goto, Callers
        <3>3. ASSUME \E t \in Tasks, p \in Priorities : SetPriority(c, t, p)
              PROVE  FreeSlotNoticed'
            <4>1. /\ pc[c] = "idle" /\ UNCHANGED <<pc, activeCount, maxConcurrent>>
                  /\ pq' \subseteq pq
                BY <3>3 DEF SetPriority
            <4> QED BY <2>0, <2>2, <4>1 DEF Callers
        <3>4. ASSUME NEW t \in Tasks, NEW pos \in Offsets, NEW how \in Hows,
                     ChangePosition(c, t, pos, how)
              PROVE  FreeSlotNoticed'
            <4>1. pc[c] = "idle" /\ UNCHANGED <<pc, activeCount, maxConcurrent>>
                BY <3>4 DEF ChangePosition
            <4>2. pq' # {} => pq # {}
                BY <1>2, <3>4, ReorderKeepsTasks DEF IInv
            <4> QED BY <2>0, <2>2, <4>1, <4>2 DEF Callers
        <3> QED BY <2>4, <3>1, <3>2, <3>3, <3>4 DEF ClientStep
    <2>5. ASSUME NEW c \in Callers, Continue(c) PROVE FreeSlotNoticed'
        <3>1. CASE TryStartNext(c)
            <4>1. pq' # {} => activeCount' >= maxConcurrent
                BY <1>2, <3>1, TryStartNextSlots
            <4> QED BY <3>1, <4>1 DEF TryStartNext, FreeSlotNoticed
        <3>2. CASE StartTask(c)
            <4>1. pc[c] # "tryStartNext" /\ pc' = [pc EXCEPT ![c] = "onTaskStart"]
                BY <3>2 DEF StartTask, Goto
            <4>2. pq' = pq /\ activeCount' = activeCount + 1 /\ maxConcurrent' = maxConcurrent
                BY <3>2 DEF StartTask
            <4> QED BY <1>2, <2>0, <4>1, <4>2 DEF FreeSlotNoticed, IInv, TypeOK
        <3>3. CASE Cancel(c)
            <4>1. pc[c] # "tryStartNext" /\ pc' = [pc EXCEPT ![c] = "idle"]
                BY <3>3 DEF Cancel, Return, Goto
            <4>2. pq' = pq /\ activeCount' = activeCount /\ maxConcurrent' = maxConcurrent
                BY <3>3 DEF Cancel
            <4> QED BY <1>2, <2>0, <4>1, <4>2 DEF FreeSlotNoticed, IInv, TypeOK
        <3>4. CASE \E u \in Tasks : OnTaskStart(c, u)
            BY <2>0, <2>2, <3>4 DEF OnTaskStart, Return, Goto, Steps, queueVars
        <3> QED BY <2>5, <3>1, <3>2, <3>3, <3>4 DEF Continue
    <2>6. ASSUME NEW t \in Tasks, NEW w \in Workers, NEW s \in {"done", "failed"}, Finish(w, t, s)
          PROVE  FreeSlotNoticed'
        BY <2>1, <2>6 DEF Finish, TryStartAfterwards, Goto, Callers
    <2>7. CASE UNCHANGED vars
        BY <1>2, <2>7 DEF vars, FreeSlotNoticed
    <2> QED BY <1>2, <2>4, <2>5, <2>6, <2>7 DEF Next, DownloadEnds, CompleteTask, FailTask
<1> QED BY <1>1, <1>2, QueueInvariant, PTL DEF Spec

-----------------------------------------------------------------------------
(* The queue under the manager.                                             *)

\* Every step of the manager is a step of the queue, leaves the queue alone,
\* takes stopped tasks out of it, or fails a task without asking it.
LEMMA ManagerStepOnQueue ==
    ASSUME TypeOK, [MNext]_allVars
    PROVE  \/ [Next]_vars
           \/ \E c \in Handlers : PurgeStopped(c) \/ \E t \in Tasks : RemoveStopped(c, t)
           \/ \E w \in Downloads : SetError(w) /\ ~Ended(w)
<1> DEFINE Goal == \/ [Next]_vars
                   \/ \E c \in Handlers : PurgeStopped(c) \/ \E t \in Tasks : RemoveStopped(c, t)
                   \/ \E w \in Downloads : SetError(w) /\ ~Ended(w)
<1>1. ASSUME NEW c \in Handlers, ClientStep(c) PROVE Goal
    BY <1>1 DEF Next
<1>2. ASSUME NEW c \in Handlers, PurgeStep(c) PROVE Goal
    BY <1>2 DEF PurgeStep
<1>3. ASSUME NEW c \in Callers, CallerStep(c) PROVE Goal
    <2>1. Continue(c)
        BY <1>3 DEF CallerStep, Continue, StartDownload
    <2> QED BY <2>1 DEF Next
<1>4. ASSUME NEW c \in Workers, NEW t, NEW s \in {"done", "failed"}, Report(c, t, s)
      PROVE  Goal
    <2>1. CASE UNCHANGED vars
        BY <2>1
    <2>2. CASE Finish(c, t, s)
        <3>1. t \in Tasks
            BY <2>2 DEF Finish, MayFinish, TypeOK
        <3>2. DownloadEnds(t)
            BY <2>2 DEF DownloadEnds, CompleteTask, FailTask
        <3> QED BY <3>1, <3>2 DEF Next
    <2> QED BY <1>4, <2>1, <2>2 DEF Report
<1>5. ASSUME NEW w \in Downloads, WorkerStep(w) PROVE Goal
    <2>1. CASE CreateFails(w) \/ DownloadFails(w) \/ VerifyFails(w)
        BY <2>1 DEF CreateFails, DownloadFails, VerifyFails, WorkerAt, Ended
    <2>2. CASE Reports(w)
        <3>1. w \in Workers
            BY ManagerAssumption
        <3>2. Report(w, wtask[w], "failed") \/ Report(w, wtask[w], "done")
            BY <2>2 DEF Reports
        <3> QED BY <1>4, <3>1, <3>2
    <2>3. CASE CreateOK(w) \/ DownloadOK(w) \/ DownloadCancelled(w) \/ VerifyOK(w) \/ Exit(w)
        <3>1. UNCHANGED vars
            BY <2>3 DEF CreateOK, DownloadOK, DownloadCancelled, VerifyOK, Exit, OnlyWorker
        <3> QED BY <3>1
    <2> QED BY <1>5, <2>1, <2>2, <2>3 DEF WorkerStep
<1>6. ASSUME NEW m \in Monitors, MonitorStep(m) PROVE Goal
    <2>1. CASE MonitorFails(m)
        <3>1. m \in Workers
            BY ManagerAssumption
        <3> QED BY <1>4, <2>1, <3>1 DEF MonitorFails
    <2>2. CASE MonitorTick(m) \/ MonitorDone(m) \/ MonitorDelete(m) \/ MonitorEnds(m)
        <3>1. UNCHANGED vars
            BY <2>2 DEF MonitorTick, MonitorDone, MonitorDelete, MonitorEnds
        <3> QED BY <3>1
    <2> QED BY <1>6, <2>1, <2>2 DEF MonitorStep
<1>7. CASE Stop
    <2>1. UNCHANGED vars
        BY <1>7 DEF Stop, CloseStopCh, CancelAll, StopReturns
    <2> QED BY <2>1
<1>8. CASE UNCHANGED allVars
    BY <1>8 DEF allVars
<1>9. CASE MNext
    BY <1>1, <1>2, <1>3, <1>5, <1>6, <1>7, <1>9 DEF MNext
<1> QED BY <1>8, <1>9

\* A task that is failed behind the queue's back keeps its item and its
\* starter, and the queue copes.
LEMMA SetErrorQueueInv ==
    ASSUME QueueInv, NEW w \in Downloads, SetError(w)
    PROVE  QueueInv'
<1>1. /\ status' = [status EXCEPT ![wtask[w]] = "failed"]
      /\ UNCHANGED <<tasks, priority, pq, activeCount, maxConcurrent, pc, arg>>
    BY DEF SetError, SetStatus
<1>2. TypeOK /\ ItemSound /\ StartSound /\ NoneUnknown /\ PendingKept /\ CancelSound
    BY DEF QueueInv, IInv
<1>3. \A t \in Tasks : status'[t] = status[t] \/ status'[t] = "failed"
    BY <1>1, <1>2 DEF TypeOK
<1>4. TypeOK'
    BY <1>1, <1>2 DEF TypeOK, Statuses
<1>5. ItemSound'
    BY <1>1, <1>2, <1>3 DEF ItemSound, TypeOK, Item
<1>6. StartSound'
    BY <1>1, <1>2, <1>3 DEF StartSound, Queued
<1>7. NoneUnknown'
    BY <1>1, <1>2, <1>3 DEF NoneUnknown, TypeOK
<1>8. PendingKept'
    BY <1>1, <1>2, <1>3 DEF PendingKept, Queued, StartedBy, TypeOK
<1>9. CancelSound'
    BY <1>1, <1>2, <1>3 DEF CancelSound, TypeOK
<1>10. RunningCounted'
    <2>1. Running' \subseteq Running
        BY <1>1, <1>2, <1>3 DEF Running, TypeOK
    <2> QED BY <1>1, <1>2, <2>1, FewerRunning DEF QueueInv
<1>11. SlotsPromised'
    BY <1>1 DEF QueueInv, SlotsPromised, Starters
<1> QED BY <1>4, <1>5, <1>6, <1>7, <1>8, <1>9, <1>10, <1>11 DEF QueueInv, IInv

\* Purging takes items along with their tasks.
LEMMA PurgeQueueInv ==
    ASSUME QueueInv, NEW c \in Handlers,
           PurgeStopped(c) \/ \E t \in Tasks : RemoveStopped(c, t)
    PROVE  QueueInv'
<1>1. PICK ts : /\ pc[c] = "idle" /\ tasks' = tasks \ ts /\ pq' = WithoutItem(ts)
                /\ UNCHANGED <<status, priority, activeCount, maxConcurrent, pc, arg>>
    BY DEF PurgeStopped, RemoveStopped
<1>2. IInv'
    <2>1. c \in Callers /\ activeCount' \in Int
        BY <1>1 DEF Callers, QueueInv, IInv, TypeOK
    <2> QED BY <1>1, <2>1, RemovalIInv DEF QueueInv
<1>3. RunningCounted'
    <2>1. Running' \subseteq Running
        BY <1>1 DEF Running
    <2> QED BY <1>1, <2>1, FewerRunning DEF QueueInv, IInv
<1>4. SlotsPromised'
    BY <1>1 DEF QueueInv, SlotsPromised, Starters
<1> QED BY <1>2, <1>3, <1>4 DEF QueueInv

LEMMA InitQueueInv == Init => QueueInv
BY InitIInv, InitRunningCounted, InitSlotsPromised DEF QueueInv

LEMMA NextQueueInv ==
    ASSUME QueueInv, [MNext]_allVars
    PROVE  QueueInv'
<1>1. CASE [Next]_vars
    BY <1>1, NextIInv, NextRunningCounted, NextSlotsPromised DEF QueueInv
<1> QED BY <1>1, ManagerStepOnQueue, SetErrorQueueInv, PurgeQueueInv DEF QueueInv, IInv

-----------------------------------------------------------------------------
(* The manager's own state.                                                 *)

\* A step of a download goroutine other than its end, seen from the manager:
\* it goes on to a step of its own, and perhaps starts its monitor.
LEMMA WorkerMoves ==
    ASSUME ManagerTypes, NEW w \in Downloads, WorkerStep(w), ~Exit(w)
    PROVE  /\ wpc[w] # "free"
           /\ \E step \in WorkerSteps \ {"free"} : wpc' = [wpc EXCEPT ![w] = step]
           /\ UNCHANGED <<active, wtask, cancelled, victim, stop>>
           /\ \/ UNCHANGED <<watched, mpc>>
              \/ \E m \in Monitors : /\ watched' = [watched EXCEPT ![m] = w]
                                     /\ mpc' = [mpc EXCEPT ![m] = "watch"]
<1> USE DEF WorkerAt, WorkerGoto, WorkerSteps
<1>1. CASE CreateOK(w)
    BY <1>1 DEF CreateOK
<1>2. CASE CreateFails(w) \/ DownloadFails(w) \/ VerifyFails(w)
    BY <1>2 DEF CreateFails, DownloadFails, VerifyFails, SetError
<1>3. CASE DownloadOK(w) \/ DownloadCancelled(w) \/ VerifyOK(w)
    BY <1>3 DEF DownloadOK, DownloadCancelled, VerifyOK, OnlyWorker
<1>4. CASE Reports(w)
    BY <1>4 DEF Reports
<1> QED BY <1>1, <1>2, <1>3, <1>4 DEF WorkerStep

\* A step of a monitor, seen from the manager: it never starts a download.
LEMMA MonitorMoves ==
    ASSUME ManagerTypes, HasTask, NEW m \in Monitors, MonitorStep(m)
    PROVE  /\ mpc[m] # "off"
           /\ \E step \in MonitorSteps : mpc' = [mpc EXCEPT ![m] = step]
           /\ UNCHANGED <<wtask, wpc, stop>>
           /\ UNCHANGED active \/ active' = Unregister(wtask[watched[m]])
           /\ cancelled' = cancelled \/ \E w \in Downloads : cancelled' = cancelled \cup {w}
           /\ \/ UNCHANGED watched
              \/ watched' = [watched EXCEPT ![m] = None] /\ mpc' = [mpc EXCEPT ![m] = "off"]
           /\ \E w \in Downloads \cup {None} : victim' = [victim EXCEPT ![m] = w]
<1> USE DEF MonitorAt, MonitorGoto, MonitorSteps
<1>0. victim = [victim EXCEPT ![m] = victim[m]] /\ victim[m] \in Downloads \cup {None}
    BY DEF ManagerTypes
<1>1. CASE MonitorTick(m)
    <2>1. wtask[watched[m]] \in Tasks
        BY <1>1 DEF MonitorTick, HasTask
    <2>2. active[wtask[watched[m]]] \in Downloads
        BY <1>1, <2>1 DEF MonitorTick, MonitoredTask, Registered, ManagerTypes
    <2> QED BY <1>1, <2>2 DEF MonitorTick, MonitoredTask
<1>2. CASE MonitorDone(m)
    BY <1>0, <1>2 DEF MonitorDone
<1>3. CASE MonitorDelete(m)
    BY <1>0, <1>3 DEF MonitorDelete, MonitoredTask
<1>4. CASE MonitorFails(m)
    BY <1>0, <1>4 DEF MonitorFails
<1>5. CASE MonitorEnds(m)
    BY <1>5 DEF MonitorEnds
<1> QED BY <1>1, <1>2, <1>3, <1>4, <1>5 DEF MonitorStep

\* What the manager's own steps keep.
LEMMA NextManager ==
    ASSUME ManagerTypes, HasTask, StoppedForGood, [MNext]_allVars
    PROVE  ManagerTypes' /\ HasTask' /\ StoppedForGood'
<1> USE DEF Ended
<1>1. ASSUME UNCHANGED mgrVars PROVE ManagerTypes' /\ HasTask' /\ StoppedForGood'
    BY <1>1 DEF mgrVars, ManagerTypes, HasTask, StoppedForGood
<1>2. ASSUME NEW c \in Callers, NEW t \in Tasks, StartDownload(c, t), ~UNCHANGED mgrVars
      PROVE  ManagerTypes' /\ HasTask' /\ StoppedForGood'
    <2>1. PICK w \in Downloads :
             /\ Fresh(w)
             /\ active' = [active EXCEPT ![t] = w]
             /\ wtask' = [wtask EXCEPT ![w] = t]
             /\ wpc' = [wpc EXCEPT ![w] = "create"]
             /\ cancelled' = cancelled \ {w}
        BY <1>2 DEF StartDownload
    <2>2. stop = "no" /\ UNCHANGED <<watched, victim, mpc, stop>>
        BY <1>2 DEF StartDownload, Accepting
    <2>3. ManagerTypes'
        BY <2>1, <2>2 DEF ManagerTypes, WorkerSteps
    <2>4. HasTask'
        BY <2>1, <2>2 DEF ManagerTypes, HasTask
    <2> QED BY <2>2, <2>3, <2>4 DEF StoppedForGood
<1>3. ASSUME NEW w \in Downloads, WorkerStep(w), ~Exit(w)
      PROVE  ManagerTypes' /\ HasTask' /\ StoppedForGood'
    <2>1. /\ wpc[w] # "free"
          /\ UNCHANGED <<active, wtask, cancelled, victim, stop>>
          /\ \/ UNCHANGED <<watched, mpc>>
             \/ \E m \in Monitors : /\ watched' = [watched EXCEPT ![m] = w]
                                    /\ mpc' = [mpc EXCEPT ![m] = "watch"]
        BY <1>3, WorkerMoves
    <2>2. PICK step \in WorkerSteps \ {"free"} : wpc' = [wpc EXCEPT ![w] = step]
        BY <1>3, WorkerMoves
    <2>3. wtask[w] \in Tasks
        BY <2>1 DEF HasTask
    <2>4. ManagerTypes'
        BY <2>1, <2>2 DEF ManagerTypes, MonitorSteps
    <2>5. HasTask'
        BY <2>1, <2>2, <2>3 DEF ManagerTypes, HasTask
    <2>6. StoppedForGood'
        BY <2>1, <2>2 DEF ManagerTypes, StoppedForGood
    <2> QED BY <2>4, <2>5, <2>6
<1>4. ASSUME NEW w \in Downloads, Exit(w)
      PROVE  ManagerTypes' /\ HasTask' /\ StoppedForGood'
    <2> USE <1>4 DEF Exit, WorkerAt, WorkerGoto, Unregister
    <2>1. ManagerTypes'
        BY DEF ManagerTypes, WorkerSteps
    <2>2. HasTask'
        BY DEF ManagerTypes, HasTask
    <2>3. StoppedForGood'
        BY DEF ManagerTypes, StoppedForGood
    <2> QED BY <2>1, <2>2, <2>3
<1>5. ASSUME NEW m \in Monitors, MonitorStep(m)
      PROVE  ManagerTypes' /\ HasTask' /\ StoppedForGood'
    <2>1. /\ mpc[m] # "off"
          /\ UNCHANGED <<wtask, wpc, stop>>
          /\ UNCHANGED active \/ active' = Unregister(wtask[watched[m]])
          /\ cancelled' = cancelled \/ \E w \in Downloads : cancelled' = cancelled \cup {w}
          /\ \/ UNCHANGED watched
             \/ watched' = [watched EXCEPT ![m] = None] /\ mpc' = [mpc EXCEPT ![m] = "off"]
        BY <1>5, MonitorMoves
    <2>2. PICK step \in MonitorSteps : mpc' = [mpc EXCEPT ![m] = step]
        BY <1>5, MonitorMoves
    <2>3. PICK v \in Downloads \cup {None} : victim' = [victim EXCEPT ![m] = v]
        BY <1>5, MonitorMoves
    <2>4. ManagerTypes'
        BY <2>1, <2>2, <2>3 DEF ManagerTypes, Unregister
    <2>5. HasTask'
        BY <2>1, <2>2 DEF ManagerTypes, HasTask
    <2>6. StoppedForGood'
        BY <2>1 DEF StoppedForGood
    <2> QED BY <2>4, <2>5, <2>6
<1>6. CASE Stop
    <2>1. /\ UNCHANGED <<active, wtask, wpc, watched, victim, mpc>>
          /\ stop' \in {"closed", "waiting", "returned"}
          /\ stop' = "returned" => \A w \in Downloads : Ended(w)
          /\ cancelled' = cancelled \/ cancelled' = cancelled \cup ToCancel
        BY <1>6 DEF Stop, CloseStopCh, CancelAll, StopReturns
    <2>2. ToCancel \subseteq Downloads
        BY DEF ToCancel, ManagerTypes
    <2>3. ManagerTypes'
        BY <2>1, <2>2 DEF ManagerTypes, StopSteps
    <2>4. HasTask' /\ StoppedForGood'
        BY <2>1 DEF HasTask, StoppedForGood
    <2> QED BY <2>3, <2>4
<1>7. ASSUME NEW c \in Callers, CallerStep(c)
      PROVE  ManagerTypes' /\ HasTask' /\ StoppedForGood'
    <2>1. CASE UNCHANGED mgrVars
        BY <1>1, <2>1
    <2>2. CASE ~UNCHANGED mgrVars
        BY <1>2, <1>7, <2>2 DEF CallerStep
    <2> QED BY <2>1, <2>2
<1>8. CASE UNCHANGED allVars
    BY <1>1, <1>8 DEF allVars
<1>9. CASE MNext
    BY <1>1, <1>3, <1>4, <1>5, <1>6, <1>7, <1>9 DEF MNext, PurgeStep
<1> QED BY <1>8, <1>9

-----------------------------------------------------------------------------
(* The theorems about the manager.                                          *)

\* The invariant holds throughout, with or without monitors.
THEOREM ManagerInvariant == MSpec => []MInv
<1>1. MInit => MInv
    BY InitQueueInv DEF MInit, MInv, ManagerTypes, HasTask, StoppedForGood, Ended,
                        WorkerSteps, MonitorSteps, StopSteps
<1>2. MInv /\ [MNext]_allVars => MInv'
    BY NextQueueInv, NextManager DEF MInv
<1> QED BY <1>1, <1>2, PTL DEF MSpec

\* The variables of the manager and of its queue keep their types.
THEOREM ManagerTypeCorrect == MSpec => []MTypeOK
<1>1. MInv => MTypeOK
    BY DEF MInv, QueueInv, IInv, ManagerTypes, MTypeOK
<1> QED BY ManagerInvariant, <1>1, PTL

\* Late reports of paused, resumed and removed downloads, and tasks that are
\* failed without asking the queue, never make the count of slots wrong.
THEOREM ManagerLateReportsCounted == MSpec => []LateReportsCounted
<1>1. MInv => LateReportsCounted
    BY SlotsBound DEF MInv, QueueInv, LateReportsCounted
<1> QED BY ManagerInvariant, <1>1, PTL

\* What a step of the manager does to a finished task in the queue: nobody new
\* comes to start it, and its status changes only through those who had taken
\* it up before.
LEMMA FinishedInQueue ==
    ASSUME QueueInv, [MNext]_allVars, NEW t \in Tasks, status[t] \in {"done", "failed"}
    PROVE  /\ Starting(t)' \subseteq Starting(t)
           /\ \/ status'[t] = status[t]
              \/ status'[t] = "failed" /\ Runs(t) # {}
              \/ status[t] = "failed" /\ status'[t] = "downloading" /\ Starting(t) # {}
<1> DEFINE Kept == Starting(t)' \subseteq Starting(t) /\ status'[t] = status[t]
<1>0. TypeOK /\ StartSound
    BY DEF QueueInv, IInv
<1>1. ASSUME UNCHANGED <<status, pc, arg>> PROVE Kept
    BY <1>1 DEF Starting
<1>2. ASSUME status'[t] = status[t], NEW d \in Callers, NEW step \in Steps, NEW ts,
             pc' = [pc EXCEPT ![d] = step], arg' = [arg EXCEPT ![d] = ts],
             step \in {"startTask", "onTaskStart"} => t \notin ts \/ d \in Starting(t)
      PROVE  Kept
    BY <1>0, <1>2 DEF Starting, TypeOK
<1>3. ASSUME NEW c \in Handlers, ClientStep(c) PROVE Kept
    <2>0. c \in Callers
        BY DEF Callers
    <2>1. ASSUME NEW u \in Tasks, NEW p, Add(c, u, p) PROVE Kept
        BY <1>0, <1>1, <1>2, <2>0, <2>1 DEF Add, SetStatus, Goto, Steps, TypeOK
    <2>2. ASSUME NEW u \in Tasks, Remove(c, u) PROVE Kept
        BY <1>2, <2>0, <2>2 DEF Remove, Goto, Steps
    <2>3. ASSUME NEW u \in Tasks, Pause(c, u) PROVE Kept
        BY <1>0, <1>2, <2>0, <2>3 DEF Pause, SetStatus, TryStartAfterwards, Goto, Steps, TypeOK
    <2>4. ASSUME NEW u \in Tasks, Resume(c, u) PROVE Kept
        BY <1>0, <1>1, <1>2, <2>0, <2>4 DEF Resume, SetStatus, Goto, Steps, TypeOK
    <2>5. ASSUME NEW n, SetMaxConcurrent(c, n) PROVE Kept
        BY <1>2, <2>0, <2>5 DEF SetMaxConcurrent, TryStartAfterwards, Goto, Steps
    <2>6. ASSUME NEW u, NEW p, SetPriority(c, u, p) PROVE Kept
        BY <1>1, <2>6 DEF SetPriority
    <2>7. ASSUME NEW u, NEW pos, NEW how, ChangePosition(c, u, pos, how) PROVE Kept
        BY <1>1, <2>7 DEF ChangePosition
    <2> QED BY <1>3, <2>1, <2>2, <2>3, <2>4, <2>5, <2>6, <2>7 DEF ClientStep
<1>4. ASSUME NEW c \in Callers, TryStartNext(c) PROVE Kept
    <2>1. PICK S \in SUBSET pq :
             LET started == {e.task : e \in Startable(S)} IN
             /\ status' = [u \in Tasks |-> IF u \in started THEN "downloading" ELSE status[u]]
             /\ IF started = {} THEN Return(c) ELSE Goto(c, "onTaskStart", started)
        BY <1>4 DEF TryStartNext
    <2> DEFINE started == {e.task : e \in Startable(S)}
    <2>2. t \notin started
        BY DEF Startable
    <2>3. status'[t] = status[t]
        BY <2>1, <2>2
    <2>4. \/ pc' = [pc EXCEPT ![c] = "idle"] /\ arg' = [arg EXCEPT ![c] = {}]
          \/ pc' = [pc EXCEPT ![c] = "onTaskStart"] /\ arg' = [arg EXCEPT ![c] = started]
        BY <2>1 DEF Return, Goto
    <2> HIDE DEF started
    <2> QED BY <1>2, <2>2, <2>3, <2>4 DEF Steps
<1>5. ASSUME NEW c \in Callers, Cancel(c) PROVE Kept
    <2>1. status'[t] = status[t]
        BY <1>5 DEF Cancel, Stopped
    <2>2. pc' = [pc EXCEPT ![c] = "idle"] /\ arg' = [arg EXCEPT ![c] = {}]
        BY <1>5 DEF Cancel, Return, Goto
    <2> QED BY <1>2, <2>1, <2>2 DEF Steps
<1>6. ASSUME NEW c \in Callers, NEW u \in Tasks, OnTaskStart(c, u) PROVE Kept
    <2>1. /\ pc[c] = "onTaskStart" /\ UNCHANGED status
          /\ \/ pc' = [pc EXCEPT ![c] = "idle"] /\ arg' = [arg EXCEPT ![c] = {}]
             \/ /\ pc' = [pc EXCEPT ![c] = "onTaskStart"]
                /\ arg' = [arg EXCEPT ![c] = arg[c] \ {u}]
        BY <1>6 DEF OnTaskStart, Return, Goto, queueVars
    <2>2. t \in arg[c] \ {u} => c \in Starting(t)
        BY <2>1 DEF Starting
    <2> QED BY <1>2, <2>1, <2>2 DEF Steps
<1>7. ASSUME NEW c \in Callers, StartTask(c), t \notin arg[c] PROVE Kept
    BY <1>2, <1>7 DEF StartTask, Goto, Steps
<1>8. ASSUME NEW c \in Callers, StartTask(c), t \in arg[c]
      PROVE  /\ Starting(t)' \subseteq Starting(t) /\ Starting(t) # {}
             /\ status[t] = "failed" /\ status'[t] = "downloading"
    <2>1. /\ pc[c] = "startTask" /\ status'[t] = "downloading"
          /\ pc' = [pc EXCEPT ![c] = "onTaskStart"] /\ arg' = [arg EXCEPT ![c] = arg[c]]
        BY <1>8 DEF StartTask, Goto
    <2>2. c \in Starting(t)
        BY <1>8, <2>1 DEF Starting
    <2>3. status[t] = "failed"
        BY <1>0, <1>8, <2>1 DEF StartSound
    <2>4. Starting(t)' \subseteq Starting(t)
        BY <1>0, <2>1, <2>2 DEF Starting, TypeOK
    <2> QED BY <2>1, <2>2, <2>3, <2>4
<1>9. ASSUME NEW c \in Workers, NEW u, NEW s, Finish(c, u, s) PROVE Kept
    <2>1. c \in Callers /\ u # t
        BY <1>9 DEF Finish, MayFinish, Callers
    <2> QED BY <1>0, <1>2, <1>9, <2>1 DEF Finish, SetStatus, TryStartAfterwards, Goto, Steps, TypeOK
<1>10. ASSUME [Next]_vars
       PROVE  Kept \/ \E c \in Callers : StartTask(c) /\ t \in arg[c]
    <2>1. ASSUME NEW c \in Callers, Continue(c)
          PROVE  Kept \/ \E d \in Callers : StartTask(d) /\ t \in arg[d]
        BY <1>4, <1>5, <1>6, <1>7, <2>1 DEF Continue
    <2>2. ASSUME NEW u \in Tasks, DownloadEnds(u) PROVE Kept
        BY <1>9, <2>2 DEF DownloadEnds, CompleteTask, FailTask
    <2>3. CASE UNCHANGED vars
        BY <1>1, <2>3 DEF vars
    <2> QED BY <1>3, <1>10, <2>1, <2>2, <2>3 DEF Next
<1>11. ASSUME NEW c \in Handlers, PurgeStopped(c) \/ \E u \in Tasks : RemoveStopped(c, u)
       PROVE  Kept
    BY <1>1, <1>11 DEF PurgeStopped, RemoveStopped
<1>12. ASSUME NEW w \in Downloads, SetError(w), ~Ended(w)
       PROVE  /\ Starting(t)' \subseteq Starting(t)
              /\ \/ status'[t] = status[t]
                 \/ status'[t] = "failed" /\ Runs(t) # {}
    <2>1. /\ status' = [status EXCEPT ![wtask[w]] = "failed"]
          /\ UNCHANGED <<pc, arg>>
        BY <1>12 DEF SetError, SetStatus
    <2>2. CASE wtask[w] = t
        BY <1>0, <1>12, <2>1, <2>2 DEF Starting, Runs, TypeOK
    <2>3. CASE wtask[w] # t
        BY <1>0, <2>1, <2>3 DEF Starting, TypeOK
    <2> QED BY <2>2, <2>3
<1> QED BY <1>0, <1>8, <1>10, <1>11, <1>12, ManagerStepOnQueue

\* A download begins to work for a task only by a caller that is about to
\* start it.
LEMMA OnlyStartersRun ==
    ASSUME MInv, [MNext]_allVars, NEW t \in Tasks
    PROVE  Runs(t)' \subseteq Runs(t) \/ Starting(t) # {}
<1> DEFINE Fewer == Runs(t)' \subseteq Runs(t)
<1> USE DEF Ended
<1>0. ManagerTypes /\ HasTask
    BY DEF MInv
<1>1. ASSUME UNCHANGED <<wtask, wpc>> PROVE Fewer
    BY <1>1 DEF Runs
<1>2. ASSUME NEW c \in Callers, NEW u \in Tasks, StartDownload(c, u), ~UNCHANGED mgrVars
      PROVE  Fewer \/ Starting(t) # {}
    <2>1. PICK w \in Downloads : /\ wtask' = [wtask EXCEPT ![w] = u]
                                 /\ wpc' = [wpc EXCEPT ![w] = "create"]
        BY <1>2 DEF StartDownload
    <2>2. CASE u = t
        <3>1. c \in Starting(t)
            BY <1>2, <2>2 DEF StartDownload, OnTaskStart, Starting
        <3> QED BY <3>1
    <2>3. CASE u # t
        BY <1>0, <2>1, <2>3 DEF Runs, ManagerTypes
    <2> QED BY <2>2, <2>3
<1>3. ASSUME NEW w \in Downloads, WorkerStep(w) PROVE Fewer
    <2>1. /\ wpc[w] # "free" /\ UNCHANGED wtask
          /\ \E step \in WorkerSteps : wpc' = [wpc EXCEPT ![w] = step]
        BY <1>0, <1>3, WorkerMoves DEF Exit, WorkerAt, WorkerGoto, WorkerSteps
    <2> QED BY <1>0, <2>1 DEF Runs, ManagerTypes
<1>4. ASSUME NEW m \in Monitors, MonitorStep(m) PROVE Fewer
    BY <1>0, <1>1, <1>4, MonitorMoves
<1>5. CASE Stop
    BY <1>1, <1>5 DEF Stop, CloseStopCh, CancelAll, StopReturns
<1>6. ASSUME NEW c \in Callers, CallerStep(c) PROVE Fewer \/ Starting(t) # {}
    <2>1. CASE UNCHANGED mgrVars
        BY <1>1, <2>1 DEF mgrVars
    <2>2. CASE ~UNCHANGED mgrVars
        BY <1>2, <1>6, <2>2 DEF CallerStep
    <2> QED BY <2>1, <2>2
<1>7. ASSUME UNCHANGED mgrVars PROVE Fewer
    BY <1>1, <1>7 DEF mgrVars
<1>8. CASE UNCHANGED allVars
    BY <1>7, <1>8 DEF allVars
<1>9. CASE MNext
    BY <1>3, <1>4, <1>5, <1>6, <1>7, <1>9 DEF MNext, PurgeStep
<1> QED BY <1>8, <1>9

\* A finished task is not taken up again: not from the heap, not by a request;
\* what still happens to it is done by those who had taken it up before.
THEOREM ManagerFinishedStays == MSpec => FinishedStaysFinished
<1> DEFINE Latecomers ==
        \A t \in Tasks : status[t] \in {"done", "failed"} =>
           /\ Starting(t)' \subseteq Starting(t)
           /\ Runs(t)' \subseteq Runs(t) \/ Starting(t) # {}
           /\ \/ status'[t] = status[t]
              \/ status'[t] = "failed" /\ Runs(t) # {}
              \/ status[t] = "failed" /\ status'[t] = "downloading" /\ Starting(t) # {}
<1>1. ASSUME MInv, [MNext]_allVars PROVE Latecomers
    BY <1>1, FinishedInQueue, OnlyStartersRun DEF MInv
<1>2. MInv /\ [MNext]_allVars => [Latecomers]_allVars
    BY <1>1
<1> QED BY ManagerInvariant, <1>2, PTL DEF MSpec, FinishedStaysFinished

\* Nothing runs once Stop has returned.
THEOREM ManagerStoppedForGood == MSpec => []StoppedForGood
<1>1. MInv => StoppedForGood
    BY DEF MInv
<1> QED BY ManagerInvariant, <1>1, PTL

\* The queue's promise to a waiting task holds under the manager as well.
THEOREM ManagerPendingTracked == MSpec => []PendingTracked
<1>1. MInv => PendingTracked
    BY IInvPendingTracked DEF MInv, QueueInv
<1> QED BY ManagerInvariant, <1>1, PTL

\* Without monitors, what runs is registered and is the only download of its
\* task: no two goroutines write one file.
THEOREM ManagerRunningIsRegistered ==
    ASSUME Monitors = {}
    PROVE  MSpec => [](RunningIsRegistered /\ OneWriter)
<1>1. MInit => RunningIsRegistered
    BY DEF MInit, RunningIsRegistered, Ended
<1>2. ASSUME MInv, RunningIsRegistered, [MNext]_allVars PROVE RunningIsRegistered'
    <2> USE DEF Ended
    <2>0. ManagerTypes /\ HasTask
        BY <1>2 DEF MInv
    <2>1. ASSUME UNCHANGED mgrVars PROVE RunningIsRegistered'
        BY <1>2, <2>1 DEF mgrVars, RunningIsRegistered
    <2>2. ASSUME NEW c \in Callers, NEW t \in Tasks, StartDownload(c, t), ~UNCHANGED mgrVars
          PROVE  RunningIsRegistered'
        <3>1. PICK w \in Downloads :
                 /\ active' = [active EXCEPT ![t] = w]
                 /\ wtask' = [wtask EXCEPT ![w] = t]
                 /\ wpc' = [wpc EXCEPT ![w] = "create"]
            BY <2>2 DEF StartDownload
        <3>2. active[t] = None
            BY <2>2 DEF StartDownload, Registered
        <3>3. \A v \in Downloads : wpc[v] # "free" => active[wtask[v]] = v /\ wtask[v] # t
            BY <1>2, <3>2, ManagerAssumption DEF RunningIsRegistered
        <3> QED BY <2>0, <3>1, <3>3 DEF RunningIsRegistered, ManagerTypes, HasTask
    <2>3. ASSUME NEW w \in Downloads, WorkerStep(w), ~Exit(w) PROVE RunningIsRegistered'
        <3>1. /\ wpc[w] # "free" /\ UNCHANGED <<active, wtask>>
              /\ \E step \in WorkerSteps : wpc' = [wpc EXCEPT ![w] = step]
            BY <2>0, <2>3, WorkerMoves
        <3> QED BY <1>2, <2>0, <3>1 DEF RunningIsRegistered, ManagerTypes
    <2>4. ASSUME NEW w \in Downloads, Exit(w) PROVE RunningIsRegistered'
        <3>1. /\ wpc[w] # "free" /\ wpc' = [wpc EXCEPT ![w] = "free"]
              /\ active' = [active EXCEPT ![wtask[w]] = None] /\ UNCHANGED wtask
            BY <2>4 DEF Exit, WorkerAt, WorkerGoto, Unregister
        <3>2. \A v \in Downloads : wpc[v] # "free" /\ v # w => wtask[v] # wtask[w]
            BY <1>2, <3>1 DEF RunningIsRegistered
        <3> QED BY <1>2, <2>0, <3>1, <3>2 DEF RunningIsRegistered, ManagerTypes, HasTask
    <2>5. CASE Stop
        BY <1>2, <2>5 DEF Stop, CloseStopCh, CancelAll, StopReturns, RunningIsRegistered
    <2>6. ASSUME NEW c \in Callers, CallerStep(c) PROVE RunningIsRegistered'
        <3>1. CASE UNCHANGED mgrVars
            BY <2>1, <3>1
        <3>2. CASE ~UNCHANGED mgrVars
            BY <2>2, <2>6, <3>2 DEF CallerStep
        <3> QED BY <3>1, <3>2
    <2>7. CASE UNCHANGED allVars
        BY <2>1, <2>7 DEF allVars
    <2>8. CASE MNext
        BY <2>1, <2>3, <2>4, <2>5, <2>6, <2>8 DEF MNext, PurgeStep
    <2> QED BY <1>2, <2>7, <2>8
<1>3. RunningIsRegistered => OneWriter
    BY DEF RunningIsRegistered, OneWriter
<1> QED BY <1>1, <1>2, <1>3, ManagerInvariant, PTL DEF MSpec

\* Without monitors Stop misses no download, not even one that is registered
\* while it closes stopCh: when it waits, all that run have been cancelled.
THEOREM ManagerStopReachesAll ==
    ASSUME Monitors = {}
    PROVE  MSpec => []StopReachesAll
<1>1. MInit => StopReachesAll
    BY DEF MInit, StopReachesAll
<1>2. ASSUME MInv, RunningIsRegistered, StopReachesAll, [MNext]_allVars PROVE StopReachesAll'
    <2> USE DEF Ended
    <2>0. ManagerTypes /\ HasTask
        BY <1>2 DEF MInv
    <2>1. ASSUME UNCHANGED mgrVars PROVE StopReachesAll'
        BY <1>2, <2>1 DEF mgrVars, StopReachesAll
    <2>2. ASSUME NEW c \in Callers, NEW t \in Tasks, StartDownload(c, t), ~UNCHANGED mgrVars
          PROVE  StopReachesAll'
        <3>1. stop' = "no"
            BY <2>2 DEF StartDownload, Accepting
        <3> QED BY <3>1 DEF StopReachesAll
    <2>3. ASSUME NEW w \in Downloads, WorkerStep(w), ~Exit(w) PROVE StopReachesAll'
        <3>1. /\ wpc[w] # "free" /\ UNCHANGED <<cancelled, stop>>
              /\ \E step \in WorkerSteps : wpc' = [wpc EXCEPT ![w] = step]
            BY <2>0, <2>3, WorkerMoves
        <3> QED BY <1>2, <2>0, <3>1 DEF StopReachesAll, ManagerTypes
    <2>4. ASSUME NEW w \in Downloads, Exit(w) PROVE StopReachesAll'
        <3>1. /\ wpc' = [wpc EXCEPT ![w] = "free"] /\ cancelled' = cancelled \cup {w}
              /\ UNCHANGED stop
            BY <2>4 DEF Exit, WorkerGoto
        <3> QED BY <1>2, <2>0, <3>1 DEF StopReachesAll, ManagerTypes
    <2>5. CASE CancelAll
        <3>1. cancelled' = cancelled \cup ToCancel /\ UNCHANGED wpc
            BY <2>5 DEF CancelAll
        <3>2. \A w \in Downloads : wpc[w] # "free" => w \in ToCancel
            BY <1>2, <2>0, ManagerAssumption DEF RunningIsRegistered, HasTask, ToCancel
        <3> QED BY <3>1, <3>2 DEF StopReachesAll
    <2>6. CASE CloseStopCh \/ StopReturns
        BY <1>2, <2>6 DEF CloseStopCh, StopReturns, StopReachesAll
    <2>7. ASSUME NEW c \in Callers, CallerStep(c) PROVE StopReachesAll'
        <3>1. CASE UNCHANGED mgrVars
            BY <2>1, <3>1
        <3>2. CASE ~UNCHANGED mgrVars
            BY <2>2, <2>7, <3>2 DEF CallerStep
        <3> QED BY <3>1, <3>2
    <2>8. CASE UNCHANGED allVars
        BY <2>1, <2>8 DEF allVars
    <2>9. CASE MNext
        BY <2>1, <2>3, <2>4, <2>5, <2>6, <2>7, <2>9 DEF MNext, PurgeStep, Stop
    <2> QED BY <1>2, <2>8, <2>9
<1> QED BY <1>1, <1>2, ManagerInvariant, ManagerRunningIsRegistered, PTL DEF MSpec

=============================================================================
