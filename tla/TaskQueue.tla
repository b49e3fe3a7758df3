----------------------------- MODULE TaskQueue -----------------------------
(***************************************************************************)
(* The download queue of internal/task/queue.go with the task states of    *)
(* internal/task/model.go.                                                 *)
(*                                                                         *)
(* Every public operation holds q.mu for one critical section, releases it *)
(* and then goes on: Add and Resume call startTask, Pause, CompleteTask,   *)
(* FailTask and SetMaxConcurrent call tryStartNext, Remove calls           *)
(* task.Cancel.  Each critical section is one action; pc[c] says which     *)
(* one caller c (a goroutine) still has to take and arg[c] for which       *)
(* tasks, so that the operations of different goroutines interleave        *)
(* exactly where the code has released the lock.                           *)
(*                                                                         *)
(* A task is identified by its ID (GenerateID draws a fresh UUID, so an ID *)
(* is added once); status "none" is a task nobody has created yet.         *)
(***************************************************************************)
EXTENDS Integers, FiniteSets

CONSTANTS Tasks,       \* task IDs
          Handlers,    \* goroutines serving API requests
          Workers,     \* goroutines running downloads
          MaxLimit,    \* the largest limit SetMaxConcurrent is given
          InitLimit,   \* NewTaskQueue(maxConcurrent)
          Priorities,  \* task priorities a client asks for
          Offsets,     \* the pos argument of ChangePosition
          ClientOps    \* the operations the clients of this instance use

Callers == Handlers \cup Workers

AllOps == {"Remove", "Pause", "Resume", "SetMaxConcurrent", "Purge",
           "RemoveStopped", "ChangePosition", "SetPriority"}

ASSUME QueueAssumption ==
    /\ IsFiniteSet(Tasks) /\ IsFiniteSet(Handlers) /\ IsFiniteSet(Workers)
    /\ Callers # {}
    /\ MaxLimit \in Nat \ {0} /\ InitLimit \in 1..MaxLimit
    /\ Priorities \subseteq Nat
    /\ Offsets \subseteq Int
    /\ ClientOps \subseteq AllOps

VARIABLES tasks,          \* q.tasks: the IDs in the map
          status,         \* task.Status
          priority,       \* task.Priority
          pq,             \* q.pq: the heap items
          activeCount,    \* q.activeCount
          maxConcurrent,  \* q.maxConcurrent
          pc,             \* the critical section a caller takes next
          arg             \* the tasks it takes it for

queueVars == <<tasks, status, priority, pq, activeCount, maxConcurrent>>
vars == <<tasks, status, priority, pq, activeCount, maxConcurrent, pc, arg>>

Statuses == {"none", "pending", "downloading", "paused", "done", "failed", "cancelled"}
Stopped  == {"done", "failed", "cancelled"}
Steps    == {"idle", "startTask", "tryStartNext", "cancel", "onTaskStart"}
Item     == [task : Tasks, priority : Nat]

Init ==
    /\ tasks = {}
    /\ status = [t \in Tasks |-> "none"]
    /\ priority = [t \in Tasks |-> 0]
    /\ pq = {}
    /\ activeCount = 0
    /\ maxConcurrent = InitLimit
    /\ pc = [c \in Callers |-> "idle"]
    /\ arg = [c \in Callers |-> {}]

-----------------------------------------------------------------------------
(* Helpers shared by the operations.                                        *)

Goto(c, step, ts) ==
    /\ pc' = [pc EXCEPT ![c] = step]
    /\ arg' = [arg EXCEPT ![c] = ts]

Return(c) == Goto(c, "idle", {})

HasFreeSlot_CountsWaiting == Cardinality(pq) < maxConcurrent

\* The test of Add, Resume and tryStartNext for a free download slot.
HasFreeSlot == activeCount < maxConcurrent

Push_Forgotten(t, p) == pq

\* heap.Push.  A task has at most one item (HeapSound), so a set holds them.
Push(t, p) == pq \cup {[task |-> t, priority |-> p]}

WithoutItem_Kept(ts) == pq

\* findPQIndex and heap.Remove.
WithoutItem(ts) == {e \in pq : e.task \notin ts}

SetStatus(t, s) == status' = [status EXCEPT ![t] = s]

TryStartAfterwards_Forgotten(c) == Return(c)

\* The trailing q.tryStartNext() of an operation that has released the lock.
TryStartAfterwards(c) == Goto(c, "tryStartNext", {})

-----------------------------------------------------------------------------
(* The operations called by API handlers.                                   *)

\* NewTask and Add: start at once when a slot is free, else enqueue.
Add(c, t, p) ==
    /\ pc[c] = "idle" /\ status[t] = "none"
    /\ tasks' = tasks \cup {t}
    /\ SetStatus(t, "pending")
    /\ priority' = [priority EXCEPT ![t] = p]
    /\ IF HasFreeSlot THEN Goto(c, "startTask", {t}) /\ UNCHANGED pq
                      ELSE pq' = Push(t, p) /\ UNCHANGED <<pc, arg>>
    /\ UNCHANGED <<activeCount, maxConcurrent>>

\* Remove, up to the unlock; task.Cancel() follows in Cancel.
Remove(c, t) ==
    /\ pc[c] = "idle" /\ t \in tasks
    /\ tasks' = tasks \ {t}
    /\ pq' = WithoutItem({t})
    /\ activeCount' = IF status[t] = "downloading" THEN activeCount - 1 ELSE activeCount
    /\ Goto(c, "cancel", {t})
    /\ UNCHANGED <<status, priority, maxConcurrent>>

\* Pause, up to the unlock.
Pause(c, t) ==
    /\ pc[c] = "idle" /\ t \in tasks
    /\ status[t] = "downloading"
    /\ SetStatus(t, "paused")
    /\ activeCount' = activeCount - 1
    /\ TryStartAfterwards(c)
    /\ UNCHANGED <<tasks, priority, pq, maxConcurrent>>

\* Resume, up to the unlock.
Resume(c, t) ==
    /\ pc[c] = "idle" /\ t \in tasks
    /\ status[t] = "paused"
    /\ SetStatus(t, "pending")
    /\ IF HasFreeSlot THEN Goto(c, "startTask", {t}) /\ UNCHANGED pq
                      ELSE pq' = Push(t, priority[t]) /\ UNCHANGED <<pc, arg>>
    /\ UNCHANGED <<tasks, priority, activeCount, maxConcurrent>>

\* SetMaxConcurrent, up to the unlock.
SetMaxConcurrent(c, n) ==
    /\ pc[c] = "idle"
    /\ maxConcurrent' = n
    /\ TryStartAfterwards(c)
    /\ UNCHANGED <<tasks, status, priority, pq, activeCount>>

\* PurgeStopped and RemoveStopped.  The queue takes what it finishes out of the
\* map itself; only the manager's SetError leaves a stopped task in it, so the
\* two happen in DownloadManager.
PurgeStopped(c) ==
    LET gone == {t \in tasks : status[t] \in Stopped} IN
    /\ pc[c] = "idle" /\ gone # {}
    /\ tasks' = tasks \ gone
    /\ pq' = WithoutItem(gone)
    /\ UNCHANGED <<status, priority, activeCount, maxConcurrent, pc, arg>>

RemoveStopped(c, t) ==
    /\ pc[c] = "idle" /\ t \in tasks
    /\ status[t] \in Stopped
    /\ tasks' = tasks \ {t}
    /\ pq' = WithoutItem({t})
    /\ UNCHANGED <<status, priority, activeCount, maxConcurrent, pc, arg>>

\* UpdateTask and changeOption set task.Priority; the heap item keeps its own.
SetPriority(c, t, p) ==
    /\ pc[c] = "idle" /\ t \in tasks
    /\ priority' = [priority EXCEPT ![t] = p]
    /\ UNCHANGED <<tasks, status, pq, activeCount, maxConcurrent, pc, arg>>

\* The orders in which draining the heap can yield its items: by priority,
\* items of equal priority in any order.
PopOrders ==
    LET n == Cardinality(pq) IN
    {s \in [0..(n - 1) -> pq] :
        /\ \A e \in pq : \E i \in 0..(n - 1) : s[i] = e
        /\ \A i, j \in 0..(n - 1) : i < j => s[i].priority <= s[j].priority}

Clamp(i, n) == IF i < 0 THEN 0 ELSE IF i >= n THEN n - 1 ELSE i

\* The position asked for, clamped to the queue of n items.
NewPosition(how, pos, cur, n) ==
    Clamp(IF how = "POS_SET" THEN pos
          ELSE IF how = "POS_CUR" THEN cur + pos
          ELSE n - 1 + pos, n)

ShiftedIndex_Swap(i, cur, new) ==
    IF i = cur THEN new ELSE IF i = new THEN cur ELSE i

\* Where the item at index i ends up when the one at cur moves to new.
ShiftedIndex(i, cur, new) ==
    IF i = cur THEN new
    ELSE IF cur < i /\ i <= new THEN i - 1
    ELSE IF new <= i /\ i < cur THEN i + 1
    ELSE i

\* ChangePosition: drain, move, renumber every waiting task by its index.
\* An unknown how, or a Pending task without an item, changes nothing.
ChangePosition(c, t, pos, how) ==
    /\ pc[c] = "idle" /\ t \in tasks /\ status[t] = "pending"
    /\ \E s \in PopOrders :
          \E cur \in DOMAIN s :
             LET new == NewPosition(how, pos, cur, Cardinality(pq))
                 at  == [e \in pq |-> CHOOSE i \in DOMAIN s : s[i] = e]
                 to(e) == ShiftedIndex(at[e], cur, new)
             IN /\ s[cur].task = t
                /\ pq' = {[task |-> e.task, priority |-> to(e)] : e \in pq}
                /\ priority' = [u \in Tasks |->
                      IF \E e \in pq : e.task = u
                      THEN to(CHOOSE e \in pq : e.task = u) ELSE priority[u]]
    /\ UNCHANGED <<tasks, status, activeCount, maxConcurrent, pc, arg>>

-----------------------------------------------------------------------------
(* The second halves of the operations above, and the callback.             *)

Startable_AnyStatus(S) == S

\* tryStartNext's loop: the items S it pops before it stops, in heap order.
\* Items whose task is no longer Pending are popped and dropped.
Startable(S) == {e \in S : status[e.task] = "pending"}

Pops(S) ==
    LET free == maxConcurrent - activeCount IN
    /\ S \subseteq pq
    /\ \A e \in S, f \in pq \ S : e.priority <= f.priority
    /\ \/ ~HasFreeSlot /\ S = {}
       \/ HasFreeSlot /\ S = pq /\ Cardinality(Startable(S)) < free
       \/ /\ HasFreeSlot /\ Cardinality(Startable(S)) = free
          /\ \E e \in Startable(S) : \A f \in S : f.priority <= e.priority

TryStartNext(c) ==
    /\ pc[c] = "tryStartNext"
    /\ \E S \in SUBSET pq :
          LET started == {e.task : e \in Startable(S)} IN
          /\ Pops(S)
          /\ pq' = pq \ S
          /\ status' = [t \in Tasks |-> IF t \in started THEN "downloading" ELSE status[t]]
          /\ activeCount' = activeCount + Cardinality(Startable(S))
          /\ IF started = {} THEN Return(c) ELSE Goto(c, "onTaskStart", started)
    /\ UNCHANGED <<tasks, priority, maxConcurrent>>

\* startTask looks at neither the slot nor the status again.
StartTask(c) ==
    /\ pc[c] = "startTask"
    /\ status' = [t \in Tasks |-> IF t \in arg[c] THEN "downloading" ELSE status[t]]
    /\ activeCount' = activeCount + 1
    /\ Goto(c, "onTaskStart", arg[c])
    /\ UNCHANGED <<tasks, priority, pq, maxConcurrent>>

\* One call of q.OnTaskStart, made without the lock.
OnTaskStart(c, t) ==
    /\ pc[c] = "onTaskStart" /\ t \in arg[c]
    /\ IF arg[c] = {t} THEN Return(c) ELSE Goto(c, "onTaskStart", arg[c] \ {t})
    /\ UNCHANGED queueVars

\* task.Cancel(): a finished task keeps its status.
Cancel(c) ==
    /\ pc[c] = "cancel"
    /\ status' = [t \in Tasks |->
          IF t \in arg[c] /\ status[t] \notin Stopped THEN "cancelled" ELSE status[t]]
    /\ Return(c)
    /\ UNCHANGED <<tasks, priority, pq, activeCount, maxConcurrent>>

-----------------------------------------------------------------------------
(* The operations called by download goroutines.                            *)

MayFinish_AnyStatus(t) == t \in tasks

\* Anything but a running task of the queue is ignored by both operations.
MayFinish(t) == t \in tasks /\ status[t] = "downloading"

\* CompleteTask (s = "done") and FailTask (s = "failed"), up to the unlock.
Finish(c, t, s) ==
    /\ pc[c] = "idle" /\ MayFinish(t)
    /\ SetStatus(t, s)
    /\ activeCount' = IF activeCount - 1 < 0 THEN 0 ELSE activeCount - 1
    /\ tasks' = tasks \ {t}
    /\ TryStartAfterwards(c)
    /\ UNCHANGED <<priority, pq, maxConcurrent>>

CompleteTask(c, t) == Finish(c, t, "done")
FailTask(c, t) == Finish(c, t, "failed")

-----------------------------------------------------------------------------
Hows == {"POS_SET", "POS_CUR", "POS_END"}

ClientStep(c) ==
    \/ \E t \in Tasks :
          \/ \E p \in Priorities : Add(c, t, p)
          \/ "Remove" \in ClientOps /\ Remove(c, t)
          \/ "Pause" \in ClientOps /\ Pause(c, t)
          \/ "Resume" \in ClientOps /\ Resume(c, t)
          \/ "SetPriority" \in ClientOps /\ \E p \in Priorities : SetPriority(c, t, p)
          \/ "ChangePosition" \in ClientOps
             /\ \E pos \in Offsets, how \in Hows : ChangePosition(c, t, pos, how)
    \/ "SetMaxConcurrent" \in ClientOps /\ \E n \in 1..MaxLimit : SetMaxConcurrent(c, n)

\* A caller that has released the lock goes on with the rest of its operation.
Continue(c) ==
    \/ TryStartNext(c)
    \/ StartTask(c)
    \/ Cancel(c)
    \/ \E t \in Tasks : OnTaskStart(c, t)

DownloadEnds(t) == \E w \in Workers : CompleteTask(w, t) \/ FailTask(w, t)

Next ==
    \/ \E c \in Handlers : ClientStep(c)
    \/ \E c \in Callers : Continue(c)
    \/ \E t \in Tasks : DownloadEnds(t)

Spec == Init /\ [][Next]_vars

\* A goroutine that is not blocked runs on, and every download ends in the
\* end: it is a goroutine of its own, so the (bounded) pool Workers being
\* busy must not count as an excuse.
Fairness ==
    /\ \A c \in Callers : WF_vars(Continue(c))
    /\ \A t \in Tasks : SF_vars(DownloadEnds(t))

FairSpec == Spec /\ Fairness

-----------------------------------------------------------------------------
(* Correctness.                                                             *)

TypeOK ==
    /\ tasks \subseteq Tasks
    /\ status \in [Tasks -> Statuses]
    /\ priority \in [Tasks -> Nat]
    /\ pq \subseteq Item
    /\ activeCount \in Int
    /\ maxConcurrent \in 1..MaxLimit
    /\ pc \in [Callers -> Steps]
    /\ arg \in [Callers -> SUBSET Tasks]

Queued(t) == \E e \in pq : e.task = t
StartedBy(c, t) == pc[c] = "startTask" /\ t \in arg[c]
Running == {t \in tasks : status[t] = "downloading"}

\* "the heap only carries Pending tasks" (comment in tryStartNext), each of
\* them in the map and with one item: no interleaving of Add, Pause, Resume,
\* Remove, Purge and ChangePosition leaves a stale or a double item behind.
HeapSound ==
    /\ \A e \in pq : e.task \in tasks /\ status[e.task] = "pending"
    /\ \A e, f \in pq : e.task = f.task => e = f

\* "Without this the task sits in StatusPending forever" (comment in Resume):
\* a Pending task of the queue is waiting in the heap or some caller is about
\* to start it - never neither, never both, and never two callers.
PendingTracked ==
    \A t \in tasks : status[t] = "pending" =>
        /\ Queued(t) \/ \E c \in Callers : StartedBy(c, t)
        /\ \A c \in Callers : StartedBy(c, t) => ~Queued(t)
        /\ \A c, d \in Callers : StartedBy(c, t) /\ StartedBy(d, t) => c = d

\* Every running task of the queue holds a slot: activeCount is never less
\* than their number, so the "< 0" repair in CompleteTask and FailTask never
\* acts and no finished task frees the slot of another.
RunningCounted == Cardinality(Running) <= activeCount

\* Add and Resume test for a slot in one critical section and take it in the
\* next, so concurrent requests can pass the limit; by no more than one
\* download for each request handler, however the calls interleave.
OvershootBounded == activeCount <= MaxLimit + Cardinality(Handlers)

\* While no client removes tasks, a free slot with tasks waiting for it is
\* noticed: somebody is in tryStartNext.  (Remove frees a slot without that.)
FreeSlotNoticed ==
    pq # {} => activeCount >= maxConcurrent \/ \E c \in Callers : pc[c] = "tryStartNext"

\* What a step that keeps the waiting tasks but renumbers them does to them.
MovesOne ==
    LET waiting == {e.task : e \in pq}
        new(t)  == (CHOOSE e \in pq' : e.task = t).priority
    IN  pq' # pq /\ waiting = {e.task : e \in pq'} =>
        /\ {new(t) : t \in waiting} = 0..(Cardinality(waiting) - 1)
        /\ \E m \in waiting : \A e, f \in pq :
              m \notin {e.task, f.task} /\ e.priority < f.priority
              => new(e.task) < new(f.task)

\* ChangePosition moves one task: a step that keeps the waiting tasks but
\* renumbers them gives them the priorities 0..n-1, and one task apart they
\* keep the order they had.
ReorderMovesOne == [][MovesOne]_vars

\* The requests that can put another task in front of a waiting one: a new one
\* of a smaller priority value or for a slot that is just free, a resumed one,
\* a reordering.
Overtaking ==
    \E c \in Handlers, t \in Tasks :
       \/ \E p \in Priorities : Add(c, t, p)
       \/ Resume(c, t)
       \/ \E pos \in Offsets, how \in Hows : ChangePosition(c, t, pos, how)

\* A waiting task is started once running downloads come to an end, unless
\* clients put others in front of it for ever.  They may pause downloads and
\* change the limit and the priorities as often as they like.  (Without Remove,
\* which frees a slot that nobody notices.)
WaitingTaskStarts ==
    <>[][~Overtaking]_vars => \A t \in Tasks : Queued(t) ~> ~Queued(t)

=============================================================================
