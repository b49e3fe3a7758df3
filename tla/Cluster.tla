------------------------------ MODULE Cluster ------------------------------
(***************************************************************************)
(* internal/cluster/scheduler.go and failover.go in one process: tasks are *)
(* submitted, dispatched to a node and, when the node falls silent, moved  *)
(* to others.  An action is what runs under one lock or up to the next     *)
(* channel operation; f.mu is held by the monitor during a check.          *)
(* Clients, timers and heartbeats of other goroutines come at any time.    *)
(* What the remote node does with a task it accepts is in TaskQueue, how   *)
(* the call gets there in Rpc.                                             *)
(***************************************************************************)
EXTENDS Integers, FiniteSets, Sequences, SequencesExt

CONSTANTS
    Nodes, Tasks,
    Local,          \* localNodeID
    None,           \* no node, no task: ""
    Loads,          \* loads a node may report
    LoadLimit,      \* 80 in the code
    ChanCap,        \* capacity of dispatchChan: 1024 in the code
    MaxRetries,     \* 3 in the code
    Slack,          \* what Rebalance tolerates above the average: 2 in the code
    Timers,         \* bound: AfterFuncs of Failover pending or running at once
    Heard,          \* nodes that send heartbeats
    MaxClears,      \* bound: calls of ClearFailedNode
    MaxUpdates      \* bound: calls of AddNode and UpdateNode

ASSUME ClusterAssumption ==
    /\ IsFiniteSet(Nodes) /\ IsFiniteSet(Tasks)
    /\ Local \in Nodes /\ None \notin Nodes \cup Tasks
    /\ Loads \subseteq Nat /\ LoadLimit \in Nat
    /\ ChanCap \in Nat \ {0} /\ MaxRetries \in Nat \ {0} /\ Slack \in Nat
    /\ None \notin Timers /\ MaxClears \in Nat /\ MaxUpdates \in Nat

VARIABLES
    \* Scheduler
    known,          \* keys of s.nodes
    online, load,   \* Status and Load of the nodes
    queued,         \* keys of s.taskQueue
    target,         \* TargetNode of each task
    unsent,         \* tasks whose SubmitTask waits for room in the channel
    chan,           \* dispatchChan
    disp,           \* dispatchLoop
    requeue,        \* tasks held by an AfterFunc of dispatchTask
    sched,          \* "up", "stopping" (ctx cancelled), "stopped" (Stop returned)
    \* Failover
    heartbeat,      \* "none", "fresh", or "late": older than HeartbeatTimeout
    failed,         \* failedNodes
    mon,            \* monitorLoop
    jobs,           \* reassignTasks, called by the monitor (None) or an AfterFunc
    stopped,        \* ctx of Failover cancelled
    \* what has happened
    submitted,      \* tasks given to SubmitTask: task IDs are never used twice
    dropped,        \* tasks their AfterFunc found no room for
    late,           \* tasks last assigned to a node already failed or removed,
                    \* or not moved for want of an online node
    clears, updates

schedVars == <<known, online, load, queued, unsent, chan, disp, requeue,
               sched, submitted, dropped, updates>>
failVars  == <<heartbeat, failed, mon, jobs, stopped, clears>>
vars      == <<schedVars, target, late, failVars>>

Workers   == Timers \cup {None}
NoFailure == [retry |-> 0, tasks |-> {}, scheduled |-> FALSE]
Job(ph, ts) == [phase |-> ph, tasks |-> ts, nodes |-> <<>>]
NoJob     == Job("none", {})
Resting   == [pc |-> "wait", task |-> None, node |-> None]
Watching  == [pc |-> "wait", todo |-> {}, pending |-> <<>>]

Init ==
    /\ known = Nodes /\ online = Nodes /\ load = [n \in Nodes |-> 0]
    /\ queued = {} /\ target = [t \in Tasks |-> None]
    /\ unsent = {} /\ chan = <<>> /\ disp = Resting /\ requeue = {}
    /\ sched = "up"
    /\ heartbeat = [n \in Nodes |-> "none"]
    /\ failed = [n \in Nodes |-> NoFailure]
    /\ stopped \in BOOLEAN                  \* or never started
    /\ mon = [Watching EXCEPT !.pc = IF stopped THEN "ended" ELSE "wait"]
    /\ jobs = [w \in Workers |-> NoJob]
    /\ submitted \in SUBSET Tasks           \* and removed again
    /\ dropped = {} /\ late = {} /\ clears = 0 /\ updates \in 0..MaxUpdates

----------------------------------------------------------------------------
(* Nodes.                                                                  *)

\* AddNode and UpdateNode.
UpdateNode(n, up, l) ==
    /\ updates < MaxUpdates
    /\ updates' = updates + 1
    /\ known' = known \cup {n}
    /\ online' = IF up THEN online \cup {n} ELSE online \ {n}
    /\ load' = [load EXCEPT ![n] = l]
    /\ UNCHANGED <<queued, unsent, chan, disp, requeue, sched, submitted, dropped>>
    /\ UNCHANGED <<target, late, failVars>>

Known(S) == S \cap known

GetOnlineNodes == Known(online)

\* SetTargetNode of one task.
Assign(t, n) ==
    /\ target' = [target EXCEPT ![t] = n]
    /\ late' = IF n \in known /\ failed[n] = NoFailure THEN late \ {t} ELSE late \cup {t}

----------------------------------------------------------------------------
(* Submitting.                                                             *)

SubmitTask(t) ==
    /\ t \notin submitted
    /\ submitted' = submitted \cup {t}
    /\ queued' = queued \cup {t}
    /\ unsent' = unsent \cup {t}
    /\ UNCHANGED <<known, online, load, chan, disp, requeue, sched, dropped, updates>>
    /\ UNCHANGED <<target, late, failVars>>

Send(t) ==
    /\ t \in unsent /\ Len(chan) < ChanCap
    /\ chan' = Append(chan, t)
    /\ unsent' = unsent \ {t}
    /\ UNCHANGED <<known, online, load, queued, disp, requeue, sched, submitted, dropped, updates>>
    /\ UNCHANGED <<target, late, failVars>>


SendCancelled(t) ==
    /\ t \in unsent /\ sched # "up"
    /\ unsent' = unsent \ {t}
    /\ queued' = queued \ {t}
    /\ UNCHANGED <<known, online, load, chan, disp, requeue, sched, submitted, dropped, updates>>
    /\ UNCHANGED <<target, late, failVars>>

RemoveTask(t) ==
    /\ t \in queued
    /\ queued' = queued \ {t}
    /\ UNCHANGED <<known, online, load, unsent, chan, disp, requeue, sched, submitted, dropped, updates>>
    /\ UNCHANGED <<target, late, failVars>>

----------------------------------------------------------------------------
(* dispatchLoop.                                                           *)

Candidates == {n \in GetOnlineNodes : load[n] < LoadLimit}

\* The lowest load; which of equals depends on the order of the map.
selectNode == {n \in Candidates : \A m \in Candidates : load[n] <= load[m]}

Dispatch_NoRequeue ==
    /\ disp.pc = "wait" /\ chan # <<>>
    /\ chan' = Tail(chan)
    /\ \/ \E n \in selectNode : disp' = [pc |-> "selected", task |-> Head(chan), node |-> n]
       \/ selectNode = {} /\ UNCHANGED disp
    /\ UNCHANGED <<known, online, load, queued, unsent, requeue, sched, submitted, dropped, updates>>
    /\ UNCHANGED <<target, late, failVars>>

\* A task is taken and a node selected; without one an AfterFunc will send
\* the task again.  A cancelled context does not keep the select from
\* taking another task.
Dispatch ==
    /\ disp.pc = "wait" /\ chan # <<>>
    /\ chan' = Tail(chan)
    /\ \/ /\ \E n \in selectNode : disp' = [pc |-> "selected", task |-> Head(chan), node |-> n]
          /\ UNCHANGED requeue
       \/ /\ selectNode = {}
          /\ requeue' = requeue \cup {Head(chan)}
          /\ UNCHANGED disp
    /\ UNCHANGED <<known, online, load, queued, unsent, sched, submitted, dropped, updates>>
    /\ UNCHANGED <<target, late, failVars>>

\* The task has its target.  A remote node is called, with a client that is
\* made when there is none.
AssignTarget ==
    /\ disp.pc = "selected"
    /\ Assign(disp.task, disp.node)
    /\ disp' = IF disp.node = Local THEN Resting ELSE [disp EXCEPT !.pc = "calling"]
    /\ UNCHANGED <<known, online, load, queued, unsent, chan, requeue, sched, submitted, dropped, updates>>
    /\ UNCHANGED failVars

\* With an answer or an error: either way the task stays with its target.
CallReturns ==
    /\ disp.pc = "calling"
    /\ disp' = Resting
    /\ UNCHANGED <<known, online, load, queued, unsent, chan, requeue, sched, submitted, dropped, updates>>
    /\ UNCHANGED <<target, late, failVars>>

DispatchEnds ==
    /\ disp.pc = "wait" /\ sched # "up"
    /\ disp' = [disp EXCEPT !.pc = "ended"]
    /\ UNCHANGED <<known, online, load, queued, unsent, chan, requeue, sched, submitted, dropped, updates>>
    /\ UNCHANGED <<target, late, failVars>>

\* The AfterFunc gives the task up when the scheduler has stopped or the
\* channel is full.
RequeueFires(t) ==
    /\ t \in requeue
    /\ requeue' = requeue \ {t}
    /\ \/ sched = "up" /\ Len(chan) < ChanCap /\ chan' = Append(chan, t) /\ UNCHANGED dropped
       \/ sched = "up" /\ Len(chan) = ChanCap /\ dropped' = dropped \cup {t} /\ UNCHANGED chan
       \/ sched # "up" /\ UNCHANGED <<chan, dropped>>
    /\ UNCHANGED <<known, online, load, queued, unsent, disp, sched, submitted, updates>>
    /\ UNCHANGED <<target, late, failVars>>

Stop ==
    /\ sched = "up"
    /\ sched' = "stopping"
    /\ UNCHANGED <<known, online, load, queued, unsent, chan, disp, requeue, submitted, dropped, updates>>
    /\ UNCHANGED <<target, late, failVars>>

closeClients ==
    /\ sched = "stopping" /\ disp.pc = "ended"
    /\ sched' = "stopped"
    /\ UNCHANGED <<known, online, load, queued, unsent, chan, disp, requeue, submitted, dropped, updates>>
    /\ UNCHANGED <<target, late, failVars>>

----------------------------------------------------------------------------
(* Rebalance, under s.mu.                                                  *)

TasksOf(tgt, n) == {t \in queued : tgt[t] = n}

\* The first tasks of node ns[k], in an order pos of the map, go to the other
\* nodes in turn.
reassignFrom(tgt, k, count, pos, ns) ==
    LET mine == TasksOf(tgt, ns[k])
        rank(t) == Cardinality({u \in mine : pos[u] < pos[t]})
        other(i) == ns[IF i < k THEN i ELSE i + 1]
    IN  [t \in Tasks |-> IF t \in mine /\ rank(t) < count /\ Len(ns) > 1
                         THEN other(1 + (rank(t) % (Len(ns) - 1))) ELSE tgt[t]]

Relieved(tgt, k, pos, ns) ==
    LET avg == Cardinality(queued) \div Len(ns)
        current == Cardinality(TasksOf(tgt, ns[k]))
    IN  IF current > avg + Slack THEN reassignFrom(tgt, k, current - avg, pos, ns) ELSE tgt

\* One node after the other, the map in a new order for each.
Rebalanced(orders, ns) ==
    LET tgts[k \in 0..Len(ns)] == IF k = 0 THEN target ELSE Relieved(tgts[k - 1], k, orders[k], ns)
    IN  tgts[Len(ns)]

Rebalance ==
    /\ GetOnlineNodes # {}
    /\ \E ns \in SetToSeqs(GetOnlineNodes) :
         \E orders \in [1..Len(ns) -> Bijection(queued, 1..Cardinality(queued))] :
           target' = Rebalanced(orders, ns)
    /\ late' = (late \ {t \in Tasks : target'[t] # target[t]})
               \cup {t \in Tasks : target'[t] # target[t] /\ failed[target'[t]] # NoFailure}
    /\ UNCHANGED <<schedVars, failVars>>

----------------------------------------------------------------------------
(* Heartbeats.                                                             *)

Locked == mon.pc = "check"

RecordHeartbeat_NoLock(n) ==
    /\ heartbeat' = [heartbeat EXCEPT ![n] = "fresh"]
    /\ UNCHANGED <<failed, mon, jobs, stopped, clears>>
    /\ UNCHANGED <<schedVars, target, late>>

RecordHeartbeat(n) ==
    /\ ~Locked
    /\ heartbeat' = [heartbeat EXCEPT ![n] = "fresh"]
    /\ UNCHANGED <<failed, mon, jobs, stopped, clears>>
    /\ UNCHANGED <<schedVars, target, late>>

\* HeartbeatTimeout passes.
Expire(n) ==
    /\ heartbeat[n] = "fresh"
    /\ heartbeat' = [heartbeat EXCEPT ![n] = "late"]
    /\ UNCHANGED <<failed, mon, jobs, stopped, clears>>
    /\ UNCHANGED <<schedVars, target, late>>

ClearFailedNode(n) ==
    /\ ~Locked /\ failed[n] # NoFailure /\ clears < MaxClears
    /\ clears' = clears + 1
    /\ failed' = [failed EXCEPT ![n] = NoFailure]
    /\ UNCHANGED <<heartbeat, mon, jobs, stopped>>
    /\ UNCHANGED <<schedVars, target, late>>

\* The AfterFunc that was scheduled for the node is not cancelled.
MarkNodeRecovered(n) ==
    /\ ~Locked
    /\ failed' = [failed EXCEPT ![n] = NoFailure]
    /\ heartbeat' = [heartbeat EXCEPT ![n] = "fresh"]
    /\ UNCHANGED <<mon, jobs, stopped, clears>>
    /\ UNCHANGED <<schedVars, target, late>>

----------------------------------------------------------------------------
(* monitorLoop.                                                            *)

FreeTimers == {w \in Timers : jobs[w] = NoJob}

Silent == {n \in known : heartbeat[n] = "late"}

\* The ticker: checkNodeHealth locks f.mu and finds the silent nodes.
CheckBegins ==
    /\ mon.pc = "wait"
    /\ Cardinality({n \in known \cap Heard : failed[n] = NoFailure}) <= Cardinality(FreeTimers)
    /\ mon' = [Watching EXCEPT !.pc = "check", !.todo = Silent]
    /\ UNCHANGED <<heartbeat, failed, jobs, stopped, clears>>
    /\ UNCHANGED <<schedVars, target, late>>

\* The first failure takes down the node's tasks of this moment.
Failure_NoCount(n) ==
    IF failed[n] = NoFailure
    THEN [NoFailure EXCEPT !.retry = 1, !.tasks = TasksOf(target, n)]
    ELSE failed[n]

Failure(n) ==
    IF failed[n] = NoFailure
    THEN [NoFailure EXCEPT !.retry = 1, !.tasks = TasksOf(target, n)]
    ELSE [failed[n] EXCEPT !.retry = @ + 1]

\* MaxRetries-th failure: the node is removed, its tasks will be reassigned
\* when the lock is released.
RemovePermanently_NoTasks(n) ==
    /\ Failure(n).retry >= MaxRetries
    /\ known' = known \ {n}
    /\ failed' = [failed EXCEPT ![n] = NoFailure]
    /\ mon' = [mon EXCEPT !.todo = @ \ {n}]
    /\ UNCHANGED jobs

RemovePermanently(n) ==
    /\ Failure(n).retry >= MaxRetries
    /\ known' = known \ {n}
    /\ failed' = [failed EXCEPT ![n] = NoFailure]
    /\ mon' = [mon EXCEPT !.todo = @ \ {n},
                          !.pending = IF Failure(n).tasks = {} THEN @ ELSE Append(@, Failure(n).tasks)]
    /\ UNCHANGED jobs

\* Earlier: an AfterFunc reassigns them after ReassignDelay, once.  With no
\* tasks it does nothing.
ScheduleReassign(n) ==
    /\ Failure(n).retry < MaxRetries
    /\ failed' = [failed EXCEPT ![n] = [Failure(n) EXCEPT !.scheduled = TRUE]]
    /\ IF Failure(n).scheduled \/ Failure(n).tasks = {}
       THEN UNCHANGED jobs
       ELSE \E w \in FreeTimers :
               jobs' = [jobs EXCEPT ![w] = Job("delayed", Failure(n).tasks)]
    /\ mon' = [mon EXCEPT !.todo = @ \ {n}]
    /\ UNCHANGED known

handleNodeFailure(n) ==
    /\ mon.pc = "check" /\ n \in mon.todo
    /\ RemovePermanently(n) \/ ScheduleReassign(n)
    /\ UNCHANGED <<heartbeat, stopped, clears, target, late>>
    /\ UNCHANGED <<online, load, queued, unsent, chan, disp, requeue, sched, submitted, dropped, updates>>

\* Unlocked: the lists are reassigned one after the other.
CheckEnds ==
    /\ mon.pc = "check" /\ mon.todo = {}
    /\ mon' = [mon EXCEPT !.pc = "reassign"]
    /\ UNCHANGED <<heartbeat, failed, jobs, stopped, clears>>
    /\ UNCHANGED <<schedVars, target, late>>

NextList ==
    /\ mon.pc = "reassign" /\ jobs[None] = NoJob
    /\ IF mon.pending = <<>>
       THEN mon' = Watching /\ UNCHANGED jobs
       ELSE /\ mon' = [mon EXCEPT !.pending = Tail(@)]
            /\ jobs' = [jobs EXCEPT ![None] = Job("started", Head(mon.pending))]
    /\ UNCHANGED <<heartbeat, failed, stopped, clears>>
    /\ UNCHANGED <<schedVars, target, late>>

StopFailover ==
    /\ ~stopped
    /\ stopped' = TRUE
    /\ UNCHANGED <<heartbeat, failed, mon, jobs, clears>>
    /\ UNCHANGED <<schedVars, target, late>>

MonitorEnds ==
    /\ stopped /\ mon.pc = "wait"
    /\ mon' = [mon EXCEPT !.pc = "ended"]
    /\ UNCHANGED <<heartbeat, failed, jobs, stopped, clears>>
    /\ UNCHANGED <<schedVars, target, late>>

----------------------------------------------------------------------------
(* reassignTasks.                                                          *)

\* ReassignDelay has passed.
DelayOver(w) ==
    /\ jobs[w].phase = "delayed"
    /\ jobs' = [jobs EXCEPT ![w] = IF stopped THEN NoJob ELSE [@ EXCEPT !.phase = "started"]]
    /\ UNCHANGED <<heartbeat, failed, mon, stopped, clears>>
    /\ UNCHANGED <<schedVars, target, late>>

\* The nodes online now, in the order of the map.  A failed node is among
\* them until it is removed.
ReassignBegins(w) ==
    /\ jobs[w].phase = "started"
    /\ IF GetOnlineNodes = {}
       THEN jobs' = [jobs EXCEPT ![w] = NoJob] /\ late' = late \cup jobs[w].tasks
       ELSE /\ \E ns \in SetToSeqs(GetOnlineNodes) :
                 jobs' = [jobs EXCEPT ![w] = [@ EXCEPT !.phase = "moving", !.nodes = ns]]
            /\ UNCHANGED late
    /\ UNCHANGED <<heartbeat, failed, mon, stopped, clears>>
    /\ UNCHANGED <<schedVars, target>>

ReassignOne(w, t) ==
    /\ jobs[w].phase = "moving" /\ t \in jobs[w].tasks
    /\ IF t \in queued THEN Assign(t, Head(jobs[w].nodes)) ELSE UNCHANGED <<target, late>>
    /\ jobs' = [jobs EXCEPT ![w] =
                  IF @.tasks = {t} THEN NoJob
                  ELSE [phase |-> "moving", tasks |-> @.tasks \ {t},
                        nodes |-> Append(Tail(@.nodes), Head(@.nodes))]]
    /\ UNCHANGED <<heartbeat, failed, mon, stopped, clears>>
    /\ UNCHANGED schedVars

----------------------------------------------------------------------------
DispatchLoop == Dispatch \/ AssignTarget \/ CallReturns \/ DispatchEnds
Monitor == CheckBegins \/ (\E n \in Nodes : handleNodeFailure(n)) \/ CheckEnds
            \/ NextList \/ MonitorEnds
Reassign(w) == DelayOver(w) \/ ReassignBegins(w) \/ \E t \in Tasks : ReassignOne(w, t)

Next ==
    \/ \E n \in Nodes, up \in BOOLEAN, l \in Loads : UpdateNode(n, up, l)
    \/ \E t \in Tasks : SubmitTask(t) \/ Send(t) \/ SendCancelled(t) \/ RemoveTask(t) \/ RequeueFires(t)
    \/ DispatchLoop \/ Stop \/ closeClients \/ Rebalance
    \/ \E n \in Heard : RecordHeartbeat(n) \/ Expire(n) \/ ClearFailedNode(n) \/ MarkNodeRecovered(n)
    \/ Monitor \/ StopFailover
    \/ \E w \in Workers : Reassign(w)

\* Goroutines go on and timers fire.  Senders to a full channel are served
\* in turn, so that one that waits is not passed for ever.
Fairness ==
    /\ WF_vars(DispatchLoop) /\ WF_vars(closeClients) /\ WF_vars(Monitor)
    /\ \A t \in Tasks : SF_vars(Send(t)) /\ WF_vars(SendCancelled(t)) /\ WF_vars(RequeueFires(t))
    /\ \A w \in Workers : WF_vars(Reassign(w))

Spec == Init /\ [][Next]_vars /\ Fairness

----------------------------------------------------------------------------
(* Properties.                                                             *)

\* A task without a target (scheduler.go:dispatchTask) is on its way to one
\* as long as the scheduler runs: some channel, timer or goroutine has it,
\* unless its AfterFunc found the channel full.
UnassignedIsPending ==
    \A t \in queued :
      (target[t] = None /\ t \notin dropped /\ sched = "up")
      => t \in unsent \cup Range(chan) \cup requeue \cup {disp.task}

BeingMoved == UNION (Range(mon.pending) \cup {jobs[None].tasks})

\* A task that a node had before it failed is not left behind when the node
\* is removed for good (failover.go:handleNodeFailure): the monitor still
\* has it to move.  One that reached the node later, by a dispatch or a
\* reassignment that did not know of the failure, is left behind.
OnlyLateStranded ==
    \A t \in queued : (target[t] \in Nodes \ known /\ t \notin late) => t \in BeingMoved

\* A node is removed (failover.go:checkNodeHealth) only while its last
\* heartbeat is too old: one that arrives in the middle of the verdict
\* waits for the lock, and counts for the next check.
HeardNotRemoved ==
    [][\A n \in known \ known' : heartbeat[n] = "late"]_vars

\* A node that stays silent is removed in the end, whatever else the
\* monitor, the AfterFuncs and the dispatcher are busy with.
SilentRemoved ==
    \A n \in Nodes : []<>(heartbeat[n] # "late" \/ n \notin known \/ stopped)

=============================================================================
