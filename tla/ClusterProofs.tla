--------------------------- MODULE ClusterProofs ---------------------------
(***************************************************************************)
(* What holds of the scheduler and its failover for every number of nodes, *)
(* tasks and timers and every capacity of the channel: no waiting task is  *)
(* lost, only tasks that came too late are left with a removed node, and a *)
(* node is removed only while it is silent.                                *)
(***************************************************************************)
EXTENDS Cluster, SequenceTheorems, FiniteSetTheorems, WellFoundedInduction, TLAPS

Targets  == [Tasks -> Nodes \cup {None}]
Failures == [retry : Nat, tasks : SUBSET Tasks, scheduled : BOOLEAN]
Jobs     == [phase : {"none", "delayed", "started", "moving"},
             tasks : SUBSET Tasks, nodes : Seq(Nodes)]

\* Only tasks that were submitted are known to the scheduler.
SchedTypes ==
    /\ known \subseteq Nodes /\ online \subseteq Nodes
    /\ submitted \subseteq Tasks
    /\ queued \subseteq submitted /\ unsent \subseteq submitted /\ requeue \subseteq submitted
    /\ chan \in Seq(submitted)
    /\ disp \in [pc : {"wait", "selected", "calling", "ended"},
                 task : submitted \cup {None}, node : Nodes \cup {None}]
    /\ target \in Targets
    /\ \A t \in Tasks : target[t] # None => t \in submitted

\* The dispatcher at rest has no task; one it calls a node for has a target.
DispSound ==
    /\ disp.pc \in {"wait", "ended"} => disp.task = None
    /\ disp.pc = "selected" => disp.task # None /\ disp.node # None
    /\ disp.pc = "calling" => disp.task # None /\ target[disp.task] # None

\* The scheduler's part of the inductive invariant.
SInv == SchedTypes /\ DispSound /\ UnassignedIsPending

FailTypes ==
    /\ heartbeat \in [Nodes -> {"none", "fresh", "late"}]
    /\ failed \in [Nodes -> Failures]
    /\ mon \in [pc : {"wait", "check", "reassign", "ended"},
                todo : SUBSET Nodes, pending : Seq(SUBSET Tasks)]
    /\ jobs \in [Workers -> Jobs]

\* A verdict is about nodes that are still silent, lists to move are there
\* only between a check and the next, and the monitor moves them itself.
MonSound ==
    /\ mon.pc = "wait" => mon.pending = <<>>
    /\ mon.pc = "check" => \A n \in mon.todo : heartbeat[n] = "late"
    /\ jobs[None].phase # "delayed"
    /\ \A w \in Workers : jobs[w].phase = "moving" => jobs[w].nodes # <<>>

\* The list made at a node's first failure has every task the node still
\* has, but for those that came after it.
FailedTasks ==
    \A t \in queued, n \in Nodes :
        target[t] = n /\ failed[n] # NoFailure /\ t \notin late => t \in failed[n].tasks

\* The failover's part.
FInv == FailTypes /\ MonSound /\ FailedTasks /\ OnlyLateStranded

\* What a rebalancing may make of the targets: only queued tasks move, and
\* only to nodes that are online.
Balances ==
    {tgt \in Targets : \A t \in Tasks : tgt[t] # target[t] => t \in queued /\ tgt[t] \in GetOnlineNodes}

\* The steps that touch neither a target nor the failover.
SchedStep ==
    \/ \E n \in Nodes, up \in BOOLEAN, l \in Loads : UpdateNode(n, up, l)
    \/ \E t \in Tasks : SubmitTask(t) \/ Send(t) \/ SendCancelled(t) \/ RemoveTask(t) \/ RequeueFires(t)
    \/ Dispatch \/ CallReturns \/ DispatchEnds \/ Stop \/ closeClients

\* The failover's steps that change no target.
FailStep ==
    \/ \E n \in Heard : RecordHeartbeat(n) \/ Expire(n) \/ ClearFailedNode(n) \/ MarkNodeRecovered(n)
    \/ Monitor \/ StopFailover
    \/ \E w \in Workers : DelayOver(w) \/ ReassignBegins(w)

-----------------------------------------------------------------------------
(* Sequences.                                                               *)

LEMMA SeqRange ==
    ASSUME NEW S, NEW s \in Seq(S)
    PROVE  /\ Range(s) \subseteq S
           /\ \A x \in S : Append(s, x) \in Seq(S) /\ Range(Append(s, x)) = Range(s) \cup {x}
           /\ s # <<>> => /\ Head(s) \in S /\ Tail(s) \in Seq(S)
                          /\ Range(s) = {Head(s)} \cup Range(Tail(s))
<1>1. Range(s) \subseteq S
    BY DEF Range
<1>2. ASSUME NEW x \in S
      PROVE  Append(s, x) \in Seq(S) /\ Range(Append(s, x)) = Range(s) \cup {x}
    <2>1. /\ Append(s, x) \in Seq(S) /\ Len(Append(s, x)) = Len(s) + 1 /\ Len(s) \in Nat
          /\ \A i \in 1..Len(s) : Append(s, x)[i] = s[i]
          /\ Append(s, x)[Len(s) + 1] = x
        BY AppendProperties, LenProperties
    <2>2. /\ Range(Append(s, x)) = {Append(s, x)[i] : i \in 1..(Len(s) + 1)}
          /\ Range(s) = {s[i] : i \in 1..Len(s)}
        BY <2>1, RangeEquality
    <2>3. ASSUME NEW y PROVE y \in Range(Append(s, x)) <=> y \in Range(s) \cup {x}
        BY <2>1, <2>2
    <2> QED BY <2>1, <2>3
<1>3. ASSUME s # <<>>
      PROVE  Head(s) \in S /\ Tail(s) \in Seq(S) /\ Range(s) = {Head(s)} \cup Range(Tail(s))
    <2>1. /\ Head(s) \in S /\ Tail(s) \in Seq(S) /\ Len(Tail(s)) = Len(s) - 1
          /\ \A i \in 1..Len(Tail(s)) : Tail(s)[i] = s[i + 1]
          /\ Len(s) \in Nat \ {0} /\ Head(s) = s[1]
        BY <1>3, HeadTailProperties, EmptySeq
    <2>2. /\ Range(Tail(s)) = {Tail(s)[i] : i \in 1..(Len(s) - 1)}
          /\ Range(s) = {s[i] : i \in 1..Len(s)}
        <3>1. Range(Tail(s)) = {Tail(s)[i] : i \in 1..Len(Tail(s))}
            BY <2>1, RangeEquality
        <3>2. Range(s) = {s[i] : i \in 1..Len(s)}
            BY RangeEquality
        <3> QED BY <2>1, <3>1, <3>2
    <2>3. ASSUME NEW i \in 1..Len(s) PROVE i = 1 \/ (i - 1 \in 1..Len(Tail(s)) /\ s[i] = Tail(s)[i - 1])
        BY <2>1
    <2>4. Range(s) \subseteq {Head(s)} \cup Range(Tail(s))
        BY <2>1, <2>2, <2>3
    <2>5. {Head(s)} \cup Range(Tail(s)) \subseteq Range(s)
        <3>1. ASSUME NEW i \in 1..(Len(s) - 1) PROVE Tail(s)[i] \in Range(s)
            BY <2>1, <2>2
        <3> QED BY <2>1, <2>2, <3>1
    <2> QED BY <2>1, <2>4, <2>5
<1> QED BY <1>1, <1>2, <1>3

-----------------------------------------------------------------------------
(* The scheduler's invariant.                                               *)

LEMMA InitSInv == Init => SInv
<1> SUFFICES ASSUME Init PROVE SInv
    OBVIOUS
<1>1. SchedTypes
    BY ClusterAssumption, EmptySeq DEF Init, SchedTypes, Targets, Resting
<1>2. DispSound
    BY DEF Init, DispSound, Resting
<1>3. UnassignedIsPending
    BY DEF Init, UnassignedIsPending
<1> QED BY <1>1, <1>2, <1>3 DEF SInv

\* What the failover changes, but for targets, is nothing to the scheduler:
\* it may remove a node.
LEMMA SchedUnchanged ==
    ASSUME SInv, known' \subseteq Nodes,
           UNCHANGED <<online, queued, unsent, chan, disp, requeue, sched, submitted, dropped, target>>
    PROVE  SInv'
<1>1. SchedTypes'
    BY DEF SInv, SchedTypes
<1>2. DispSound'
    BY DEF SInv, DispSound
<1>3. UnassignedIsPending'
    BY DEF SInv, UnassignedIsPending
<1> QED BY <1>1, <1>2, <1>3 DEF SInv

\* A task that is queued may get another target, and is never left without.
LEMMA SchedRetarget ==
    ASSUME SInv, UNCHANGED schedVars, target' \in Targets,
           \A t \in Tasks : target'[t] # target[t] => t \in queued /\ target'[t] # None
    PROVE  SInv'
<1> USE DEF schedVars
<1>1. SchedTypes'
    <2>1. \A t \in Tasks : target'[t] # None => t \in submitted
        BY DEF SInv, SchedTypes
    <2> QED BY <2>1 DEF SInv, SchedTypes
<1>2. \A t \in Tasks : target[t] # None => target'[t] # None
    BY DEF SInv, SchedTypes
<1>3. DispSound'
    BY <1>2 DEF SInv, DispSound, SchedTypes
<1>4. UnassignedIsPending'
    BY <1>2 DEF SInv, UnassignedIsPending, SchedTypes
<1> QED BY <1>1, <1>3, <1>4 DEF SInv

LEMMA UpdateNodeSched ==
    ASSUME SInv, NEW n \in Nodes, NEW up \in BOOLEAN, NEW l \in Loads, UpdateNode(n, up, l)
    PROVE  SInv'
<1> USE DEF UpdateNode
<1>1. SchedTypes'
    BY DEF SInv, SchedTypes
<1>2. DispSound'
    BY DEF SInv, DispSound
<1>3. UnassignedIsPending'
    BY DEF SInv, UnassignedIsPending
<1> QED BY <1>1, <1>2, <1>3 DEF SInv

LEMMA SubmitTaskSched ==
    ASSUME SInv, NEW t \in Tasks, SubmitTask(t)
    PROVE  SInv'
<1> USE DEF SubmitTask
<1>1. SchedTypes'
    <2>1. submitted \subseteq submitted'
        OBVIOUS
    <2>2. chan' \in Seq(submitted')
        BY <2>1, SeqMonotonic DEF SInv, SchedTypes
    <2>3. disp' \in [pc : {"wait", "selected", "calling", "ended"},
                     task : submitted' \cup {None}, node : Nodes \cup {None}]
        BY <2>1 DEF SInv, SchedTypes
    <2> QED BY <2>1, <2>2, <2>3 DEF SInv, SchedTypes
<1>2. DispSound'
    BY DEF SInv, DispSound
<1>3. UnassignedIsPending'
    BY DEF SInv, UnassignedIsPending
<1> QED BY <1>1, <1>2, <1>3 DEF SInv

LEMMA SendSched ==
    ASSUME SInv, NEW t \in Tasks, Send(t)
    PROVE  SInv'
<1> USE DEF Send
<1>1. t \in submitted /\ chan' \in Seq(submitted) /\ Range(chan') = Range(chan) \cup {t}
    BY SeqRange DEF SInv, SchedTypes
<1>2. SchedTypes'
    BY <1>1 DEF SInv, SchedTypes
<1>3. DispSound'
    BY DEF SInv, DispSound
<1>4. UnassignedIsPending'
    BY <1>1 DEF SInv, UnassignedIsPending
<1> QED BY <1>2, <1>3, <1>4 DEF SInv

LEMMA SendCancelledSched ==
    ASSUME SInv, NEW t \in Tasks, SendCancelled(t)
    PROVE  SInv'
<1> USE DEF SendCancelled
<1>1. SchedTypes'
    BY DEF SInv, SchedTypes
<1>2. DispSound'
    BY DEF SInv, DispSound
<1>3. UnassignedIsPending'
    BY DEF UnassignedIsPending
<1> QED BY <1>1, <1>2, <1>3 DEF SInv

LEMMA RemoveTaskSched ==
    ASSUME SInv, NEW t \in Tasks, RemoveTask(t)
    PROVE  SInv'
<1> USE DEF RemoveTask
<1>1. SchedTypes'
    BY DEF SInv, SchedTypes
<1>2. DispSound'
    BY DEF SInv, DispSound
<1>3. UnassignedIsPending'
    BY DEF SInv, UnassignedIsPending
<1> QED BY <1>1, <1>2, <1>3 DEF SInv

LEMMA RequeueFiresSched ==
    ASSUME SInv, NEW t \in Tasks, RequeueFires(t)
    PROVE  SInv'
<1> USE DEF RequeueFires
<1>1. t \in submitted /\ Append(chan, t) \in Seq(submitted) /\ Range(Append(chan, t)) = Range(chan) \cup {t}
    BY SeqRange DEF SInv, SchedTypes
<1>2. SchedTypes'
    BY <1>1 DEF SInv, SchedTypes
<1>3. DispSound'
    BY DEF SInv, DispSound
<1>4. UnassignedIsPending'
    BY <1>1 DEF SInv, UnassignedIsPending
<1> QED BY <1>2, <1>3, <1>4 DEF SInv

LEMMA DispatchSched ==
    ASSUME SInv, Dispatch
    PROVE  SInv'
<1> USE DEF Dispatch
<1>1. /\ Head(chan) \in submitted /\ chan' \in Seq(submitted)
      /\ Range(chan) = {Head(chan)} \cup Range(chan')
    BY SeqRange DEF SInv, SchedTypes
<1>2. disp.pc = "wait" /\ disp.task = None /\ selectNode \subseteq Nodes
    BY DEF SInv, SchedTypes, DispSound, selectNode, Candidates, GetOnlineNodes, Known
<1>3. None \notin Tasks /\ None \notin Nodes /\ submitted \subseteq Tasks
    BY ClusterAssumption DEF SInv, SchedTypes
<1>4. \/ /\ \E n \in selectNode : disp' = [pc |-> "selected", task |-> Head(chan), node |-> n]
         /\ UNCHANGED requeue
      \/ requeue' = requeue \cup {Head(chan)} /\ UNCHANGED disp
    OBVIOUS
<1>5. SchedTypes'
    BY <1>1, <1>2, <1>4 DEF SInv, SchedTypes
<1>6. DispSound'
    BY <1>1, <1>2, <1>3, <1>4 DEF SInv, DispSound
<1>7. UnassignedIsPending'
    <2>1. SUFFICES ASSUME NEW t \in queued', target'[t] = None, t \notin dropped', sched' = "up"
                   PROVE  t \in unsent' \cup Range(chan') \cup requeue' \cup {disp'.task}
        BY DEF UnassignedIsPending
    <2>2. t \in unsent \cup Range(chan) \cup requeue
        BY <1>2, <1>3, <2>1 DEF SInv, UnassignedIsPending, SchedTypes
    <2> QED BY <1>1, <1>4, <2>2
<1> QED BY <1>5, <1>6, <1>7 DEF SInv

LEMMA AssignTargetSched ==
    ASSUME SInv, AssignTarget
    PROVE  SInv'
<1> USE DEF AssignTarget
<1>1. /\ disp.pc = "selected" /\ disp.task \in submitted /\ disp.node \in Nodes
      /\ target' = [target EXCEPT ![disp.task] = disp.node]
      /\ submitted \subseteq Tasks /\ None \notin Nodes /\ None \notin Tasks
    BY ClusterAssumption DEF SInv, SchedTypes, DispSound, Assign
<1>2. \A t \in Tasks : target'[t] = IF t = disp.task THEN disp.node ELSE target[t]
    BY <1>1 DEF SInv, SchedTypes, Targets
<1>3. disp' = Resting \/ disp' = [disp EXCEPT !.pc = "calling"]
    OBVIOUS
<1>4. SchedTypes'
    <2>1. target' \in Targets
        BY <1>1 DEF SInv, SchedTypes, Targets
    <2>2. disp' \in [pc : {"wait", "selected", "calling", "ended"},
                     task : submitted \cup {None}, node : Nodes \cup {None}]
        BY <1>3 DEF SInv, SchedTypes, Resting
    <2> QED BY <1>1, <1>2, <2>1, <2>2 DEF SInv, SchedTypes
<1>5. DispSound'
    BY <1>1, <1>2, <1>3 DEF SInv, SchedTypes, DispSound, Resting
<1>6. UnassignedIsPending'
    <2>1. SUFFICES ASSUME NEW t \in queued', target'[t] = None, t \notin dropped', sched' = "up"
                   PROVE  t \in unsent' \cup Range(chan') \cup requeue'
        BY DEF UnassignedIsPending
    <2>2. t \in Tasks /\ t # disp.task
        BY <1>1, <1>2, <2>1 DEF SInv, SchedTypes
    <2> QED BY <1>2, <2>1, <2>2 DEF SInv, UnassignedIsPending
<1> QED BY <1>4, <1>5, <1>6 DEF SInv

LEMMA CallReturnsSched ==
    ASSUME SInv, CallReturns
    PROVE  SInv'
<1> USE DEF CallReturns
<1>1. SchedTypes'
    BY DEF SInv, SchedTypes, Resting
<1>2. DispSound'
    BY DEF DispSound, Resting
<1>3. UnassignedIsPending'
    BY DEF SInv, DispSound, UnassignedIsPending
<1> QED BY <1>1, <1>2, <1>3 DEF SInv

LEMMA DispatchEndsSched ==
    ASSUME SInv, DispatchEnds
    PROVE  SInv'
<1> USE DEF DispatchEnds
<1>1. SchedTypes'
    BY DEF SInv, SchedTypes
<1>2. DispSound'
    BY DEF SInv, SchedTypes, DispSound
<1>3. UnassignedIsPending'
    BY DEF UnassignedIsPending
<1> QED BY <1>1, <1>2, <1>3 DEF SInv

LEMMA StopSched ==
    ASSUME SInv, Stop \/ closeClients
    PROVE  SInv'
<1> USE DEF Stop, closeClients
<1>1. SchedTypes'
    BY DEF SInv, SchedTypes
<1>2. DispSound'
    BY DEF SInv, DispSound
<1>3. UnassignedIsPending'
    BY DEF UnassignedIsPending
<1> QED BY <1>1, <1>2, <1>3 DEF SInv

-----------------------------------------------------------------------------
(* Rebalance.                                                               *)

\* A set of naturals that is not empty has a least member.
LEMMA LeastNatural ==
    ASSUME NEW S, S \subseteq Nat, S # {}
    PROVE  \E i \in S : \A j \in S : i <= j
<1> DEFINE R == {ss \in Nat \X Nat : ss[1] < ss[2]}
<1>1. R = OpToRel(<, Nat)
    BY DEF OpToRel
<1>2. IsWellFoundedOn(R, Nat)
    BY <1>1, NatLessThanWellFounded
<1> HIDE DEF R
<1>3. PICK i \in S : \A j \in S : ~(<<j, i>> \in R)
    BY <1>2, WFMin
<1>4. ASSUME NEW j \in S PROVE i <= j
    <2>1. ~(<<j, i>> \in R)
        BY <1>3
    <2>2. ~(j < i)
        BY <2>1 DEF R
    <2> QED BY <2>2
<1> QED BY <1>4

LEMMA OnlineOrder ==
    ASSUME SchedTypes, NEW ns \in SetToSeqs(GetOnlineNodes)
    PROVE  Len(ns) \in Nat /\ ns \in [1..Len(ns) -> GetOnlineNodes]
<1>1. IsFiniteSet(GetOnlineNodes)
    BY ClusterAssumption, FS_Subset DEF SchedTypes, GetOnlineNodes, Known
<1>2. Cardinality(GetOnlineNodes) \in Nat
    BY <1>1, FS_CardinalityType
<1>3. ns \in [1..Cardinality(GetOnlineNodes) -> GetOnlineNodes]
    BY DEF SetToSeqs
<1>4. ns \in Seq(GetOnlineNodes)
    BY <1>2, <1>3, SeqDef
<1> QED BY <1>4, LenProperties

LEMMA OnlineSequence ==
    ASSUME SchedTypes, GetOnlineNodes # {}, NEW ns \in SetToSeqs(GetOnlineNodes)
    PROVE  ns \in Seq(Nodes) /\ ns # <<>>
<1>1. IsFiniteSet(GetOnlineNodes) /\ GetOnlineNodes \subseteq Nodes
    BY ClusterAssumption, FS_Subset DEF SchedTypes, GetOnlineNodes, Known
<1>2. Cardinality(GetOnlineNodes) \in Nat \ {0}
    BY <1>1, FS_CardinalityType, FS_EmptySet
<1>3. ns \in [1..Cardinality(GetOnlineNodes) -> GetOnlineNodes]
    BY DEF SetToSeqs
<1>4. ns \in Seq(GetOnlineNodes)
    BY <1>2, <1>3, SeqDef
<1>5. ns # <<>>
    BY <1>2, <1>3, <1>4, LenProperties, EmptySeq
<1> QED BY <1>1, <1>4, <1>5, SeqMonotonic

\* One node's turn.
LEMMA RelievedBalances ==
    ASSUME SchedTypes, NEW ns, Len(ns) \in Nat, ns \in [1..Len(ns) -> GetOnlineNodes],
           NEW k \in 1..Len(ns), NEW pos, NEW tgt \in Balances
    PROVE  Relieved(tgt, k, pos, ns) \in Balances
<1> DEFINE count   == Cardinality(TasksOf(tgt, ns[k])) - Cardinality(queued) \div Len(ns)
           rank(t) == Cardinality({u \in TasksOf(tgt, ns[k]) : pos[u] < pos[t]})
           other(i) == ns[IF i < k THEN i ELSE i + 1]
           moved   == reassignFrom(tgt, k, count, pos, ns)
<1>1. Relieved(tgt, k, pos, ns) \in {tgt, moved}
    BY DEF Relieved
<1>2. \A t : rank(t) \in Nat
    <2> TAKE t
    <2>1. {u \in TasksOf(tgt, ns[k]) : pos[u] < pos[t]} \subseteq Tasks
        BY DEF TasksOf, SchedTypes
    <2> QED BY <2>1, ClusterAssumption, FS_Subset, FS_CardinalityType
<1> HIDE DEF rank, count
<1>3. \A t : Len(ns) > 1 => other(1 + (rank(t) % (Len(ns) - 1))) \in GetOnlineNodes
    <2> SUFFICES ASSUME NEW t, Len(ns) > 1
                 PROVE  other(1 + (rank(t) % (Len(ns) - 1))) \in GetOnlineNodes
        OBVIOUS
    <2>1. rank(t) % (Len(ns) - 1) \in 0..(Len(ns) - 2)
        BY <1>2
    <2> DEFINE i == 1 + (rank(t) % (Len(ns) - 1))
    <2>2. i \in 1..(Len(ns) - 1)
        BY <2>1
    <2> HIDE DEF i
    <2>3. (IF i < k THEN i ELSE i + 1) \in 1..Len(ns)
        BY <2>2
    <2>4. other(i) \in GetOnlineNodes
        BY <2>3
    <2> QED BY <2>4 DEF i
<1>4. moved = [t \in Tasks |-> IF t \in TasksOf(tgt, ns[k]) /\ rank(t) < count /\ Len(ns) > 1
                               THEN other(1 + (rank(t) % (Len(ns) - 1))) ELSE tgt[t]]
    BY DEF reassignFrom, rank
<1> HIDE DEF other
<1>5. \A t \in Tasks : \/ moved[t] = tgt[t]
                       \/ t \in queued /\ moved[t] \in GetOnlineNodes
    BY <1>3, <1>4 DEF TasksOf
<1>6. tgt \in Targets /\ \A t \in Tasks : tgt[t] # target[t] => t \in queued /\ tgt[t] \in GetOnlineNodes
    BY DEF Balances
<1>7. GetOnlineNodes \subseteq Nodes
    BY DEF GetOnlineNodes, Known, SchedTypes
<1>8. DOMAIN moved = Tasks /\ moved = [t \in Tasks |-> moved[t]]
    BY <1>4
<1> HIDE DEF moved
<1>9. moved \in Targets
    BY <1>5, <1>6, <1>7, <1>8 DEF Targets
<1>10. moved \in Balances
    BY <1>5, <1>6, <1>9 DEF Balances
<1> QED BY <1>1, <1>10

LEMMA RebalancedBalances ==
    ASSUME SchedTypes, NEW ns, Len(ns) \in Nat, ns \in [1..Len(ns) -> GetOnlineNodes], NEW orders
    PROVE  Rebalanced(orders, ns) \in Balances
<1> DEFINE turn(g, m)  == [k \in 0..m |-> IF k = 0 THEN target
                                          ELSE Relieved(g[k - 1], k, orders[k], ns)]
           tgts == CHOOSE g : g = turn(g, Len(ns))
           Short == {m \in Nat : ~ \E g : g = turn(g, m)}
           Wrong == {k \in 0..Len(ns) : tgts[k] \notin Balances}
<1>1. Rebalanced(orders, ns) = tgts[Len(ns)]
    BY DEF Rebalanced
<1>2. Short = {}
    <2> SUFFICES ASSUME Short # {} PROVE FALSE
        OBVIOUS
    <2>1. PICK m \in Short : \A j \in Short : m <= j
        BY LeastNatural
    <2>2. CASE m = 0
        <3> DEFINE g == [k \in 0..0 |-> target]
        <3>1. \A k \in 0..0 : k = 0
            OBVIOUS
        <3>2. g = turn(g, 0)
            BY <3>1
        <3> QED BY <2>1, <2>2, <3>2
    <2>3. CASE m # 0
        <3>1. m \in Nat \ {0} /\ m - 1 \in Nat /\ m - 1 \notin Short
            <4>1. m \in Nat
                OBVIOUS
            <4> HIDE DEF Short
            <4>2. m \in Nat \ {0} /\ m - 1 \in Nat /\ ~(m <= m - 1)
                BY <2>3, <4>1
            <4> QED BY <2>1, <4>2
        <3>2. PICK h : h = turn(h, m - 1)
            BY <3>1
        <3> DEFINE g == [k \in 0..m |-> IF k = m THEN Relieved(h[m - 1], m, orders[m], ns) ELSE h[k]]
        <3>3. ASSUME NEW k \in 0..m
              PROVE  g[k] = IF k = 0 THEN target ELSE Relieved(g[k - 1], k, orders[k], ns)
            <4>1. CASE k = m
                BY <3>1, <4>1
            <4>2. CASE k # m
                <5>1. k \in 0..(m - 1) /\ g[k] = h[k]
                    BY <3>1, <4>2
                <5>2. h[k] = IF k = 0 THEN target ELSE Relieved(h[k - 1], k, orders[k], ns)
                    BY <3>2, <5>1
                <5>3. k # 0 => k - 1 \in 0..m /\ k - 1 # m /\ g[k - 1] = h[k - 1]
                    BY <3>1, <5>1
                <5> QED BY <5>1, <5>2, <5>3
            <4> QED BY <4>1, <4>2
        <3>4. g = turn(g, m)
            BY <3>3
        <3> QED BY <2>1, <3>4
    <2> QED BY <2>2, <2>3
<1>3. tgts = turn(tgts, Len(ns))
    <2>1. \E g : g = turn(g, Len(ns))
        BY <1>2
    <2> QED BY <2>1
<1> HIDE DEF tgts
<1>4. /\ tgts[0] = target
      /\ \A k \in 1..Len(ns) : tgts[k] = Relieved(tgts[k - 1], k, orders[k], ns)
    <2>1. ASSUME NEW k \in 0..Len(ns)
          PROVE  tgts[k] = IF k = 0 THEN target ELSE Relieved(tgts[k - 1], k, orders[k], ns)
        BY <1>3
    <2> QED BY <2>1
<1>5. target \in Balances
    BY DEF Balances, SchedTypes
<1>6. Wrong = {}
    <2> SUFFICES ASSUME Wrong # {} PROVE FALSE
        OBVIOUS
    <2>1. PICK k \in Wrong : \A j \in Wrong : k <= j
        <3>1. Wrong \subseteq Nat
            OBVIOUS
        <3> HIDE DEF Wrong
        <3> QED BY <3>1, LeastNatural
    <2>2. k \in 1..Len(ns)
        BY <1>4, <1>5, <2>1
    <2>3. k - 1 \in 0..Len(ns) /\ ~(k <= k - 1)
        BY <2>2
    <2>4. tgts[k - 1] \in Balances
        BY <2>1, <2>3
    <2>5. tgts[k] \in Balances
        BY <1>4, <2>2, <2>4, RelievedBalances
    <2> QED BY <2>1, <2>5
<1>7. Len(ns) \in 0..Len(ns)
    OBVIOUS
<1> QED BY <1>1, <1>6, <1>7

LEMMA RebalanceMoves ==
    ASSUME SchedTypes, Rebalance
    PROVE  target' \in Balances
BY OnlineOrder, RebalancedBalances DEF Rebalance

LEMMA RebalanceSched ==
    ASSUME SInv, Rebalance
    PROVE  SInv'
<1>1. target' \in Balances
    BY RebalanceMoves DEF SInv
<1>2. GetOnlineNodes \subseteq Nodes /\ None \notin Nodes
    BY ClusterAssumption DEF SInv, SchedTypes, GetOnlineNodes, Known
<1>3. /\ target' \in Targets
      /\ \A t \in Tasks : target'[t] # target[t] => t \in queued /\ target'[t] # None
    BY <1>1, <1>2 DEF Balances
<1> QED BY <1>3, SchedRetarget DEF Rebalance

-----------------------------------------------------------------------------
(* The failover's invariant.                                                *)

LEMMA NewJob ==
    ASSUME NEW ph \in {"none", "delayed", "started"}, NEW ts \in SUBSET Tasks
    PROVE  Job(ph, ts) \in Jobs /\ Job(ph, ts).phase = ph /\ Job(ph, ts).tasks = ts
BY EmptySeq DEF Job, Jobs

LEMMA NoJobIsJob == NoJob \in Jobs /\ NoJob.phase = "none" /\ NoJob.tasks = {}
BY NewJob DEF NoJob

LEMMA InitFInv == Init => FInv
<1> SUFFICES ASSUME Init PROVE FInv
    OBVIOUS
<1>1. FailTypes
    <2>1. NoFailure \in Failures
        BY DEF NoFailure, Failures
    <2>2. NoJob \in Jobs
        BY NoJobIsJob
    <2>3. mon \in [pc : {"wait", "check", "reassign", "ended"},
                   todo : SUBSET Nodes, pending : Seq(SUBSET Tasks)]
        BY EmptySeq DEF Init, Watching
    <2> QED BY <2>1, <2>2, <2>3 DEF Init, FailTypes
<1>2. MonSound
    BY NoJobIsJob DEF Init, MonSound, Watching, Workers
<1>3. FailedTasks
    BY DEF Init, FailedTasks
<1>4. OnlyLateStranded
    BY DEF Init, OnlyLateStranded
<1> QED BY <1>1, <1>2, <1>3, <1>4 DEF FInv

\* The scheduler's own steps, in which nodes are only added and a task that
\* is new has no target.
LEMMA FailUnchanged ==
    ASSUME FInv, UNCHANGED <<target, late, failVars>>, known \subseteq known',
           \A t \in queued' : t \in queued \/ target[t] = None
    PROVE  FInv'
<1> USE DEF failVars
<1>1. FailTypes'
    BY DEF FInv, FailTypes
<1>2. MonSound'
    BY DEF FInv, MonSound
<1>3. FailedTasks'
    BY ClusterAssumption DEF FInv, FailedTasks
<1>4. OnlyLateStranded'
    <2>1. BeingMoved' = BeingMoved
        BY DEF BeingMoved
    <2> QED BY <2>1, ClusterAssumption DEF FInv, OnlyLateStranded
<1> QED BY <1>1, <1>2, <1>3, <1>4 DEF FInv

\* A task gets another target: it is late there unless the node is known and
\* has not failed.
LEMMA Retargeted ==
    ASSUME FInv, UNCHANGED <<queued, known, failed>>, target \in Targets, target' \in Targets,
           \A t \in queued \cap BeingMoved : t \in BeingMoved' \/ target'[t] \in known \/ t \in late',
           \A t \in queued :
              \/ target'[t] = target[t] /\ (t \in late => t \in late')
              \/ target'[t] \in known /\ failed[target'[t]] = NoFailure
              \/ t \in late'
    PROVE  FailedTasks' /\ OnlyLateStranded'
<1>1. FailedTasks'
    BY DEF FInv, FailedTasks
<1>2. OnlyLateStranded'
    BY DEF FInv, OnlyLateStranded
<1> QED BY <1>1, <1>2

LEMMA AssignTargetFail ==
    ASSUME SInv, FInv, AssignTarget
    PROVE  FInv'
<1> USE DEF AssignTarget, failVars
<1>1. /\ disp.task \in Tasks /\ disp.node \in Nodes /\ target \in Targets
      /\ target' = [target EXCEPT ![disp.task] = disp.node]
      /\ late' = IF disp.node \in known /\ failed[disp.node] = NoFailure
                 THEN late \ {disp.task} ELSE late \cup {disp.task}
    BY ClusterAssumption DEF SInv, SchedTypes, DispSound, Assign
<1>2. FailTypes'
    BY DEF FInv, FailTypes
<1>3. MonSound'
    BY DEF FInv, MonSound
<1>4. target' \in Targets
    BY <1>1 DEF Targets
<1>5. BeingMoved' = BeingMoved
    BY DEF BeingMoved
<1>6. ASSUME NEW t \in queued
      PROVE  \/ target'[t] = target[t] /\ (t \in late => t \in late')
             \/ target'[t] \in known /\ failed[target'[t]] = NoFailure
             \/ t \in late'
    BY <1>1 DEF Targets, SInv, SchedTypes
<1>7. FailedTasks' /\ OnlyLateStranded'
    BY <1>1, <1>4, <1>5, <1>6, Retargeted
<1> QED BY <1>2, <1>3, <1>7 DEF FInv

LEMMA RebalanceFail ==
    ASSUME SInv, FInv, Rebalance
    PROVE  FInv'
<1> USE DEF failVars, schedVars
<1>1. target' \in Balances
    BY RebalanceMoves DEF SInv
<1>2. UNCHANGED <<schedVars, failVars>> /\ target \in Targets
    BY DEF Rebalance, SInv, SchedTypes
<1>3. late' = (late \ {t \in Tasks : target'[t] # target[t]})
              \cup {t \in Tasks : target'[t] # target[t] /\ failed[target'[t]] # NoFailure}
    BY DEF Rebalance
<1>4. FailTypes'
    BY <1>2 DEF FInv, FailTypes
<1>5. MonSound'
    BY <1>2 DEF FInv, MonSound
<1>6. BeingMoved' = BeingMoved
    BY <1>2 DEF BeingMoved
<1>7. /\ target' \in Targets
      /\ \A t \in Tasks : target'[t] # target[t] => target'[t] \in known
    BY <1>1 DEF Balances, GetOnlineNodes, Known
<1>8. ASSUME NEW t \in queued
      PROVE  \/ target'[t] = target[t] /\ (t \in late => t \in late')
             \/ target'[t] \in known /\ failed[target'[t]] = NoFailure
             \/ t \in late'
    BY <1>3, <1>7 DEF SInv, SchedTypes
<1>9. FailedTasks' /\ OnlyLateStranded'
    BY <1>2, <1>6, <1>7, <1>8, Retargeted
<1> QED BY <1>4, <1>5, <1>9 DEF FInv

LEMMA HeartbeatFail ==
    ASSUME FInv, NEW n, RecordHeartbeat(n) \/ Expire(n)
    PROVE  FInv'
<1> USE DEF RecordHeartbeat, Expire, schedVars
<1>1. FailTypes'
    BY DEF FInv, FailTypes
<1>2. MonSound'
    BY DEF FInv, MonSound, FailTypes, Locked
<1>3. FailedTasks'
    BY DEF FInv, FailedTasks
<1>4. OnlyLateStranded'
    BY DEF FInv, OnlyLateStranded, BeingMoved
<1> QED BY <1>1, <1>2, <1>3, <1>4 DEF FInv

LEMMA ClearFailedNodeFail ==
    ASSUME FInv, NEW n, ClearFailedNode(n) \/ MarkNodeRecovered(n)
    PROVE  FInv'
<1> USE DEF ClearFailedNode, MarkNodeRecovered, schedVars
<1>1. FailTypes'
    <2>1. NoFailure \in Failures
        BY DEF NoFailure, Failures
    <2> QED BY <2>1 DEF FInv, FailTypes
<1>2. MonSound'
    BY DEF FInv, MonSound, Locked
<1>3. FailedTasks'
    <2>1. \A m \in Nodes : failed'[m] = failed[m] \/ failed'[m] = NoFailure
        BY DEF FInv, FailTypes
    <2> QED BY <2>1 DEF FInv, FailedTasks
<1>4. OnlyLateStranded'
    BY DEF FInv, OnlyLateStranded, BeingMoved
<1> QED BY <1>1, <1>2, <1>3, <1>4 DEF FInv

LEMMA CheckBeginsFail ==
    ASSUME SInv, FInv, CheckBegins
    PROVE  FInv'
<1> USE DEF schedVars
<1>1. /\ mon.pc = "wait" /\ mon' = [Watching EXCEPT !.pc = "check", !.todo = Silent]
      /\ UNCHANGED <<heartbeat, failed, jobs, schedVars, target, late>>
    BY DEF CheckBegins
<1>2. mon' = [pc |-> "check", todo |-> Silent, pending |-> <<>>]
    BY <1>1 DEF Watching
<1>3. mon'.pc = "check" /\ mon'.todo = Silent /\ mon'.pending = <<>> /\ mon.pending = <<>>
    <2>1. mon.pending = <<>>
        BY <1>1 DEF FInv, MonSound
    <2>2. mon'.pc = "check" /\ mon'.todo = Silent /\ mon'.pending = <<>>
        BY <1>2
    <2> QED BY <2>1, <2>2
<1>4. FailTypes'
    <2>1. Silent \in SUBSET Nodes /\ <<>> \in Seq(SUBSET Tasks)
        BY EmptySeq DEF SInv, SchedTypes, Silent
    <2>2. mon' \in [pc : {"wait", "check", "reassign", "ended"},
                    todo : SUBSET Nodes, pending : Seq(SUBSET Tasks)]
        BY <1>2, <2>1
    <2> QED BY <1>1, <2>2 DEF FInv, FailTypes
<1>5. MonSound'
    BY <1>1, <1>3 DEF FInv, MonSound, Silent
<1>6. FailedTasks'
    BY <1>1 DEF FInv, FailedTasks
<1>7. OnlyLateStranded'
    <2>1. BeingMoved' = BeingMoved
        BY <1>1, <1>3 DEF BeingMoved
    <2> QED BY <1>1, <2>1 DEF FInv, OnlyLateStranded
<1> QED BY <1>4, <1>5, <1>6, <1>7 DEF FInv

\* What a failure records of the node's tasks.
LEMMA FailureLists ==
    ASSUME SInv, FInv, NEW n \in Nodes
    PROVE  /\ Failure(n) \in Failures
           /\ [Failure(n) EXCEPT !.scheduled = TRUE] \in Failures
           /\ [Failure(n) EXCEPT !.scheduled = TRUE].tasks = Failure(n).tasks
           /\ \A t \in queued : target[t] = n /\ t \notin late => t \in Failure(n).tasks
<1>1. failed[n] \in Failures
    BY DEF FInv, FailTypes
<1>2. /\ Failure(n) \in Failures
      /\ \A t \in queued : target[t] = n /\ t \notin late => t \in Failure(n).tasks
    <2>1. CASE failed[n] = NoFailure
        <3>1. Failure(n) = [retry |-> 1, tasks |-> TasksOf(target, n), scheduled |-> FALSE]
            BY <2>1 DEF Failure, NoFailure
        <3>2. TasksOf(target, n) \in SUBSET Tasks /\ 1 \in Nat /\ FALSE \in BOOLEAN
            BY DEF TasksOf, SInv, SchedTypes
        <3>3. Failure(n) \in Failures
            <4>1. [retry |-> 1, tasks |-> TasksOf(target, n), scheduled |-> FALSE] \in Failures
                BY <3>2, Zenon DEF Failures
            <4> QED BY <3>1, <4>1, Zenon
        <3>4. Failure(n).tasks = TasksOf(target, n)
            BY <3>1
        <3> QED BY <3>3, <3>4 DEF TasksOf
    <2>2. CASE failed[n] # NoFailure
        <3>1. Failure(n) = [failed[n] EXCEPT !.retry = @ + 1]
            BY <2>2 DEF Failure
        <3>2. Failure(n) \in Failures /\ Failure(n).tasks = failed[n].tasks
            BY <1>1, <3>1 DEF Failures
        <3>3. \A t \in queued : target[t] = n /\ t \notin late => t \in failed[n].tasks
            BY <2>2 DEF FInv, FailedTasks
        <3> QED BY <3>2, <3>3
    <2> QED BY <2>1, <2>2
<1> HIDE DEF Failure
<1>3. [Failure(n) EXCEPT !.scheduled = TRUE] \in Failures
    BY <1>2, Zenon DEF Failures
<1>4. [Failure(n) EXCEPT !.scheduled = TRUE].tasks = Failure(n).tasks
    BY <1>2 DEF Failures
<1> QED BY <1>2, <1>3, <1>4

\* The node's list goes to the monitor when the node is removed.
LEMMA RemovePermanentlyFail ==
    ASSUME SInv, FInv, NEW n \in Nodes, handleNodeFailure(n), RemovePermanently(n)
    PROVE  FInv'
<1> DEFINE list == Failure(n).tasks
<1>1. /\ mon.pc = "check" /\ known' = known \ {n}
      /\ failed' = [failed EXCEPT ![n] = NoFailure]
      /\ UNCHANGED <<heartbeat, target, late, queued, jobs>>
    BY DEF handleNodeFailure, RemovePermanently
<1>2. mon' = [mon EXCEPT !.todo = @ \ {n},
                         !.pending = IF list = {} THEN @ ELSE Append(@, list)]
    BY DEF RemovePermanently
<1>3. /\ list \in SUBSET Tasks
      /\ \A t \in queued : target[t] = n /\ t \notin late => t \in list
    BY FailureLists DEF Failures
<1> HIDE DEF list
<1>4. mon.pending \in Seq(SUBSET Tasks) /\ mon.todo \in SUBSET Nodes
    BY DEF FInv, FailTypes
<1>5. /\ mon'.pc = mon.pc /\ mon'.todo = mon.todo \ {n}
      /\ mon'.pending = IF list = {} THEN mon.pending ELSE Append(mon.pending, list)
      /\ mon' = [pc |-> mon.pc, todo |-> mon'.todo, pending |-> mon'.pending]
    BY <1>2 DEF FInv, FailTypes
<1>6. /\ mon'.pending \in Seq(SUBSET Tasks)
      /\ Range(mon.pending) \subseteq Range(mon'.pending)
      /\ list # {} => list \in Range(mon'.pending)
    BY <1>3, <1>4, <1>5, SeqRange
<1>7. FailTypes'
    <2>1. NoFailure \in Failures
        BY DEF NoFailure, Failures
    <2>2. mon' \in [pc : {"wait", "check", "reassign", "ended"},
                    todo : SUBSET Nodes, pending : Seq(SUBSET Tasks)]
        BY <1>1, <1>4, <1>5, <1>6
    <2> QED BY <1>1, <2>1, <2>2 DEF FInv, FailTypes
<1>8. MonSound'
    BY <1>1, <1>5 DEF FInv, MonSound
<1>9. FailedTasks'
    <2>1. \A m \in Nodes : failed'[m] = failed[m] \/ failed'[m] = NoFailure
        BY <1>1 DEF FInv, FailTypes
    <2> QED BY <1>1, <2>1 DEF FInv, FailedTasks
<1>10. OnlyLateStranded'
    <2>1. BeingMoved \subseteq BeingMoved' /\ list \subseteq BeingMoved'
        BY <1>1, <1>6 DEF BeingMoved
    <2>2. SUFFICES ASSUME NEW t \in queued, target[t] \in Nodes \ known', t \notin late
                   PROVE  t \in BeingMoved'
        BY <1>1 DEF OnlyLateStranded
    <2>3. CASE target[t] = n
        BY <1>3, <2>1, <2>2, <2>3
    <2>4. CASE target[t] # n
        BY <1>1, <2>1, <2>2, <2>4 DEF FInv, OnlyLateStranded
    <2> QED BY <2>3, <2>4
<1> QED BY <1>7, <1>8, <1>9, <1>10 DEF FInv

\* Until then the list is kept, and given to a timer that moves it later.
LEMMA ScheduleReassignFail ==
    ASSUME SInv, FInv, NEW n \in Nodes, handleNodeFailure(n), ScheduleReassign(n)
    PROVE  FInv'
<1> DEFINE f == [Failure(n) EXCEPT !.scheduled = TRUE]
<1>1. /\ mon.pc = "check" /\ failed' = [failed EXCEPT ![n] = f]
      /\ mon' = [mon EXCEPT !.todo = @ \ {n}]
      /\ UNCHANGED <<heartbeat, target, late, queued, known>>
    BY DEF handleNodeFailure, ScheduleReassign
<1>2. \/ UNCHANGED jobs
      \/ \E w \in FreeTimers :
            jobs' = [jobs EXCEPT ![w] = Job("delayed", Failure(n).tasks)]
    BY DEF ScheduleReassign
<1>3. /\ f \in Failures /\ f.tasks = Failure(n).tasks /\ Failure(n).tasks \in SUBSET Tasks
      /\ \A t \in queued : target[t] = n /\ t \notin late => t \in f.tasks
    BY FailureLists DEF Failures
<1> HIDE DEF f
<1>4. \/ UNCHANGED jobs
      \/ \E w \in Timers :
            jobs' = [jobs EXCEPT ![w] = Job("delayed", Failure(n).tasks)]
    BY <1>2 DEF FreeTimers
<1>5. /\ jobs' \in [Workers -> Jobs] /\ jobs'[None] = jobs[None]
      /\ \A w \in Workers : jobs'[w] = jobs[w] \/ jobs'[w].phase = "delayed"
    <2>1. CASE UNCHANGED jobs
        BY <2>1 DEF FInv, FailTypes
    <2>2. ASSUME NEW w \in Timers,
                 jobs' = [jobs EXCEPT ![w] = Job("delayed", Failure(n).tasks)]
          PROVE  /\ jobs' \in [Workers -> Jobs] /\ jobs'[None] = jobs[None]
                 /\ \A v \in Workers : jobs'[v] = jobs[v] \/ jobs'[v].phase = "delayed"
        <3>1. w \in Workers /\ None \in Workers /\ w # None /\ jobs \in [Workers -> Jobs]
            BY ClusterAssumption DEF Workers, FInv, FailTypes
        <3>2. Job("delayed", Failure(n).tasks) \in Jobs /\ Job("delayed", Failure(n).tasks).phase = "delayed"
            BY <1>3, NewJob
        <3> QED BY <2>2, <3>1, <3>2
    <2> QED BY <1>4, <2>1, <2>2
<1>6. FailTypes'
    <2>1. mon' \in [pc : {"wait", "check", "reassign", "ended"},
                    todo : SUBSET Nodes, pending : Seq(SUBSET Tasks)]
        BY <1>1 DEF FInv, FailTypes
    <2>2. failed' \in [Nodes -> Failures]
        BY <1>1, <1>3 DEF FInv, FailTypes
    <2> QED BY <1>1, <1>5, <2>1, <2>2 DEF FInv, FailTypes
<1>7. mon'.pc = "check" /\ mon'.todo = mon.todo \ {n} /\ mon'.pending = mon.pending
    BY <1>1 DEF FInv, FailTypes
<1>8. MonSound'
    <2>1. None \in Workers
        BY DEF Workers
    <2> QED BY <1>1, <1>5, <1>7, <2>1 DEF FInv, MonSound
<1>9. FailedTasks'
    <2>1. \A m \in Nodes : failed'[m] = IF m = n THEN f ELSE failed[m]
        BY <1>1 DEF FInv, FailTypes
    <2> QED BY <1>1, <1>3, <2>1 DEF FInv, FailedTasks
<1>10. OnlyLateStranded'
    <2>1. BeingMoved' = BeingMoved
        BY <1>5, <1>7 DEF BeingMoved
    <2> QED BY <1>1, <2>1 DEF FInv, OnlyLateStranded
<1> QED BY <1>6, <1>8, <1>9, <1>10 DEF FInv

\* The monitor and a stop, but for the lists.
LEMMA MonitorStepFail ==
    ASSUME FInv, CheckEnds \/ MonitorEnds \/ StopFailover
    PROVE  FInv'
<1>1. /\ \/ mon' = [mon EXCEPT !.pc = "reassign"]
         \/ mon' = [mon EXCEPT !.pc = "ended"]
         \/ UNCHANGED mon
      /\ UNCHANGED <<heartbeat, failed, jobs, known, queued, target, late>>
    BY DEF CheckEnds, MonitorEnds, StopFailover, schedVars
<1>2. FailTypes'
    BY <1>1 DEF FInv, FailTypes
<1>3. /\ mon'.todo = mon.todo /\ mon'.pending = mon.pending
      /\ mon'.pc \in {"reassign", "ended", mon.pc}
    BY <1>1 DEF FInv, FailTypes
<1>4. MonSound'
    BY <1>1, <1>3 DEF FInv, MonSound
<1>5. FailedTasks'
    BY <1>1 DEF FInv, FailedTasks
<1>6. OnlyLateStranded'
    <2>1. BeingMoved' = BeingMoved
        BY <1>1, <1>3 DEF BeingMoved
    <2> QED BY <1>1, <2>1 DEF FInv, OnlyLateStranded
<1> QED BY <1>2, <1>4, <1>5, <1>6 DEF FInv

LEMMA NextListFail ==
    ASSUME SInv, FInv, NextList
    PROVE  FInv'
<1>1. /\ mon.pc = "reassign" /\ jobs[None] = NoJob
      /\ UNCHANGED <<heartbeat, failed, known, queued, target, late>>
    BY DEF NextList, schedVars
<1>2. mon.pending \in Seq(SUBSET Tasks) /\ None \in Workers /\ jobs \in [Workers -> Jobs]
    BY DEF FInv, FailTypes, Workers
<1>3. FailedTasks'
    BY <1>1 DEF FInv, FailedTasks
<1>4. CASE mon.pending = <<>>
    <2>1. mon' = Watching /\ UNCHANGED jobs
        BY <1>4 DEF NextList
    <2>2. Watching \in [pc : {"wait", "check", "reassign", "ended"},
                        todo : SUBSET Nodes, pending : Seq(SUBSET Tasks)]
        BY EmptySeq DEF Watching
    <2>3. Watching.pc = "wait" /\ Watching.pending = <<>>
        BY DEF Watching
    <2> HIDE DEF Watching
    <2>4. FailTypes'
        BY <1>1, <2>1, <2>2 DEF FInv, FailTypes
    <2>5. MonSound'
        BY <1>1, <2>1, <2>3 DEF FInv, MonSound
    <2>6. OnlyLateStranded'
        <3>1. BeingMoved' = BeingMoved
            BY <1>4, <2>1, <2>3 DEF BeingMoved
        <3> QED BY <1>1, <3>1 DEF FInv, OnlyLateStranded
    <2> QED BY <1>3, <2>4, <2>5, <2>6 DEF FInv
<1>5. CASE mon.pending # <<>>
    <2> DEFINE job == Job("started", Head(mon.pending))
    <2>1. mon' = [mon EXCEPT !.pending = Tail(@)] /\ jobs' = [jobs EXCEPT ![None] = job]
        BY <1>5 DEF NextList
    <2>2. /\ Head(mon.pending) \in SUBSET Tasks /\ Tail(mon.pending) \in Seq(SUBSET Tasks)
          /\ Range(mon.pending) = {Head(mon.pending)} \cup Range(Tail(mon.pending))
        BY <1>2, <1>5, SeqRange
    <2>3. mon'.pc = mon.pc /\ mon'.todo = mon.todo /\ mon'.pending = Tail(mon.pending)
        BY <2>1 DEF FInv, FailTypes
    <2>4. job \in Jobs /\ job.phase = "started" /\ job.tasks = Head(mon.pending)
        BY <2>2, NewJob
    <2> HIDE DEF job
    <2>5. FailTypes'
        <3>1. mon' \in [pc : {"wait", "check", "reassign", "ended"},
                        todo : SUBSET Nodes, pending : Seq(SUBSET Tasks)]
            BY <2>1, <2>2 DEF FInv, FailTypes
        <3> QED BY <1>1, <1>2, <2>1, <2>4, <3>1 DEF FInv, FailTypes
    <2>6. \A w \in Workers : jobs'[w] = IF w = None THEN job ELSE jobs[w]
        BY <1>2, <2>1
    <2>7. MonSound'
        BY <1>1, <1>2, <2>3, <2>4, <2>6 DEF FInv, MonSound
    <2>8. OnlyLateStranded'
        <3>2. BeingMoved' = UNION (Range(Tail(mon.pending)) \cup {Head(mon.pending)})
            BY <1>2, <2>3, <2>4, <2>6 DEF BeingMoved
        <3>3. BeingMoved = UNION (Range(mon.pending) \cup {{}})
            BY <1>1, NoJobIsJob DEF BeingMoved
        <3>4. BeingMoved \subseteq BeingMoved'
            BY <2>2, <3>2, <3>3
        <3> QED BY <1>1, <3>4 DEF FInv, OnlyLateStranded
    <2> QED BY <1>3, <2>5, <2>7, <2>8 DEF FInv
<1> QED BY <1>4, <1>5

LEMMA DelayOverFail ==
    ASSUME FInv, NEW w \in Workers, DelayOver(w)
    PROVE  FInv'
<1>1. /\ jobs[w].phase = "delayed"
      /\ jobs' = [jobs EXCEPT ![w] = IF stopped THEN NoJob ELSE [@ EXCEPT !.phase = "started"]]
      /\ UNCHANGED <<heartbeat, failed, mon, known, queued, target, late>>
    BY DEF DelayOver, schedVars
<1>2. w # None /\ None \in Workers /\ jobs \in [Workers -> Jobs]
    BY <1>1 DEF FInv, FailTypes, MonSound, Workers
<1>3. NoJob \in Jobs /\ NoJob.phase = "none"
    BY NoJobIsJob
<1>4. jobs[w] \in Jobs
    BY <1>2
<1>5. [jobs[w] EXCEPT !.phase = "started"] \in Jobs /\ [jobs[w] EXCEPT !.phase = "started"].phase = "started"
    BY <1>4 DEF Jobs
<1>6. /\ jobs' \in [Workers -> Jobs] /\ jobs'[None] = jobs[None]
      /\ \A v \in Workers : jobs'[v] = jobs[v] \/ jobs'[v].phase \in {"none", "started"}
    BY <1>1, <1>2, <1>3, <1>5
<1>7. FailTypes'
    BY <1>1, <1>6 DEF FInv, FailTypes
<1>8. MonSound'
    BY <1>1, <1>2, <1>6 DEF FInv, MonSound
<1>9. FailedTasks'
    BY <1>1 DEF FInv, FailedTasks
<1>10. OnlyLateStranded'
    <2>1. BeingMoved' = BeingMoved
        BY <1>1, <1>6 DEF BeingMoved
    <2> QED BY <1>1, <2>1 DEF FInv, OnlyLateStranded
<1> QED BY <1>7, <1>8, <1>9, <1>10 DEF FInv

\* When no node is online the job gives its tasks up.
LEMMA ReassignBeginsFail ==
    ASSUME SInv, FInv, NEW w \in Workers, ReassignBegins(w)
    PROVE  FInv'
<1>1. /\ jobs[w].phase = "started"
      /\ UNCHANGED <<heartbeat, failed, mon, known, queued, target>>
    BY DEF ReassignBegins, schedVars
<1>2. /\ None \in Workers /\ jobs \in [Workers -> Jobs] /\ jobs[w] \in Jobs
      /\ target \in Targets
    BY DEF FInv, FailTypes, Workers, SInv, SchedTypes
<1>3. CASE GetOnlineNodes = {}
    <2>1. jobs' = [jobs EXCEPT ![w] = NoJob] /\ late' = late \cup jobs[w].tasks
        BY <1>3 DEF ReassignBegins
    <2>2. NoJob \in Jobs /\ NoJob.phase = "none" /\ NoJob.tasks = {}
        BY NoJobIsJob
    <2>3. /\ jobs' \in [Workers -> Jobs]
          /\ \A v \in Workers : jobs'[v] = IF v = w THEN NoJob ELSE jobs[v]
        BY <1>2, <2>1, <2>2
    <2>4. FailTypes'
        BY <1>1, <2>3 DEF FInv, FailTypes
    <2>5. MonSound'
        BY <1>1, <1>2, <2>2, <2>3 DEF FInv, MonSound
    <2>6. \A t \in BeingMoved : t \in BeingMoved' \/ t \in late'
        BY <1>1, <1>2, <2>1, <2>2, <2>3 DEF BeingMoved
    <2>7. \A t \in queued : target'[t] = target[t] /\ (t \in late => t \in late')
        BY <1>1, <2>1
    <2>8. FailedTasks' /\ OnlyLateStranded'
        BY <1>1, <1>2, <2>6, <2>7, Retargeted
    <2> QED BY <2>4, <2>5, <2>8 DEF FInv
<1>4. CASE GetOnlineNodes # {}
    <2>1. PICK ns \in SetToSeqs(GetOnlineNodes) :
             jobs' = [jobs EXCEPT ![w] = [@ EXCEPT !.phase = "moving", !.nodes = ns]]
        BY <1>4 DEF ReassignBegins
    <2>2. UNCHANGED late
        BY <1>4 DEF ReassignBegins
    <2>3. ns \in Seq(Nodes) /\ ns # <<>>
        BY <1>4, OnlineSequence DEF SInv
    <2> DEFINE job == [jobs[w] EXCEPT !.phase = "moving", !.nodes = ns]
    <2>4. job \in Jobs /\ job.phase = "moving" /\ job.nodes = ns /\ job.tasks = jobs[w].tasks
        BY <1>2, <2>3 DEF Jobs
    <2> HIDE DEF job
    <2>5. /\ jobs' \in [Workers -> Jobs]
          /\ \A v \in Workers : jobs'[v] = IF v = w THEN job ELSE jobs[v]
        BY <1>2, <2>1, <2>4 DEF job
    <2>6. FailTypes'
        BY <1>1, <2>5 DEF FInv, FailTypes
    <2>7. MonSound'
        BY <1>1, <1>2, <2>3, <2>4, <2>5 DEF FInv, MonSound
    <2>8. FailedTasks'
        BY <1>1, <2>2 DEF FInv, FailedTasks
    <2>9. OnlyLateStranded'
        <3>1. jobs'[None].tasks = jobs[None].tasks
            BY <1>2, <2>4, <2>5
        <3>2. BeingMoved' = BeingMoved
            BY <1>1, <3>1 DEF BeingMoved
        <3> QED BY <1>1, <2>2, <3>2 DEF FInv, OnlyLateStranded
    <2> QED BY <2>6, <2>7, <2>8, <2>9 DEF FInv
<1> QED BY <1>3, <1>4

\* One task of a job goes to the next node of its round.
LEMMA ReassignOneSched ==
    ASSUME SInv, FInv, NEW w \in Workers, NEW t \in Tasks, ReassignOne(w, t)
    PROVE  SInv'
<1>1. jobs[w] \in Jobs /\ jobs[w].phase = "moving" /\ jobs[w].nodes # <<>>
    BY DEF ReassignOne, FInv, FailTypes, MonSound
<1>2. Head(jobs[w].nodes) \in Nodes /\ None \notin Nodes
    <2>1. jobs[w].nodes \in Seq(Nodes)
        BY <1>1 DEF Jobs
    <2> QED BY <1>1, <2>1, SeqRange, ClusterAssumption
<1>3. \/ UNCHANGED target
      \/ t \in queued /\ target' = [target EXCEPT ![t] = Head(jobs[w].nodes)]
    BY DEF ReassignOne, Assign
<1>4. target \in Targets
    BY DEF SInv, SchedTypes
<1>5. target' \in Targets /\ \A u \in Tasks : target'[u] # target[u] => u \in queued /\ target'[u] # None
    BY <1>2, <1>3, <1>4 DEF Targets
<1> QED BY <1>5, SchedRetarget DEF ReassignOne

LEMMA ReassignOneFail ==
    ASSUME SInv, FInv, NEW w \in Workers, NEW t \in Tasks, ReassignOne(w, t)
    PROVE  FInv'
<1> DEFINE n    == Head(jobs[w].nodes)
           rest == [phase |-> "moving", tasks |-> jobs[w].tasks \ {t},
                    nodes |-> Append(Tail(jobs[w].nodes), n)]
           job  == IF jobs[w].tasks = {t} THEN NoJob ELSE rest
<1>1. /\ jobs[w].phase = "moving"
      /\ jobs' = [jobs EXCEPT ![w] = job]
      /\ UNCHANGED <<heartbeat, failed, mon, known, queued>>
    BY DEF ReassignOne, schedVars
<1>2. /\ None \in Workers /\ jobs \in [Workers -> Jobs] /\ jobs[w] \in Jobs
      /\ jobs[w].nodes # <<>> /\ target \in Targets
    BY <1>1 DEF FInv, FailTypes, MonSound, Workers, SInv, SchedTypes
<1>3. /\ jobs[w].nodes \in Seq(Nodes) /\ jobs[w].tasks \in SUBSET Tasks
      /\ n \in Nodes
      /\ Append(Tail(jobs[w].nodes), n) \in Seq(Nodes)
      /\ Append(Tail(jobs[w].nodes), n) # <<>>
    <2>1. jobs[w].nodes \in Seq(Nodes) /\ jobs[w].tasks \in SUBSET Tasks
        BY <1>2 DEF Jobs
    <2>2. n \in Nodes /\ Tail(jobs[w].nodes) \in Seq(Nodes)
        BY <1>2, <2>1, SeqRange
    <2> QED BY <2>1, <2>2, AppendProperties
<1>4. /\ rest \in Jobs /\ rest.tasks = jobs[w].tasks \ {t} /\ rest.phase = "moving"
      /\ rest.nodes # <<>>
    BY <1>3 DEF Jobs
<1> HIDE DEF rest
<1>5. /\ job \in Jobs /\ job.tasks = jobs[w].tasks \ {t}
      /\ job.phase = "moving" => job.nodes # <<>>
      /\ job.phase # "delayed"
    <2>1. CASE jobs[w].tasks = {t}
        BY <2>1, NoJobIsJob
    <2>2. CASE jobs[w].tasks # {t}
        BY <1>4, <2>2
    <2> QED BY <2>1, <2>2
<1> HIDE DEF job
<1>6. /\ jobs' \in [Workers -> Jobs]
      /\ \A v \in Workers : jobs'[v] = IF v = w THEN job ELSE jobs[v]
    BY <1>1, <1>2, <1>5
<1>7. FailTypes'
    BY <1>1, <1>6 DEF FInv, FailTypes
<1>8. MonSound'
    BY <1>1, <1>2, <1>5, <1>6 DEF FInv, MonSound
<1>9. \A u \in BeingMoved : u \in BeingMoved' \/ u = t
    BY <1>1, <1>2, <1>5, <1>6 DEF BeingMoved
<1>10. CASE t \in queued
    <2>1. /\ target' = [target EXCEPT ![t] = n]
          /\ late' = IF n \in known /\ failed[n] = NoFailure THEN late \ {t} ELSE late \cup {t}
        BY <1>10 DEF ReassignOne, Assign
    <2>2. target' \in Targets
        BY <1>2, <1>3, <2>1 DEF Targets
    <2>3. ASSUME NEW u \in queued
          PROVE  \/ target'[u] = target[u] /\ (u \in late => u \in late')
                 \/ target'[u] \in known /\ failed[target'[u]] = NoFailure
                 \/ u \in late'
        BY <1>2, <2>1 DEF Targets, SInv, SchedTypes
    <2>4. target'[t] \in known \/ t \in late'
        BY <1>2, <2>1 DEF Targets
    <2>5. \A u \in queued \cap BeingMoved : u \in BeingMoved' \/ target'[u] \in known \/ u \in late'
        BY <1>9, <2>4
    <2>6. FailedTasks' /\ OnlyLateStranded'
        BY <1>1, <1>2, <2>2, <2>3, <2>5, Retargeted
    <2> QED BY <1>7, <1>8, <2>6 DEF FInv
<1>11. CASE t \notin queued
    <2>1. UNCHANGED <<target, late>>
        BY <1>11 DEF ReassignOne
    <2>2. \A u \in queued \cap BeingMoved : u \in BeingMoved'
        BY <1>9, <1>11
    <2>3. FailedTasks' /\ OnlyLateStranded'
        BY <1>1, <1>2, <2>1, <2>2, Retargeted
    <2> QED BY <1>7, <1>8, <2>3 DEF FInv
<1> QED BY <1>10, <1>11

-----------------------------------------------------------------------------
(* Every step.                                                              *)

LEMMA NextSplit ==
    Next => \/ SchedStep \/ FailStep \/ AssignTarget \/ Rebalance
            \/ \E w \in Workers, t \in Tasks : ReassignOne(w, t)
BY DEF Next, SchedStep, FailStep, DispatchLoop, Reassign

LEMMA SchedStepInv ==
    ASSUME SInv, FInv, SchedStep
    PROVE  SInv' /\ FInv'
<1>1. SInv'
    BY UpdateNodeSched, SubmitTaskSched, SendSched, SendCancelledSched, RemoveTaskSched,
       RequeueFiresSched, DispatchSched, CallReturnsSched, DispatchEndsSched, StopSched
    DEF SchedStep
<1>2. /\ UNCHANGED <<target, late, failVars>> /\ known \subseteq known'
      /\ \A t \in queued' : t \in queued \/ t \in Tasks \ submitted
    BY DEF SchedStep, UpdateNode, SubmitTask, Send, SendCancelled, RemoveTask, RequeueFires,
           Dispatch, CallReturns, DispatchEnds, Stop, closeClients
<1>3. \A t \in queued' : t \in queued \/ target[t] = None
    BY <1>2 DEF SInv, SchedTypes
<1>4. FInv'
    BY <1>2, <1>3, FailUnchanged
<1> QED BY <1>1, <1>4

LEMMA FailStepInv ==
    ASSUME SInv, FInv, FailStep
    PROVE  SInv' /\ FInv'
<1>1. /\ UNCHANGED <<online, queued, unsent, chan, disp, requeue, sched, submitted, dropped, target>>
      /\ known' \subseteq known
    BY DEF FailStep, schedVars, RecordHeartbeat, Expire, ClearFailedNode, MarkNodeRecovered,
           Monitor, CheckBegins, handleNodeFailure, RemovePermanently, ScheduleReassign, CheckEnds,
           NextList, MonitorEnds, StopFailover, DelayOver, ReassignBegins
<1>2. SInv'
    <2>1. known' \subseteq Nodes
        BY <1>1 DEF SInv, SchedTypes
    <2> QED BY <1>1, <2>1, SchedUnchanged
<1>3. FInv'
    <2>1. ASSUME NEW n \in Nodes, handleNodeFailure(n) PROVE FInv'
        BY <2>1, RemovePermanentlyFail, ScheduleReassignFail DEF handleNodeFailure
    <2> QED BY <2>1, HeartbeatFail, ClearFailedNodeFail, CheckBeginsFail, MonitorStepFail, NextListFail,
               DelayOverFail, ReassignBeginsFail DEF FailStep, Monitor
<1> QED BY <1>2, <1>3

LEMMA StutterInv ==
    ASSUME SInv, FInv, UNCHANGED vars
    PROVE  SInv' /\ FInv'
<1>1. SInv'
    BY SchedUnchanged DEF vars, schedVars, SInv, SchedTypes
<1>2. FInv'
    BY FailUnchanged DEF vars, schedVars
<1> QED BY <1>1, <1>2

LEMMA NextInv ==
    ASSUME SInv, FInv, [Next]_vars
    PROVE  SInv' /\ FInv'
<1>1. CASE SchedStep
    BY <1>1, SchedStepInv
<1>2. CASE FailStep
    BY <1>2, FailStepInv
<1>3. CASE AssignTarget
    BY <1>3, AssignTargetSched, AssignTargetFail
<1>4. CASE Rebalance
    BY <1>4, RebalanceSched, RebalanceFail
<1>5. ASSUME NEW w \in Workers, NEW t \in Tasks, ReassignOne(w, t)
      PROVE  SInv' /\ FInv'
    BY <1>5, ReassignOneSched, ReassignOneFail
<1>6. CASE UNCHANGED vars
    BY <1>6, StutterInv
<1> QED BY <1>1, <1>2, <1>3, <1>4, <1>5, <1>6, NextSplit

\* Of the steps only a removal takes a node away.
LEMMA RemovedIsSilent ==
    ASSUME SInv, FInv, [Next]_vars
    PROVE  \A n \in known \ known' : heartbeat[n] = "late"
<1>1. CASE SchedStep
    BY <1>1 DEF SchedStep, UpdateNode, SubmitTask, Send, SendCancelled, RemoveTask, RequeueFires,
                Dispatch, CallReturns, DispatchEnds, Stop, closeClients
<1>2. CASE FailStep
    <2>1. ASSUME NEW n \in Nodes, handleNodeFailure(n), known' # known
          PROVE  known' = known \ {n} /\ heartbeat[n] = "late"
        BY <2>1 DEF handleNodeFailure, RemovePermanently, ScheduleReassign, FInv, MonSound
    <2>2. UNCHANGED known \/ \E n \in Nodes : handleNodeFailure(n)
        BY <1>2 DEF FailStep, schedVars, RecordHeartbeat, Expire, ClearFailedNode, MarkNodeRecovered,
                    Monitor, CheckBegins, CheckEnds, NextList, MonitorEnds, StopFailover,
                    DelayOver, ReassignBegins
    <2> QED BY <2>1, <2>2
<1>3. CASE AssignTarget \/ Rebalance \/ (\E w \in Workers, t \in Tasks : ReassignOne(w, t)) \/ UNCHANGED vars
    BY <1>3 DEF AssignTarget, Rebalance, ReassignOne, schedVars, vars
<1> QED BY <1>1, <1>2, <1>3, NextSplit

-----------------------------------------------------------------------------
(* The theorems.                                                            *)

\* Every behaviour of scheduler and failover satisfies the inductive
\* invariant.
THEOREM ClusterInvariant == Spec => [](SInv /\ FInv)
<1>1. Init => SInv /\ FInv
    BY InitSInv, InitFInv
<1>2. (SInv /\ FInv) /\ [Next]_vars => (SInv /\ FInv)'
    BY NextInv
<1> QED BY <1>1, <1>2, PTL DEF Spec

\* A queued task without a target is on its way to one (scheduler.go:
\* dispatchTask), unless its timer found the channel full or the scheduler
\* stops.
THEOREM ClusterUnassignedIsPending == Spec => []UnassignedIsPending
<1>1. SInv => UnassignedIsPending
    BY DEF SInv
<1> QED BY <1>1, ClusterInvariant, PTL

\* When a node is removed for good (failover.go:handleNodeFailure), the
\* tasks it had before it failed are with the monitor to be moved.
THEOREM ClusterOnlyLateStranded == Spec => []OnlyLateStranded
<1>1. FInv => OnlyLateStranded
    BY DEF FInv
<1> QED BY <1>1, ClusterInvariant, PTL

\* A node that was heard since its timeout is not removed (failover.go:
\* checkNodeHealth): the lock keeps heartbeats out of the verdict.
THEOREM ClusterHeardNotRemoved == Spec => HeardNotRemoved
<1>1. SInv /\ FInv /\ [Next]_vars => [\A n \in known \ known' : heartbeat[n] = "late"]_vars
    BY RemovedIsSilent
<1> QED BY <1>1, ClusterInvariant, PTL DEF Spec, HeardNotRemoved

=============================================================================
