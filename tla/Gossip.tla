------------------------------- MODULE Gossip -------------------------------
(***************************************************************************)
(* internal/cluster/discovery.go and membership.go: heartbeats with the    *)
(* sender's member list over UDP, time-outs, joining and leaving.  Time is *)
(* counted in gossip intervals: in each one every node that runs sends one *)
(* heartbeat, and datagrams arrive or are lost in the interval they were   *)
(* sent in.  A node is its address: a seed given by another name than the  *)
(* one its datagrams come from is not modelled.  The event channel is left *)
(* out: nothing subscribes to it.                                          *)
(***************************************************************************)
EXTENDS Naturals, FiniteSets

CONSTANTS
    Nodes,
    Seeds,        \* config.Seeds of every node
    Fanout,       \* GossipFanout
    Timeout,      \* FailureTimeout, in gossip intervals
    MaxLost,      \* bound on lost datagrams
    Joiners,      \* nodes that may call Join, once
    Leavers,      \* nodes that may be shut down
    Crashers      \* nodes that may crash

ASSUME GossipAssumption ==
    /\ Seeds \in [Nodes -> SUBSET Nodes]
    /\ Fanout \in Nat /\ Timeout \in Nat \ {0} /\ MaxLost \in Nat
    /\ Joiners \cup Leavers \cup Crashers \subseteq Nodes

VARIABLES
    state,        \* "new", "up", "leaving", "gone"
    age,          \* n's members and the intervals since each was last seen
    peers,        \* d.peers: where a node sends to
    net,          \* datagrams on their way
    beaten,       \* nodes that have sent this interval's heartbeat
    joins,        \* nodes that may still call Join
    lost          \* how many datagrams have been lost

vars == <<state, age, peers, net, beaten, joins, lost>>

Absent == Timeout + 2
Members(n) == {m \in Nodes : age[n][m] # Absent}
Running(n) == state[n] \in {"up", "leaving"}

Init ==
    /\ state = [n \in Nodes |-> "new"]
    /\ age = [n \in Nodes |-> [m \in Nodes |-> Absent]]
    /\ peers = [n \in Nodes |-> {}]
    /\ net = {}
    /\ beaten = {}
    /\ joins = Joiners
    /\ lost = 0

Start(n) ==
    /\ state[n] = "new"
    /\ state' = [state EXCEPT ![n] = "up"]
    /\ peers' = [peers EXCEPT ![n] = Seeds[n]]
    /\ UNCHANGED <<age, net, beaten, joins, lost>>

----------------------------------------------------------------------------
(* Sending.                                                                *)

Message(type, n, m, list) == [type |-> type, from |-> n, to |-> m, list |-> list]

\* Any Fanout of the peers.  What goes to a node that does not run is gone,
\* and a node ignores what it has sent itself.
Targets(n) ==
    {S \in SUBSET peers[n] :
        Cardinality(S) = IF Cardinality(peers[n]) < Fanout THEN Cardinality(peers[n]) ELSE Fanout}

broadcast(type, n, list, S) ==
    net' = net \cup {Message(type, n, m, list) : m \in {x \in S \ {n} : Running(x)}}

sendHeartbeat(n) ==
    /\ Running(n) /\ n \notin beaten
    /\ \E S \in Targets(n) : broadcast("heartbeat", n, Members(n), S)
    /\ beaten' = beaten \cup {n}
    /\ UNCHANGED <<state, age, peers, joins, lost>>

\* Join with the configured seeds.
Join(n) ==
    /\ state[n] = "up" /\ n \in joins
    /\ broadcast("join", n, {}, Seeds[n])
    /\ joins' = joins \ {n}
    /\ UNCHANGED <<state, age, peers, beaten, lost>>

\* Shutdown: the others are told, while the loops still run ...
Leave(n) ==
    /\ n \in Leavers /\ state[n] = "up"
    /\ state' = [state EXCEPT ![n] = "leaving"]
    /\ \E S \in Targets(n) : broadcast("leave", n, {}, S)
    /\ UNCHANGED <<age, peers, beaten, joins, lost>>

\* The process ends, and what it knew with it.
Ends(n) ==
    /\ state' = [state EXCEPT ![n] = "gone"]
    /\ age' = [age EXCEPT ![n] = [m \in Nodes |-> Absent]]
    /\ peers' = [peers EXCEPT ![n] = {}]
    /\ net' = {d \in net : d.to # n}
    /\ beaten' = beaten \ {n}
    /\ joins' = joins \ {n}
    /\ UNCHANGED lost

\* ... until stopCh has ended them.
Stopped(n) == state[n] = "leaving" /\ Ends(n)

Crash(n) == n \in Crashers /\ Running(n) /\ Ends(n)

----------------------------------------------------------------------------
(* Receiving.                                                              *)

\* AddMember of each node in S: seen now.  A node never adds itself.
AddMembers(n, S) ==
    age' = [age EXCEPT ![n] = [m \in Nodes |-> IF m \in S \ {n} THEN 0 ELSE age[n][m]]]

RemoveMember(n, m) == age' = [age EXCEPT ![n][m] = Absent]

\* One step: the locks taken one after the other only let a snapshot see
\* part of a merged list, as if the rest had come a moment later.
handleMessage(d, rest) ==
    /\ peers' = [peers EXCEPT ![d.to] = @ \cup {d.from}]
    /\ \/ /\ d.type \in {"heartbeat", "list"}
          /\ AddMembers(d.to, {d.from} \cup d.list)
          /\ net' = rest
       \/ /\ d.type = "join"
          /\ AddMembers(d.to, {d.from})
          /\ net' = IF Running(d.from)
                    THEN rest \cup {Message("list", d.to, d.from, Members(d.to) \cup {d.from})}
                    ELSE rest
       \/ /\ d.type = "leave"
          /\ RemoveMember(d.to, d.from)
          /\ net' = rest
    /\ UNCHANGED <<state, beaten, joins, lost>>

Deliver(d) == handleMessage(d, net \ {d})

Lose(d) ==
    /\ lost < MaxLost
    /\ lost' = lost + 1
    /\ net' = net \ {d}
    /\ UNCHANGED <<state, age, peers, beaten, joins>>

----------------------------------------------------------------------------
(* Time.                                                                   *)

Expired_Early(n) == {m \in Members(n) : age[n][m] >= Timeout}

Expired(n) == {m \in Members(n) : age[n][m] > Timeout}

CheckTimeouts_MarksOnly(n) == Running(n) /\ Expired(n) # {} /\ UNCHANGED vars

\* cleanupFailedNodes, on a timer of its own.
CheckTimeouts(n) ==
    /\ Running(n) /\ Expired(n) # {}
    /\ age' = [age EXCEPT ![n] = [m \in Nodes |-> IF m \in Expired(n) THEN Absent ELSE age[n][m]]]
    /\ UNCHANGED <<state, peers, net, beaten, joins, lost>>

Tick ==
    /\ net = {}
    /\ \A n \in Nodes : Running(n) => n \in beaten
    /\ beaten' = {}
    /\ age' = [n \in Nodes |-> [m \in Nodes |->
                 IF age[n][m] <= Timeout THEN age[n][m] + 1 ELSE age[n][m]]]
    /\ UNCHANGED <<state, peers, net, joins, lost>>

----------------------------------------------------------------------------
NodeStep(n) ==
    \/ Start(n) \/ sendHeartbeat(n) \/ CheckTimeouts(n)
    \/ Join(n) \/ Leave(n) \/ Stopped(n) \/ Crash(n)

Next ==
    \/ \E n \in Nodes : NodeStep(n)
    \/ \E d \in net : Deliver(d) \/ Lose(d)
    \/ Tick

\* The loops of a node that runs go on, time passes, datagrams do not wait.
Fairness ==
    /\ WF_vars(Tick)
    /\ WF_vars(\E d \in net : Deliver(d))
    /\ \A n \in Nodes :
         WF_vars(sendHeartbeat(n)) /\ WF_vars(CheckTimeouts(n)) /\ WF_vars(Stopped(n))

Spec == Init /\ [][Next]_vars /\ Fairness

----------------------------------------------------------------------------
(* Properties.                                                             *)

\* A node that runs is not given up (discovery.go:cleanupFailedNodes) by one
\* it exchanges heartbeats with while fewer datagrams are lost than fit in
\* the time-out, whoever else joins, leaves, crashes or is timed out.
LiveKept ==
    [][\A n, m \in Nodes :
         (/\ lost < Timeout
          /\ state[n] = "up" /\ state[m] = "up" /\ m \in peers[n] /\ n \in peers[m]
          /\ m \in Members(n))
         => m \in Members(n)' \/ state'[n] # "up"]_vars

\* When the last other node has left or crashed, a node forgets all of them
\* (membership.go:CheckTimeouts).  Two survivors do not: each tells the other
\* of the dead node, which counts as having seen it.
LonerForgets ==
    \A n \in Nodes :
      (state[n] = "up" /\ \A m \in Nodes \ {n} : state[m] = "gone")
      ~> (Members(n) = {} \/ state[n] # "up")
============================================================================
