---------------------------- MODULE WebSocketHub ----------------------------
(***************************************************************************)
(* internal/api/websocket.go: the hub's goroutine, and for every client a  *)
(* goroutine that reads and one that writes.  A channel is a bounded       *)
(* sequence and a flag that says whether it is open; a rendezvous on an    *)
(* unbuffered channel is one step of both sides.                           *)
(***************************************************************************)
EXTENDS Naturals, Sequences

CONSTANTS
    Clients,      \* connections that clients may open
    Publishers,   \* goroutines that broadcast
    Messages,     \* what is broadcast, each at most once
    HubCap,       \* capacity of hub.broadcast
    SendCap       \* capacity of client.send

ASSUME HubAssumption ==
    /\ HubCap \in Nat \ {0}
    /\ SendCap \in Nat \ {0}
    /\ {"pong", "idle"} \cap Messages = {}

VARIABLES
    hub,          \* Run: "run" or "end"
    hubDone,      \* h.done is closed
    broadcast,    \* h.broadcast
    clients,      \* h.clients
    send,         \* client.send, its contents
    open,         \* client.send is not closed
    conn,         \* "none", "open", "closed"
    rp,           \* readPump, and before it ServeWS
    wp,           \* writePump
    hand,         \* the message writePump is writing
    got,          \* what has been written to the client
    taken,        \* what the hub has taken from broadcast
    since,        \* how much of it when the client was registered
    slow,         \* clients dropped because their channel was full
    pub,          \* publishers: "idle", or past tryBroadcast's first select
    sent,         \* messages that have been handed to tryBroadcast
    panic         \* who made the process crash

chans   == <<broadcast, send, open>>
pumps   == <<conn, rp, wp, hand, got>>
history == <<taken, since, slow>>
publishers == <<pub, sent>>
vars    == <<hub, hubDone, clients, chans, pumps, history, publishers, panic>>

Init ==
    /\ hub = "run" /\ hubDone = FALSE
    /\ broadcast = <<>>
    /\ clients = {}
    /\ send = [c \in Clients |-> <<>>]
    /\ open = [c \in Clients |-> TRUE]
    /\ conn = [c \in Clients |-> "none"]
    /\ rp = [c \in Clients |-> "none"]
    /\ wp = [c \in Clients |-> "none"]
    /\ hand = [c \in Clients |-> "pong"]
    /\ got = [c \in Clients |-> <<>>]
    /\ taken = <<>>
    /\ since = [c \in Clients |-> 0]
    /\ slow = {}
    /\ pub = [p \in Publishers |-> "idle"]
    /\ sent = {}
    /\ panic = "none"

----------------------------------------------------------------------------
(* Run.  Where several cases of the select are ready, any one is taken.    *)

\* close(ch) of the channels in C; closing a closed one panics.
CloseSend(C) ==
    /\ open' = [c \in Clients |-> open[c] /\ c \notin C]
    /\ panic' = IF \A c \in C : open[c] THEN panic ELSE "hub"

HubEnds_LeavesOpen ==
    /\ hub = "run" /\ hubDone
    /\ hub' = "end"
    /\ clients' = {}
    /\ UNCHANGED <<hubDone, chans, pumps, history, publishers, panic>>

\* h.done: all channels are closed.
HubEnds ==
    /\ hub = "run" /\ hubDone
    /\ hub' = "end"
    /\ CloseSend(clients)
    /\ clients' = {}
    /\ UNCHANGED <<hubDone, broadcast, send, pumps, history, publishers>>

Register(c) ==
    /\ hub = "run" /\ rp[c] = "register"
    /\ clients' = clients \cup {c}
    /\ rp' = [rp EXCEPT ![c] = "read"]
    /\ wp' = [wp EXCEPT ![c] = "select"]
    /\ since' = [since EXCEPT ![c] = Len(taken)]
    /\ UNCHANGED <<hub, hubDone, chans, conn, hand, got, taken, slow, panic, publishers>>

Unregister_KeepsEntry(c) ==
    /\ hub = "run" /\ rp[c] = "unregister"
    /\ CloseSend({c} \cap clients)
    /\ rp' = [rp EXCEPT ![c] = "end"]
    /\ conn' = [conn EXCEPT ![c] = "closed"]
    /\ UNCHANGED <<hub, hubDone, clients, broadcast, send, wp, hand, got, history, publishers>>

\* The deferred part of readPump, up to conn.Close.
Unregister(c) ==
    /\ hub = "run" /\ rp[c] = "unregister"
    /\ clients' = clients \ {c}
    /\ CloseSend({c} \cap clients)
    /\ rp' = [rp EXCEPT ![c] = "end"]
    /\ conn' = [conn EXCEPT ![c] = "closed"]
    /\ UNCHANGED <<hub, hubDone, broadcast, send, wp, hand, got, history, publishers>>

Deliver_DropsMessage ==
    /\ hub = "run" /\ broadcast # <<>>
    /\ send' = [c \in Clients |->
                  IF c \in clients /\ Len(send[c]) < SendCap
                  THEN Append(send[c], Head(broadcast)) ELSE send[c]]
    /\ taken' = Append(taken, Head(broadcast))
    /\ broadcast' = Tail(broadcast)
    /\ UNCHANGED <<hub, hubDone, clients, open, pumps, since, slow, panic, publishers>>

\* A message to all clients; one whose channel is full is dropped.
Deliver ==
    LET full == {c \in clients : Len(send[c]) = SendCap} IN
    /\ hub = "run" /\ broadcast # <<>>
    /\ send' = [c \in Clients |->
                  IF c \in clients \ full
                  THEN Append(send[c], Head(broadcast)) ELSE send[c]]
    /\ open' = [c \in Clients |-> open[c] /\ c \notin full]
    /\ panic' = IF \A c \in clients : open[c] THEN panic ELSE "hub"
    /\ clients' = clients \ full
    /\ slow' = slow \cup full
    /\ taken' = Append(taken, Head(broadcast))
    /\ broadcast' = Tail(broadcast)
    /\ UNCHANGED <<hub, hubDone, pumps, since, publishers>>

HubClose ==
    /\ ~hubDone /\ hubDone' = TRUE
    /\ UNCHANGED <<hub, clients, chans, pumps, history, panic, publishers>>

----------------------------------------------------------------------------
(* tryBroadcast: the first select looks at h.done only.                    *)

Broadcast(p, m) ==
    /\ pub[p] = "idle" /\ m \notin sent
    /\ pub' = IF hubDone THEN pub ELSE [pub EXCEPT ![p] = m]
    /\ sent' = sent \cup {m}
    /\ UNCHANGED <<hub, hubDone, clients, chans, pumps, history, panic>>

TryBroadcast(p) ==
    /\ pub[p] \in Messages
    /\ \/ Len(broadcast) < HubCap /\ broadcast' = Append(broadcast, pub[p])
       \/ hubDone /\ UNCHANGED broadcast
       \/ ~hubDone /\ Len(broadcast) = HubCap /\ UNCHANGED broadcast
    /\ pub' = [pub EXCEPT ![p] = "idle"]
    /\ UNCHANGED <<hub, hubDone, clients, send, open, pumps, history, sent, panic>>

----------------------------------------------------------------------------
(* A client's connection.                                                  *)

\* ServeWS: the connection is accepted and waits to be registered.
ServeWS(c) ==
    /\ conn[c] = "none"
    /\ conn' = [conn EXCEPT ![c] = "open"]
    /\ rp' = [rp EXCEPT ![c] = "register"]
    /\ UNCHANGED <<hub, hubDone, clients, chans, wp, hand, got, history, panic, publishers>>

PeerCloses(c) ==
    /\ conn[c] = "open"
    /\ conn' = [conn EXCEPT ![c] = "closed"]
    /\ UNCHANGED <<hub, hubDone, clients, chans, rp, wp, hand, got, history, panic, publishers>>

\* readPump: a ping arrives.  Other messages, valid or not, change nothing.
ReadPing(c) ==
    /\ rp[c] = "read" /\ conn[c] = "open"
    /\ rp' = [rp EXCEPT ![c] = "pong"]
    /\ UNCHANGED <<hub, hubDone, clients, chans, conn, wp, hand, got, history,
                   panic, publishers>>

\* handleMessage: a pong if there is room; sending on a closed channel panics.
Pong(c) ==
    /\ rp[c] = "pong"
    /\ rp' = [rp EXCEPT ![c] = "read"]
    /\ send' = IF open[c] /\ Len(send[c]) < SendCap
               THEN [send EXCEPT ![c] = Append(@, "pong")] ELSE send
    /\ panic' = IF open[c] THEN panic ELSE "pong"
    /\ UNCHANGED <<hub, hubDone, clients, broadcast, open, conn, wp, hand, got,
                   history, publishers>>

\* The read fails, or nothing was read for 60 seconds, which closes the
\* connection as well.
ReadFails(c) ==
    /\ rp[c] = "read"
    /\ rp' = [rp EXCEPT ![c] = "unregister"]
    /\ conn' = [conn EXCEPT ![c] = "closed"]
    /\ UNCHANGED <<hub, hubDone, clients, chans, wp, hand, got, history, panic, publishers>>

LeaveClosedHub_Blocks(c) == rp[c] = "unregister" /\ FALSE /\ UNCHANGED vars

\* The hub is gone, nobody takes the unregistration.
LeaveClosedHub(c) ==
    /\ rp[c] = "unregister" /\ hubDone
    /\ rp' = [rp EXCEPT ![c] = "end"]
    /\ conn' = [conn EXCEPT ![c] = "closed"]
    /\ UNCHANGED <<hub, hubDone, clients, chans, wp, hand, got, history, panic, publishers>>

\* writePump takes the next message from the channel.
TakeMessage(c) ==
    /\ wp[c] = "select" /\ send[c] # <<>>
    /\ wp' = [wp EXCEPT ![c] = "write"]
    /\ hand' = [hand EXCEPT ![c] = Head(send[c])]
    /\ send' = [send EXCEPT ![c] = Tail(@)]
    /\ UNCHANGED <<hub, hubDone, clients, broadcast, open, conn, rp, got,
                   history, panic, publishers>>

Written(c) ==
    /\ wp[c] = "write" /\ conn[c] = "open"
    /\ wp' = [wp EXCEPT ![c] = "select"]
    /\ got' = IF hand[c] = "pong" THEN got
              ELSE [got EXCEPT ![c] = Append(@, hand[c])]
    /\ UNCHANGED <<hub, hubDone, clients, chans, conn, rp, hand, history, panic, publishers>>

\* writePump ends and closes the connection: its channel is closed and
\* drained, a write fails or takes 10 seconds, or the heartbeat fails.
WriterEnds(c) ==
    /\ wp' = [wp EXCEPT ![c] = "end"]
    /\ conn' = [conn EXCEPT ![c] = "closed"]
    /\ UNCHANGED <<hub, hubDone, clients, chans, rp, hand, got, history, panic, publishers>>

ChannelClosed(c) == wp[c] = "select" /\ ~open[c] /\ send[c] = <<>> /\ WriterEnds(c)
WriteFails(c)    == wp[c] = "write" /\ WriterEnds(c)
HeartbeatFails(c) == wp[c] = "select" /\ conn[c] = "closed" /\ WriterEnds(c)

----------------------------------------------------------------------------
ClientStep(c) ==
    \/ ServeWS(c) \/ Register(c) \/ Unregister(c) \/ PeerCloses(c)
    \/ ReadPing(c) \/ Pong(c) \/ ReadFails(c) \/ LeaveClosedHub(c)
    \/ TakeMessage(c) \/ Written(c)
    \/ ChannelClosed(c) \/ WriteFails(c) \/ HeartbeatFails(c)

PublisherStep(p) == TryBroadcast(p) \/ \E m \in Messages : Broadcast(p, m)

Alive == panic = "none"

Next ==
    /\ Alive
    /\ \/ HubEnds \/ Deliver \/ HubClose
       \/ \E c \in Clients : ClientStep(c)
       \/ \E p \in Publishers : PublisherStep(p)

\* Goroutines that can go on do, and a select takes every case in the end; on
\* a connection that is closed reads, writes and heartbeats fail.
Fairness ==
    /\ WF_vars(Alive /\ HubEnds)
    /\ WF_vars(Alive /\ Deliver)
    /\ \A p \in Publishers : WF_vars(Alive /\ TryBroadcast(p))
    /\ \A c \in Clients :
         /\ WF_vars(Alive /\ Register(c))
         /\ WF_vars(Alive /\ (Unregister(c) \/ LeaveClosedHub(c)))
         /\ WF_vars(Alive /\ Pong(c))
         /\ WF_vars(Alive /\ conn[c] = "closed" /\ ReadFails(c))
         /\ WF_vars(Alive /\ TakeMessage(c))
         /\ WF_vars(Alive /\ (Written(c) \/ WriteFails(c)))
         /\ WF_vars(Alive /\ (ChannelClosed(c) \/ HeartbeatFails(c)))

Spec == Init /\ [][Next]_vars /\ Fairness

----------------------------------------------------------------------------
\* What a client has been sent is a run of the hub's messages without a gap
\* from its registration on: a client too slow for its channel is cut off,
\* it never misses a message and goes on (the default case in Run).
NoGaps ==
    \A c \in Clients :
        /\ since[c] + Len(got[c]) <= Len(taken)
        /\ got[c] = SubSeq(taken, since[c] + 1, since[c] + Len(got[c]))

\* Run never closes a client's channel twice nor sends on a closed one; the
\* answer to a ping can, but only for a client that was dropped as slow or
\* after Close (handleMessage does not know that the hub has closed it).
OnlyPongPanics ==
    /\ panic # "hub"
    /\ panic = "pong" => hubDone \/ slow # {}

\* A connection that is closed, by the peer, a time-out or the hub, is given
\* up by all: both pumps end and the hub forgets the client - except a
\* client that waits to be registered with a hub that is closed.
ConnectionsReleased ==
    \A c \in Clients :
        conn[c] = "closed" ~>
            \/ c \notin clients /\ rp[c] = "end" /\ wp[c] = "end"
            \/ rp[c] = "register" /\ hubDone
            \/ ~Alive

\* After Close every client's pumps end, with all its connections.
CloseEndsPumps ==
    \A c \in Clients :
        hubDone ~>
            \/ wp[c] \in {"none", "end"} /\ rp[c] \in {"none", "register", "end"}
            \/ ~Alive
============================================================================
