------------------------- MODULE WebSocketHubProofs -------------------------
(***************************************************************************)
(* What a client of the hub is sent has no gaps, and only the answer to a  *)
(* ping can meet a closed channel, for any number of clients, publishers   *)
(* and messages and any capacities.                                        *)
(***************************************************************************)
EXTENDS WebSocketHub, SequenceTheorems, TLAPS

TypeOK ==
    /\ hubDone \in BOOLEAN
    /\ broadcast \in Seq(Messages) /\ taken \in Seq(Messages)
    /\ clients \subseteq Clients /\ slow \subseteq Clients
    /\ send \in [Clients -> Seq(Messages \cup {"pong"})]
    /\ open \in [Clients -> BOOLEAN]
    /\ conn \in [Clients -> {"none", "open", "closed"}]
    /\ rp \in [Clients -> {"none", "register", "read", "pong", "unregister", "end"}]
    /\ wp \in [Clients -> {"none", "select", "write", "end"}]
    /\ hand \in [Clients -> Messages \cup {"pong"}]
    /\ got \in [Clients -> Seq(Messages)]
    /\ since \in [Clients -> Nat]
    /\ pub \in [Publishers -> Messages \cup {"idle"}]
    /\ panic \in {"none", "hub", "pong"}

\* A connection that is not yet registered has an empty open channel, and
\* nobody writes to it.
NotYet ==
    \A c \in Clients :
        /\ conn[c] = "none" => rp[c] = "none"
        /\ rp[c] \in {"none", "register"} =>
              /\ c \notin clients /\ open[c] /\ wp[c] = "none"
              /\ send[c] = <<>> /\ got[c] = <<>>

\* The hub closes the channel of a client when it forgets the client, and it
\* does so for three reasons.
ClosedForCause ==
    /\ hub = "end" => hubDone
    /\ \A c \in Clients :
          /\ c \in clients => open[c]
          /\ ~open[c] => hubDone \/ slow # {} \/ rp[c] = "end"

\* The message a client's writer has in hand and has not written.
InHand(c) == wp[c] = "write" /\ hand[c] # "pong"

\* n numbers the entries of a channel q that holds messages of the hub's
\* sequence t: n[j] of t's messages have gone when the first j entries have.
Counts(n, q, t) ==
    /\ n \in [0..Len(q) -> 0..Len(t)]
    /\ \A j \in 1..Len(q) :
          /\ q[j] = "pong" => n[j] = n[j - 1]
          /\ q[j] # "pong" => n[j] = n[j - 1] + 1 /\ q[j] = t[n[j]]

\* The numbering of a client's channel: it begins after what the client has
\* got and, for one that is registered, ends with the hub's own count.
Numbered(c, n) ==
    /\ Counts(n, send[c], taken)
    /\ n[0] = since[c] + Len(got[c]) + (IF InHand(c) THEN 1 ELSE 0)
    /\ InHand(c) => hand[c] = taken[n[0]]
    /\ c \in clients => n[Len(send[c])] = Len(taken)

Writing(c) == wp[c] \in {"select", "write"}

\* Nothing is missing between what a client has got and what the hub has
\* taken.
InOrder == \A c \in Clients : Writing(c) => \E n : Numbered(c, n)

\* NoGaps, entry by entry.
GotInOrder ==
    \A c \in Clients :
        /\ since[c] + Len(got[c]) <= Len(taken)
        /\ \A i \in 1..Len(got[c]) : got[c][i] = taken[since[c] + i]

IInv == TypeOK /\ NotYet /\ ClosedForCause /\ InOrder /\ GotInOrder /\ OnlyPongPanics

-----------------------------------------------------------------------------
(* Numberings.                                                              *)

Entries == Messages \cup {"pong"}

\* A message that the hub takes and puts into the channel.
LEMMA CountsBoth ==
    ASSUME NEW q \in Seq(Entries), NEW t \in Seq(Messages), NEW m \in Messages,
           NEW n, Counts(n, q, t), n[Len(q)] = Len(t)
    PROVE  \E k : /\ Counts(k, Append(q, m), Append(t, m)) /\ k[0] = n[0]
                  /\ k[Len(Append(q, m))] = Len(Append(t, m))
<1> DEFINE q1 == Append(q, m)  t1 == Append(t, m)
           k == [j \in 0..Len(q1) |-> IF j = Len(q1) THEN Len(t1) ELSE n[j]]
<1>1. /\ Len(q1) = Len(q) + 1 /\ q1[Len(q) + 1] = m /\ m # "pong" /\ Len(q) \in Nat
      /\ \A j \in 1..Len(q) : q1[j] = q[j]
    BY HubAssumption
<1>2. /\ Len(t1) = Len(t) + 1 /\ t1[Len(t) + 1] = m /\ Len(t) \in Nat
      /\ \A j \in 1..Len(t) : t1[j] = t[j]
    OBVIOUS
<1> HIDE DEF q1, t1
<1>3. /\ n \in [0..Len(q) -> 0..Len(t)]
      /\ \A j \in 1..Len(q) :
            /\ q[j] = "pong" => n[j] = n[j - 1]
            /\ q[j] # "pong" => n[j] = n[j - 1] + 1 /\ q[j] = t[n[j]]
    BY DEF Counts
<1>4. /\ k \in [0..Len(q1) -> 0..Len(t1)] /\ k[Len(q1)] = Len(t1)
      /\ \A j \in 0..Len(q) : k[j] = n[j]
    BY <1>1, <1>2, <1>3
<1> HIDE DEF k
<1>5. ASSUME NEW j \in 1..Len(q1)
      PROVE  /\ q1[j] = "pong" => k[j] = k[j - 1]
             /\ q1[j] # "pong" => k[j] = k[j - 1] + 1 /\ q1[j] = t1[k[j]]
    <2>1. CASE j = Len(q1)
        BY <1>1, <1>2, <1>4, <2>1
    <2>2. CASE j # Len(q1)
        <3>1. j \in 1..Len(q) /\ j \in 0..Len(q) /\ j - 1 \in 0..Len(q)
            BY <1>1, <2>2
        <3>2. /\ n[j] \in 0..Len(t) /\ n[j - 1] \in 0..Len(t)
              /\ q[j] = "pong" => n[j] = n[j - 1]
              /\ q[j] # "pong" => n[j] = n[j - 1] + 1 /\ q[j] = t[n[j]]
            BY <1>3, <3>1
        <3>3. q1[j] = q[j]
            BY <1>1, <3>1
        <3>4. k[j] = n[j] /\ k[j - 1] = n[j - 1]
            BY <1>4, <3>1
        <3>5. n[j] \in 1..Len(t) => t1[n[j]] = t[n[j]]
            BY <1>2
        <3> QED BY <3>2, <3>3, <3>4, <3>5
    <2> QED BY <2>1, <2>2
<1>6. Counts(k, q1, t1)
    BY <1>4, <1>5 DEF Counts
<1>7. k[0] = n[0]
    BY <1>1, <1>4
<1> QED BY <1>4, <1>6, <1>7 DEF q1, t1

\* A message that the hub takes and does not put into the channel.
LEMMA CountsLonger ==
    ASSUME NEW q \in Seq(Entries), NEW t \in Seq(Messages), NEW m \in Messages,
           NEW n, Counts(n, q, t)
    PROVE  Counts(n, q, Append(t, m))
<1> DEFINE t1 == Append(t, m)
<1>1. /\ Len(t1) = Len(t) + 1 /\ Len(t) \in Nat /\ Len(q) \in Nat
      /\ \A j \in 1..Len(t) : t1[j] = t[j]
    OBVIOUS
<1> HIDE DEF t1
<1>2. n \in [0..Len(q) -> 0..Len(t1)]
    BY <1>1 DEF Counts
<1>3. ASSUME NEW j \in 1..Len(q)
      PROVE  /\ q[j] = "pong" => n[j] = n[j - 1]
             /\ q[j] # "pong" => n[j] = n[j - 1] + 1 /\ q[j] = t1[n[j]]
    <2>1. j - 1 \in 0..Len(q)
        BY <1>1
    <2>2. /\ n[j] \in 0..Len(t) /\ n[j - 1] \in 0..Len(t)
          /\ q[j] = "pong" => n[j] = n[j - 1]
          /\ q[j] # "pong" => n[j] = n[j - 1] + 1 /\ q[j] = t[n[j]]
        BY <2>1 DEF Counts
    <2>3. n[j] \in 1..Len(t) => t1[n[j]] = t[n[j]]
        BY <1>1
    <2> QED BY <2>2, <2>3
<1> QED BY <1>2, <1>3 DEF Counts, t1

\* A pong is not counted.
LEMMA CountsPong ==
    ASSUME NEW q \in Seq(Entries), NEW t \in Seq(Messages), NEW n, Counts(n, q, t)
    PROVE  \E k : /\ Counts(k, Append(q, "pong"), t) /\ k[0] = n[0]
                  /\ k[Len(Append(q, "pong"))] = n[Len(q)]
<1> DEFINE q1 == Append(q, "pong")
           k == [j \in 0..Len(q1) |-> IF j = Len(q1) THEN n[Len(q)] ELSE n[j]]
<1>1. /\ Len(q1) = Len(q) + 1 /\ q1[Len(q) + 1] = "pong" /\ Len(q) \in Nat
      /\ \A j \in 1..Len(q) : q1[j] = q[j]
    BY DEF Entries
<1> HIDE DEF q1
<1>2. /\ n \in [0..Len(q) -> 0..Len(t)]
      /\ \A j \in 1..Len(q) :
            /\ q[j] = "pong" => n[j] = n[j - 1]
            /\ q[j] # "pong" => n[j] = n[j - 1] + 1 /\ q[j] = t[n[j]]
    BY DEF Counts
<1>3. /\ k \in [0..Len(q1) -> 0..Len(t)] /\ k[Len(q1)] = n[Len(q)]
      /\ \A j \in 0..Len(q) : k[j] = n[j]
    BY <1>1, <1>2
<1> HIDE DEF k
<1>4. ASSUME NEW j \in 1..Len(q1)
      PROVE  /\ q1[j] = "pong" => k[j] = k[j - 1]
             /\ q1[j] # "pong" => k[j] = k[j - 1] + 1 /\ q1[j] = t[k[j]]
    <2>1. CASE j = Len(q1)
        BY <1>1, <1>3, <2>1
    <2>2. CASE j # Len(q1)
        <3>1. j \in 1..Len(q) /\ j \in 0..Len(q) /\ j - 1 \in 0..Len(q)
            BY <1>1, <2>2
        <3>2. /\ n[j] \in 0..Len(t) /\ n[j - 1] \in 0..Len(t)
              /\ q[j] = "pong" => n[j] = n[j - 1]
              /\ q[j] # "pong" => n[j] = n[j - 1] + 1 /\ q[j] = t[n[j]]
            BY <1>2, <3>1
        <3>3. q1[j] = q[j]
            BY <1>1, <3>1
        <3>4. k[j] = n[j] /\ k[j - 1] = n[j - 1]
            BY <1>3, <3>1
        <3> QED BY <3>2, <3>3, <3>4
    <2> QED BY <2>1, <2>2
<1>5. Counts(k, q1, t) /\ k[0] = n[0]
    BY <1>1, <1>3, <1>4 DEF Counts
<1> QED BY <1>3, <1>5 DEF q1

\* The first entry leaves the channel.
LEMMA CountsTail ==
    ASSUME NEW q \in Seq(Entries), NEW t \in Seq(Messages), NEW n, Counts(n, q, t), q # <<>>
    PROVE  \E k : /\ Counts(k, Tail(q), t) /\ k[0] = n[1] /\ k[Len(Tail(q))] = n[Len(q)]
<1> DEFINE q1 == Tail(q)
           k == [j \in 0..Len(q1) |-> n[j + 1]]
<1>1. /\ Len(q1) = Len(q) - 1 /\ Len(q) \in Nat \ {0}
      /\ \A j \in 1..Len(q1) : q1[j] = q[j + 1]
    OBVIOUS
<1> HIDE DEF q1
<1>2. /\ n \in [0..Len(q) -> 0..Len(t)]
      /\ \A j \in 1..Len(q) :
            /\ q[j] = "pong" => n[j] = n[j - 1]
            /\ q[j] # "pong" => n[j] = n[j - 1] + 1 /\ q[j] = t[n[j]]
    BY DEF Counts
<1>3. /\ k \in [0..Len(q1) -> 0..Len(t)] /\ k[Len(q1)] = n[Len(q)]
      /\ \A j \in 0..Len(q1) : k[j] = n[j + 1]
    BY <1>1, <1>2
<1> HIDE DEF k
<1>4. ASSUME NEW j \in 1..Len(q1)
      PROVE  /\ q1[j] = "pong" => k[j] = k[j - 1]
             /\ q1[j] # "pong" => k[j] = k[j - 1] + 1 /\ q1[j] = t[k[j]]
    <2>1. j + 1 \in 1..Len(q) /\ (j + 1) - 1 = j /\ (j - 1) + 1 = j
          /\ j \in 0..Len(q1) /\ j - 1 \in 0..Len(q1)
        BY <1>1
    <2> QED BY <1>1, <1>2, <1>3, <2>1
<1>5. Counts(k, q1, t) /\ k[0] = n[1]
    BY <1>1, <1>3, <1>4 DEF Counts
<1> QED BY <1>3, <1>5 DEF q1

LEMMA InitIInv == Init => IInv
<1> SUFFICES ASSUME Init PROVE IInv
    OBVIOUS
<1>1. TypeOK
    <2>1. /\ send \in [Clients -> Seq(Messages \cup {"pong"})]
          /\ got \in [Clients -> Seq(Messages)]
        BY DEF Init
    <2>2. /\ conn \in [Clients -> {"none", "open", "closed"}]
          /\ rp \in [Clients -> {"none", "register", "read", "pong", "unregister", "end"}]
          /\ wp \in [Clients -> {"none", "select", "write", "end"}]
          /\ hand \in [Clients -> Messages \cup {"pong"}]
          /\ pub \in [Publishers -> Messages \cup {"idle"}]
        BY DEF Init
    <2>3. broadcast \in Seq(Messages) /\ taken \in Seq(Messages)
        BY DEF Init
    <2>4. open \in [Clients -> BOOLEAN] /\ hubDone \in BOOLEAN
        BY Zenon DEF Init
    <2>5. since \in [Clients -> Nat]
        BY DEF Init
    <2> QED BY <2>1, <2>2, <2>3, <2>4, <2>5 DEF Init, TypeOK
<1>2. NotYet /\ ClosedForCause /\ InOrder /\ GotInOrder /\ OnlyPongPanics
    BY DEF Init, NotYet, ClosedForCause, InOrder, Writing, GotInOrder, OnlyPongPanics
<1> QED BY <1>1, <1>2 DEF IInv

\* What is not about messages leaves their order alone.
LEMMA SameOrder ==
    ASSUME InOrder, GotInOrder, UNCHANGED <<send, got, hand, since, taken>>,
           clients' \subseteq clients,
           \A c \in Clients : wp'[c] = wp[c] \/ wp'[c] = "end"
    PROVE  InOrder' /\ GotInOrder'
<1>1. InOrder'
    BY DEF InOrder, Writing, Numbered, InHand
<1>2. GotInOrder'
    BY DEF GotInOrder
<1> QED BY <1>1, <1>2

-----------------------------------------------------------------------------
(* Steps that are not about messages.                                       *)

LEMMA PublisherIInv ==
    ASSUME IInv, Alive, HubClose \/ \E p \in Publishers : PublisherStep(p)
    PROVE  IInv'
<1> USE HubAssumption DEF IInv, TypeOK, chans, pumps, history, publishers, Alive
<1>1. InOrder' /\ GotInOrder'
    <2>1. /\ UNCHANGED <<send, got, hand, since, taken>>
          /\ clients' = clients /\ wp' = wp
        BY DEF HubClose, PublisherStep, TryBroadcast, Broadcast
    <2> QED BY <2>1, SameOrder
<1>2. CASE HubClose
    BY <1>1, <1>2 DEF HubClose, NotYet, ClosedForCause, OnlyPongPanics
<1>3. ASSUME NEW p \in Publishers, TryBroadcast(p) PROVE IInv'
    <2>1. broadcast' \in Seq(Messages)
        <3>1. broadcast' = broadcast \/ broadcast' = Append(broadcast, pub[p])
            BY <1>3 DEF TryBroadcast
        <3>2. pub[p] \in Messages
            BY <1>3 DEF TryBroadcast
        <3>3. broadcast \in Seq(Messages)
            OBVIOUS
        <3> QED BY ONLY <3>1, <3>2, <3>3
    <2>2. pub' \in [Publishers -> Messages \cup {"idle"}]
        BY <1>3 DEF TryBroadcast
    <2>3. NotYet' /\ ClosedForCause' /\ OnlyPongPanics'
        BY <1>3 DEF TryBroadcast, NotYet, ClosedForCause, OnlyPongPanics
    <2> QED BY <1>1, <1>3, <2>1, <2>2, <2>3 DEF TryBroadcast
<1>4. ASSUME NEW p \in Publishers, NEW m \in Messages, Broadcast(p, m) PROVE IInv'
    BY <1>1, <1>4 DEF Broadcast, NotYet, ClosedForCause, OnlyPongPanics
<1> QED BY <1>2, <1>3, <1>4 DEF PublisherStep

LEMMA ReaderIInv ==
    ASSUME IInv, Alive, NEW c \in Clients,
           ServeWS(c) \/ PeerCloses(c) \/ ReadPing(c) \/ ReadFails(c) \/ LeaveClosedHub(c)
    PROVE  IInv'
<1> USE DEF IInv, TypeOK, chans, pumps, history, publishers, Alive
<1>1. InOrder' /\ GotInOrder'
    <2>1. /\ UNCHANGED <<send, got, hand, since, taken>>
          /\ clients' = clients /\ wp' = wp
        BY DEF ServeWS, PeerCloses, ReadPing, ReadFails, LeaveClosedHub
    <2> QED BY <2>1, SameOrder
<1>2. TypeOK'
    BY DEF ServeWS, PeerCloses, ReadPing, ReadFails, LeaveClosedHub
<1>3. NotYet'
    BY DEF ServeWS, PeerCloses, ReadPing, ReadFails, LeaveClosedHub, NotYet
<1>4. ClosedForCause'
    BY DEF ServeWS, PeerCloses, ReadPing, ReadFails, LeaveClosedHub, NotYet, ClosedForCause
<1>5. OnlyPongPanics'
    BY DEF ServeWS, PeerCloses, ReadPing, ReadFails, LeaveClosedHub, OnlyPongPanics
<1> QED BY <1>1, <1>2, <1>3, <1>4, <1>5

LEMMA WriterEndsIInv ==
    ASSUME IInv, Alive, NEW c \in Clients, ChannelClosed(c) \/ WriteFails(c) \/ HeartbeatFails(c)
    PROVE  IInv'
<1> USE DEF IInv, TypeOK, chans, pumps, history, publishers, Alive
<1>1. WriterEnds(c) /\ wp[c] # "none"
    BY DEF ChannelClosed, WriteFails, HeartbeatFails
<1> USE <1>1 DEF WriterEnds
<1>2. InOrder' /\ GotInOrder'
    BY SameOrder
<1>3. TypeOK'
    OBVIOUS
<1>4. NotYet' /\ ClosedForCause' /\ OnlyPongPanics'
    BY DEF NotYet, ClosedForCause, OnlyPongPanics
<1> QED BY <1>2, <1>3, <1>4

\* The hub forgets clients and closes their channels, which are open.
LEMMA ForgetIInv ==
    ASSUME IInv, Alive, HubEnds \/ \E c \in Clients : Unregister(c)
    PROVE  IInv'
<1> USE DEF IInv, TypeOK, chans, pumps, history, publishers, Alive, CloseSend
<1>1. InOrder' /\ GotInOrder'
    BY SameOrder DEF HubEnds, Unregister
<1>2. CASE HubEnds
    BY <1>1, <1>2 DEF HubEnds, NotYet, ClosedForCause, OnlyPongPanics
<1>3. ASSUME NEW c \in Clients, Unregister(c) PROVE IInv'
    BY <1>1, <1>3 DEF Unregister, NotYet, ClosedForCause, OnlyPongPanics
<1> QED BY <1>2, <1>3

-----------------------------------------------------------------------------
(* Steps that move messages.                                                *)

\* A client that a step does not touch keeps its numbering.
LEMMA OtherOrder ==
    ASSUME InOrder, taken' = taken, NEW d \in Clients, Writing(d)',
           wp'[d] = wp[d], send'[d] = send[d], got'[d] = got[d], hand'[d] = hand[d],
           since'[d] = since[d], d \in clients' => d \in clients
    PROVE  \E n : Numbered(d, n)'
<1>1. PICK n : Numbered(d, n)
    BY DEF InOrder, Writing
<1>2. Numbered(d, n)'
    BY <1>1 DEF Numbered, InHand
<1> QED BY <1>2

\* A client that registers starts to count where the hub is.
LEMMA RegisterIInv ==
    ASSUME IInv, Alive, NEW c \in Clients, Register(c)
    PROVE  IInv'
<1> USE DEF IInv, TypeOK, chans, pumps, history, publishers, Alive, Register
<1>1. send[c] = <<>> /\ got[c] = <<>> /\ open[c] /\ wp[c] = "none"
    BY DEF NotYet
<1>2. TypeOK'
    OBVIOUS
<1>3. NotYet' /\ ClosedForCause' /\ OnlyPongPanics'
    BY <1>1 DEF NotYet, ClosedForCause, OnlyPongPanics
<1>4. GotInOrder'
    BY <1>1 DEF GotInOrder
<1>5. ASSUME NEW d \in Clients, Writing(d)' PROVE \E n : Numbered(d, n)'
    <2>1. CASE d = c
        <3>1. /\ send'[c] = <<>> /\ got'[c] = <<>> /\ since'[c] = Len(taken)
              /\ taken' = taken /\ Len(taken) \in Nat /\ wp'[c] = "select"
            BY <1>1
        <3>2. PICK n : n = [j \in 0..0 |-> Len(taken)]
            OBVIOUS
        <3>3. n[0] = Len(taken) /\ n \in [0..0 -> 0..Len(taken)]
            BY <3>1, <3>2
        <3> HIDE DEF TypeOK, IInv, Register
        <3>4. Counts(n, <<>>, taken)
            BY <3>3 DEF Counts
        <3>5. ~InHand(c)' /\ Len(send'[c]) = 0 /\ Len(got'[c]) = 0
            BY <3>1 DEF InHand
        <3>6. Numbered(c, n)'
            BY <3>1, <3>3, <3>4, <3>5 DEF Numbered
        <3> QED BY <2>1, <3>6
    <2>2. CASE d # c
        BY <1>5, <2>2, OtherOrder
    <2> QED BY <2>1, <2>2
<1>6. InOrder'
    BY <1>5 DEF InOrder
<1> QED BY <1>2, <1>3, <1>4, <1>6

\* The hub counts one more message and puts it into the channels of its
\* clients; the ones whose channel is full are its clients no more.
LEMMA DeliverIInv ==
    ASSUME IInv, Alive, Deliver
    PROVE  IInv'
<1> DEFINE m == Head(broadcast)
<1> USE DEF IInv, TypeOK, chans, pumps, history, publishers, Alive, Deliver
<1>1. m \in Messages /\ Tail(broadcast) \in Seq(Messages)
    OBVIOUS
<1>2. /\ taken \in Seq(Messages) /\ taken' = Append(taken, m)
      /\ taken' \in Seq(Messages) /\ Len(taken') = Len(taken) + 1
      /\ \A i \in 1..Len(taken) : taken'[i] = taken[i]
    BY <1>1
<1>3. TypeOK'
    <2>1. send' \in [Clients -> Seq(Messages \cup {"pong"})]
        BY <1>1
    <2>2. open' \in [Clients -> BOOLEAN]
        OBVIOUS
    <2> QED BY <1>1, <1>2, <2>1, <2>2
<1>4. NotYet' /\ ClosedForCause' /\ OnlyPongPanics'
    BY DEF NotYet, ClosedForCause, OnlyPongPanics
<1>5. GotInOrder'
    <2>1. UNCHANGED <<got, since>>
        OBVIOUS
    <2>2. /\ GotInOrder /\ Len(taken) \in Nat
          /\ \A c \in Clients : since[c] \in Nat /\ Len(got[c]) \in Nat
        OBVIOUS
    <2>3. ASSUME NEW c \in Clients
          PROVE  /\ since[c] + Len(got[c]) <= Len(taken')
                 /\ \A i \in 1..Len(got[c]) : got[c][i] = taken'[since[c] + i]
        <3> HIDE DEF IInv, TypeOK, Deliver, m
        <3>1. since[c] \in Nat /\ Len(got[c]) \in Nat /\ since[c] + Len(got[c]) <= Len(taken)
            BY <2>2 DEF GotInOrder
        <3>2. \A i \in 1..Len(got[c]) : since[c] + i \in 1..Len(taken)
            BY <2>2, <3>1
        <3> QED BY <1>2, <2>2, <3>1, <3>2 DEF GotInOrder
    <2> HIDE DEF IInv, TypeOK, Deliver, m
    <2> QED BY <2>1, <2>3 DEF GotInOrder
<1>6. ASSUME NEW d \in Clients, Writing(d)' PROVE \E n : Numbered(d, n)'
    <2>1. /\ UNCHANGED <<wp, got, hand, since>>
          /\ send[d] \in Seq(Entries) /\ since[d] \in Nat /\ got[d] \in Seq(Messages)
        BY DEF Entries
    <2>2. /\ d \in clients' => d \in clients /\ send'[d] = Append(send[d], m)
          /\ d \notin clients' => send'[d] = send[d]
        OBVIOUS
    <2>3. PICK n : Numbered(d, n)
        BY <1>6 DEF InOrder, Writing
    <2> HIDE DEF IInv, TypeOK, Deliver, m
    <2>4. InHand(d)' = InHand(d) /\ (InHand(d) => n[0] \in 1..Len(taken))
        <3>1. InHand(d)' = InHand(d)
            BY <2>1 DEF InHand
        <3>2. ASSUME InHand(d) PROVE n[0] \in 1..Len(taken)
            <4>1. /\ n \in [0..Len(send[d]) -> 0..Len(taken)]
                  /\ n[0] = since[d] + Len(got[d]) + 1
                BY <2>3, <3>2 DEF Numbered, Counts
            <4>2. 0 \in 0..Len(send[d]) /\ Len(got[d]) \in Nat /\ Len(taken) \in Nat
                BY <1>2, <2>1
            <4>3. n[0] \in 0..Len(taken)
                BY <4>1, <4>2
            <4> QED BY <2>1, <4>1, <4>2, <4>3
        <3> QED BY <3>1, <3>2
    <2>5. CASE d \notin clients'
        <3>1. Counts(n, send'[d], taken')
            BY <1>1, <1>2, <2>1, <2>2, <2>3, <2>5, CountsLonger DEF Numbered
        <3> QED BY <1>2, <2>1, <2>2, <2>3, <2>4, <2>5, <3>1 DEF Numbered
    <2>6. CASE d \in clients'
        <3>0. Counts(n, send[d], taken) /\ n[Len(send[d])] = Len(taken)
            BY <2>2, <2>3, <2>6 DEF Numbered
        <3>1. PICK k : /\ Counts(k, Append(send[d], m), Append(taken, m)) /\ k[0] = n[0]
                       /\ k[Len(Append(send[d], m))] = Len(Append(taken, m))
            <4>1. send[d] \in Seq(Entries) /\ taken \in Seq(Messages) /\ m \in Messages
                BY <1>1, <1>2, <2>1
            <4> QED BY ONLY <4>1, <3>0, CountsBoth
        <3> QED BY <1>2, <2>1, <2>2, <2>3, <2>4, <2>6, <3>1 DEF Numbered
    <2> QED BY <2>5, <2>6
<1>7. InOrder'
    BY <1>6 DEF InOrder
<1> QED BY <1>3, <1>4, <1>5, <1>7

\* A pong takes room in the channel and no number.
LEMMA PongIInv ==
    ASSUME IInv, Alive, NEW c \in Clients, Pong(c)
    PROVE  IInv'
<1> USE DEF IInv, TypeOK, chans, pumps, history, publishers, Alive, Pong
<1>1. TypeOK'
    OBVIOUS
<1>2. NotYet' /\ ClosedForCause' /\ OnlyPongPanics'
    BY DEF NotYet, ClosedForCause, OnlyPongPanics
<1>3. GotInOrder'
    BY DEF GotInOrder
<1>4. ASSUME NEW d \in Clients, Writing(d)' PROVE \E n : Numbered(d, n)'
    <2>1. CASE send'[d] = send[d]
        BY <1>4, <2>1, OtherOrder
    <2>2. CASE send'[d] # send[d]
        <3>1. /\ send'[d] = Append(send[d], "pong")
              /\ UNCHANGED <<wp, got, hand, since, taken, clients>>
              /\ send[d] \in Seq(Entries) /\ taken \in Seq(Messages)
            BY <2>2 DEF Entries
        <3>2. PICK n : Numbered(d, n)
            BY <1>4 DEF InOrder, Writing
        <3> HIDE DEF IInv, TypeOK, Pong
        <3>3. Counts(n, send[d], taken)
            BY <3>2 DEF Numbered
        <3>4. PICK k : /\ Counts(k, Append(send[d], "pong"), taken) /\ k[0] = n[0]
                       /\ k[Len(Append(send[d], "pong"))] = n[Len(send[d])]
            BY ONLY <3>1, <3>3, CountsPong
        <3>5. Numbered(d, k)'
            BY <3>1, <3>2, <3>4 DEF Numbered, InHand
        <3> QED BY <3>5
    <2> QED BY <2>1, <2>2
<1>5. InOrder'
    BY <1>4 DEF InOrder
<1> QED BY <1>1, <1>2, <1>3, <1>5

\* The writer takes the first entry into its hand.
LEMMA TakeMessageIInv ==
    ASSUME IInv, Alive, NEW c \in Clients, TakeMessage(c)
    PROVE  IInv'
<1> USE DEF IInv, TypeOK, chans, pumps, history, publishers, Alive, TakeMessage
<1>1. /\ send[c] \in Seq(Entries) /\ taken \in Seq(Messages) /\ send[c] # <<>>
      /\ Head(send[c]) \in Entries /\ Tail(send[c]) \in Seq(Entries)
    BY DEF Entries
<1>2. TypeOK'
    BY <1>1 DEF Entries
<1>3. NotYet' /\ ClosedForCause' /\ OnlyPongPanics'
    BY DEF NotYet, ClosedForCause, OnlyPongPanics
<1>4. GotInOrder'
    BY DEF GotInOrder
<1>5. ASSUME NEW d \in Clients, Writing(d)' PROVE \E n : Numbered(d, n)'
    <2>1. CASE d # c
        BY <1>5, <2>1, OtherOrder
    <2>2. CASE d = c
        <3>1. /\ send'[c] = Tail(send[c]) /\ hand'[c] = Head(send[c])
              /\ wp[c] = "select" /\ wp'[c] = "write"
              /\ UNCHANGED <<got, since, taken, clients>>
              /\ since[c] \in Nat /\ got[c] \in Seq(Messages)
            OBVIOUS
        <3>2. PICK n : Numbered(c, n)
            BY <3>1 DEF InOrder, Writing
        <3> HIDE DEF IInv, TypeOK, TakeMessage
        <3>3. Counts(n, send[c], taken)
            BY <3>2 DEF Numbered
        <3>4. PICK k : /\ Counts(k, Tail(send[c]), taken) /\ k[0] = n[1]
                       /\ k[Len(Tail(send[c]))] = n[Len(send[c])]
            BY ONLY <1>1, <3>3, CountsTail
        <3>5. n[0] = since[c] + Len(got[c])
            BY <3>1, <3>2 DEF Numbered, InHand
        <3>6. /\ Head(send[c]) = send[c][1]
              /\ send[c][1] = "pong" => n[1] = n[0]
              /\ send[c][1] # "pong" => n[1] = n[0] + 1 /\ send[c][1] = taken[n[1]]
            <4>1. 1 \in 1..Len(send[c]) /\ 1 - 1 = 0 /\ Head(send[c]) = send[c][1]
                BY <1>1
            <4> QED BY <3>3, <4>1 DEF Counts
        <3>7. Numbered(c, k)'
            <4>1. InHand(c)' <=> Head(send[c]) # "pong"
                BY <3>1 DEF InHand
            <4>2. since[c] + Len(got[c]) \in Nat
                BY <3>1
            <4>3. CASE Head(send[c]) = "pong"
                BY <3>1, <3>2, <3>4, <3>5, <3>6, <4>1, <4>2, <4>3 DEF Numbered
            <4>4. CASE Head(send[c]) # "pong"
                BY <3>1, <3>2, <3>4, <3>5, <3>6, <4>1, <4>2, <4>4 DEF Numbered
            <4> QED BY <4>3, <4>4
        <3> QED BY <2>2, <3>7
    <2> QED BY <2>1, <2>2
<1>6. InOrder'
    BY <1>5 DEF InOrder
<1> QED BY <1>2, <1>3, <1>4, <1>6

\* What was in the writer's hand is what the client is sent next.
LEMMA WrittenIInv ==
    ASSUME IInv, Alive, NEW c \in Clients, Written(c)
    PROVE  IInv'
<1> USE DEF IInv, TypeOK, chans, pumps, history, publishers, Alive, Written
<1>1. /\ got[c] \in Seq(Messages) /\ hand[c] \in Messages \cup {"pong"}
      /\ since[c] \in Nat /\ taken \in Seq(Messages) /\ wp[c] = "write"
    OBVIOUS
<1>2. TypeOK'
    <2>1. got' \in [Clients -> Seq(Messages)]
        BY <1>1
    <2> QED BY <2>1
<1>3. NotYet' /\ ClosedForCause' /\ OnlyPongPanics'
    <2>1. c \in Clients /\ ~(rp[c] \in {"none", "register"})
        BY <1>1 DEF NotYet
    <2> QED BY <2>1 DEF NotYet, ClosedForCause, OnlyPongPanics
<1>4. /\ UNCHANGED <<send, hand, since, taken, clients>> /\ wp'[c] = "select"
      /\ \A d \in Clients \ {c} : wp'[d] = wp[d] /\ got'[d] = got[d]
      /\ hand[c] = "pong" => got'[c] = got[c]
      /\ hand[c] # "pong" => got'[c] = Append(got[c], hand[c])
    OBVIOUS
<1>5. PICK n : Numbered(c, n)
    BY <1>1 DEF InOrder, Writing
<1>6. GotInOrder /\ InOrder
    OBVIOUS
<1> HIDE DEF IInv, TypeOK, Written
<1>7. /\ hand[c] = "pong" => n[0] = since[c] + Len(got[c])
      /\ hand[c] # "pong" => n[0] = since[c] + Len(got[c]) + 1 /\ hand[c] = taken[n[0]]
      /\ n[0] \in 0..Len(taken)
    BY <1>1, <1>5 DEF Numbered, InHand, Counts
<1>8. GotInOrder'
    <2> SUFFICES ASSUME NEW d \in Clients
                 PROVE  /\ since'[d] + Len(got'[d]) <= Len(taken')
                        /\ \A i \in 1..Len(got'[d]) : got'[d][i] = taken'[since'[d] + i]
        BY DEF GotInOrder
    <2>1. CASE d # c \/ hand[c] = "pong"
        BY <1>4, <1>6, <2>1 DEF GotInOrder
    <2>2. CASE d = c /\ hand[c] # "pong"
        <3>1. /\ Len(got'[c]) = Len(got[c]) + 1 /\ got'[c][Len(got[c]) + 1] = hand[c]
              /\ \A i \in 1..Len(got[c]) : got'[c][i] = got[c][i]
            BY <1>1, <1>4, <2>2
        <3>2. n[0] = since[c] + (Len(got[c]) + 1)
            <4>1. Len(got[c]) \in Nat /\ n[0] = since[c] + Len(got[c]) + 1
                BY <1>1, <1>7, <2>2
            <4> QED BY ONLY <4>1, <1>1
        <3>3. ASSUME NEW i \in 1..Len(got'[c]) PROVE got'[c][i] = taken[since[c] + i]
            <4>1. CASE i = Len(got[c]) + 1
                BY <1>7, <2>2, <3>1, <3>2, <4>1
            <4>2. CASE i # Len(got[c]) + 1
                <5>1. i \in 1..Len(got[c])
                    BY <1>1, <3>1, <4>2
                <5> QED BY <1>6, <3>1, <5>1 DEF GotInOrder
            <4> QED BY <4>1, <4>2
        <3>4. since[c] + Len(got'[c]) <= Len(taken)
            BY <1>7, <3>1, <3>2
        <3> QED BY <1>4, <2>2, <3>3, <3>4
    <2> QED BY <2>1, <2>2
<1>9. ASSUME NEW d \in Clients, Writing(d)' PROVE \E k : Numbered(d, k)'
    <2>1. CASE d # c
        BY <1>4, <1>6, <1>9, <2>1, OtherOrder
    <2>2. CASE d = c
        <3>1. ~InHand(c)'
            BY <1>4 DEF InHand
        <3>2. n[0] = since'[c] + Len(got'[c]) + 0
            <4>1. CASE hand[c] = "pong"
                BY <1>1, <1>4, <1>7, <4>1
            <4>2. CASE hand[c] # "pong"
                <5>1. Len(got'[c]) = Len(got[c]) + 1
                    BY <1>1, <1>4, <4>2
                <5>2. Len(got[c]) \in Nat /\ n[0] = since[c] + Len(got[c]) + 1
                    BY <1>1, <1>7, <4>2
                <5>3. since'[c] = since[c]
                    BY <1>4
                <5> QED BY ONLY <1>1, <5>1, <5>2, <5>3
            <4> QED BY <4>1, <4>2
        <3>3. Numbered(c, n)'
            BY <1>4, <1>5, <3>1, <3>2 DEF Numbered
        <3> QED BY <2>2, <3>3
    <2> QED BY <2>1, <2>2
<1>10. InOrder'
    BY <1>9 DEF InOrder
<1> QED BY <1>2, <1>3, <1>8, <1>10 DEF IInv

-----------------------------------------------------------------------------
LEMMA NextIInv ==
    ASSUME IInv, [Next]_vars
    PROVE  IInv'
<1>1. CASE UNCHANGED vars
    BY <1>1 DEF vars, chans, pumps, history, publishers, IInv, TypeOK, NotYet, ClosedForCause,
                InOrder, Writing, Numbered, InHand, GotInOrder, OnlyPongPanics
<1>2. CASE Next
    BY <1>2, PublisherIInv, ReaderIInv, WriterEndsIInv, ForgetIInv, RegisterIInv,
       DeliverIInv, PongIInv, TakeMessageIInv, WrittenIInv
       DEF Next, ClientStep
<1> QED BY <1>1, <1>2

\* The invariant of the hub and its clients (Run, readPump, writePump).
THEOREM HubInvariant == Spec => []IInv
<1>1. Init => IInv
    BY InitIInv
<1>2. IInv /\ [Next]_vars => IInv'
    BY NextIInv
<1> QED BY <1>1, <1>2, PTL DEF Spec

\* A sequence that agrees with t from k + 1 on is a part of t.
LEMMA RunOf ==
    ASSUME NEW t \in Seq(Messages), NEW g \in Seq(Messages), NEW k \in Nat,
           k + Len(g) <= Len(t), \A i \in 1..Len(g) : g[i] = t[k + i]
    PROVE  g = SubSeq(t, k + 1, k + Len(g))
<1> DEFINE p == SubSeq(t, k + 1, k + Len(g))
<1>1. Len(g) \in Nat /\ Len(t) \in Nat /\ (k + 1) \in Int /\ (k + Len(g)) \in Int
    OBVIOUS
<1>2. \A i \in (k + 1)..(k + Len(g)) : i \in 1..Len(t)
    BY <1>1
<1>3. \A i \in (k + 1)..(k + Len(g)) : t[i] \in Messages
    BY <1>2
<1>4. /\ p \in Seq(Messages)
      /\ Len(p) = IF (k + 1) <= k + Len(g) THEN k + Len(g) - (k + 1) + 1 ELSE 0
      /\ \A i \in 1..(k + Len(g) - (k + 1) + 1) : p[i] = t[k + 1 + i - 1]
    BY <1>1, <1>3, SubSeqProperties
<1> HIDE DEF p
<1>5. Len(p) = Len(g)
    BY <1>1, <1>4
<1>6. \A i \in 1..Len(g) : p[i] = t[k + i]
    BY <1>1, <1>4
<1>7. p = g
    BY <1>4, <1>5, <1>6
<1> QED BY <1>7 DEF p

LEMMA IInvNoGaps == IInv => NoGaps
<1> SUFFICES ASSUME IInv, NEW c \in Clients
             PROVE  /\ since[c] + Len(got[c]) <= Len(taken)
                    /\ got[c] = SubSeq(taken, since[c] + 1, since[c] + Len(got[c]))
    BY DEF NoGaps
<1>1. /\ got[c] \in Seq(Messages) /\ taken \in Seq(Messages) /\ since[c] \in Nat
      /\ since[c] + Len(got[c]) <= Len(taken)
      /\ \A i \in 1..Len(got[c]) : got[c][i] = taken[since[c] + i]
    BY DEF IInv, TypeOK, GotInOrder
<1> QED BY ONLY <1>1, RunOf

\* What a client is sent is a run of the hub's messages without a gap, from
\* its registration on: a client that is too slow is cut off (the default
\* case in Run).
THEOREM HubNoGaps == Spec => []NoGaps
    BY HubInvariant, IInvNoGaps, PTL

\* Run never closes a channel twice nor sends on a closed one, and the answer
\* to a ping does so only for a client that was dropped or after Close.
THEOREM HubOnlyPongPanics == Spec => []OnlyPongPanics
<1>1. IInv => OnlyPongPanics
    BY DEF IInv
<1> QED BY <1>1, HubInvariant, PTL
=============================================================================
