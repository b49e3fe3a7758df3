------------------------------ MODULE RpcProofs ------------------------------
(***************************************************************************)
(* A call gets the answer to its own request, no request is executed twice *)
(* and nothing is served after Shutdown, for any number of callers,        *)
(* streams, connections and calls.                                         *)
(***************************************************************************)
EXTENDS Rpc, FiniteSetTheorems, TLAPS

Working == {"handle", "respond", "refuse"}
Sending == {u \in Users : at[u] = "send"}

TypeOK ==
    /\ serves \in BOOLEAN /\ tls \in BOOLEAN /\ listener \in BOOLEAN
    /\ start \in {"no", "listening", "running"}
    /\ accept \in {"no", "loop", "end"}
    /\ stopping \in {"no", "closed", "wait", "done"}
    /\ conns \subseteq Conns /\ late \subseteq Conns
    /\ serverAt \in [Conns -> {"none", "backlog", "accepted", "read", "end"} \cup Working]
    /\ serving \in [Conns -> Nat]
    /\ serverOpen \in [Conns -> BOOLEAN]
    /\ clientOpen \in [Conns -> BOOLEAN]
    /\ cut \in [Conns -> BOOLEAN]
    /\ requests \in [Conns -> Seq(Nat)]
    /\ responses \in [Conns -> Seq([id : Nat, ok : BOOLEAN])]
    /\ holder \in Callers \cup {None}
    /\ clientConn \in Conns \cup {None}
    /\ reqID \in Nat
    /\ at \in [Users -> {"idle", "send", "await"}]
    /\ mine \in [Users -> Nat]
    /\ stream \in [Users -> Conns \cup {None}]
    /\ executed \in [1..MaxCalls -> Nat]

\* There is a RequestID for everyone who is going to send.
IdsLeft == reqID + Cardinality(Sending) <= MaxCalls

\* Until Shutdown closes them, the connections that are worked on are
\* registered.
Registered ==
    stopping \in {"no", "closed"} =>
        \A k \in Conns : serverAt[k] \in Working \cup {"read"} => k \in conns

\* The requests that wait to be executed: on connection k, number i is the
\* one that handleConn has read (0) or the i-th on the way.
Waits(k, i) == i \in 0..Len(requests[k]) /\ (i = 0 => serverAt[k] = "handle")
Request(k, i) == IF i = 0 THEN serving[k] ELSE requests[k][i]

\* A request waits in one place only, and has not been executed.
WaitsOnce ==
    \A k, h \in Conns : \A i, j \in Nat :
        Waits(k, i) =>
            /\ Request(k, i) \in 1..reqID /\ executed[Request(k, i)] = 0
            /\ Waits(h, j) /\ Request(k, i) = Request(h, j) => k = h /\ i = j

ExecutedOnce ==
    \A i \in 1..MaxCalls : executed[i] <= 1 /\ (i > reqID => executed[i] = 0)

\* A result has been computed before it is sent.
ResultsExecuted ==
    \A k \in Conns :
        /\ serverAt[k] = "respond" => serving[k] \in 1..reqID /\ executed[serving[k]] = 1
        /\ \A i \in 1..Len(responses[k]) :
              responses[k][i].ok => /\ responses[k][i].id \in 1..reqID
                                    /\ executed[responses[k][i].id] = 1

\* Nothing is on its way on connection k, nor worked on.
Quiet(k) == requests[k] = <<>> /\ responses[k] = <<>> /\ serverAt[k] \notin Working

\* At most request r is, in one place.
Only(k, r) ==
    /\ requests[k] # <<>> => /\ Len(requests[k]) = 1 /\ requests[k][1] = r
                             /\ responses[k] = <<>> /\ serverAt[k] \notin Working
    /\ responses[k] # <<>> => /\ Len(responses[k]) = 1 /\ responses[k][1].id = r
                              /\ serverAt[k] \notin Working
    /\ serverAt[k] \in Working => serving[k] = r

\* A connection that has not been dialled is nobody's.
Fresh ==
    \A k \in Conns : serverAt[k] = "none" =>
        Quiet(k) /\ clientConn # k /\ \A u \in Streams : stream[u] # k

\* A stream has a connection of its own.
StreamsApart ==
    \A u \in Streams : /\ at[u] # "idle" => stream[u] # None
                       /\ stream[u] # None => clientConn # stream[u]

\* Only who holds c.mu calls, on c.conn.
HolderCalls ==
    /\ \A a \in Callers : at[a] # "idle" <=> holder = a
    /\ holder # None => clientConn # None

\* c.conn is quiet until the holder has sent its request, and carries nothing
\* but that one afterwards.
OneCall ==
    /\ clientConn # None /\ (holder = None \/ at[holder] = "send") => Quiet(clientConn)
    /\ holder # None /\ at[holder] = "await" => Only(clientConn, mine[holder])

OneCaller == Fresh /\ StreamsApart /\ HolderCalls /\ OneCall

Answered == \A x \in answers : x[1] \in 1..reqID /\ x[2] = x[1] /\ executed[x[1]] = 1

IInv == /\ TypeOK /\ IdsLeft /\ Registered /\ WaitsOnce /\ ExecutedOnce /\ ResultsExecuted
        /\ OneCaller /\ Answered /\ NothingServedAfterShutdown

\* A step that touches no request, response or caller.
Undisturbed ==
    /\ UNCHANGED <<serving, requests, responses, holder, clientConn, reqID, at, mine, stream,
                   executed, answers>>
    /\ \A k \in Conns : /\ serverAt'[k] \in Working => serverAt'[k] = serverAt[k]
                        /\ serverAt'[k] = "none" => serverAt[k] = "none"

-----------------------------------------------------------------------------
(* Facts used for several actions.                                          *)

\* Requests that go away, or come to nothing, leave the others where they are.
LEMMA FewerWait ==
    ASSUME WaitsOnce, executed' = executed, reqID \in Nat, reqID' \in Nat, reqID <= reqID',
           \A k \in Conns : \A i \in Nat :
               Waits(k, i)' => Waits(k, i) /\ Request(k, i)' = Request(k, i)
    PROVE  WaitsOnce'
<1> SUFFICES ASSUME NEW k \in Conns, NEW h \in Conns, NEW i \in Nat, NEW j \in Nat, Waits(k, i)'
             PROVE  /\ Request(k, i)' \in 1..reqID' /\ executed[Request(k, i)'] = 0
                    /\ Waits(h, j)' /\ Request(k, i)' = Request(h, j)' => k = h /\ i = j
    BY DEF WaitsOnce
<1>1. Waits(k, i) /\ Request(k, i)' = Request(k, i)
    OBVIOUS
<1>2. Waits(h, j)' => Waits(h, j) /\ Request(h, j)' = Request(h, j)
    OBVIOUS
<1> QED BY <1>1, <1>2 DEF WaitsOnce

LEMMA NoEntries ==
    ASSUME NEW S, NEW q \in Seq(S), Len(q) = 0
    PROVE  q = <<>>
    OBVIOUS

LEMMA TailOfOne ==
    ASSUME NEW S, NEW q \in Seq(S), Len(q) = 1
    PROVE  Tail(q) = <<>>
<1>1. Len(Tail(q)) = 0 /\ Tail(q) \in Seq(S)
    OBVIOUS
<1> QED BY <1>1, NoEntries

LEMMA FirstEntry ==
    ASSUME NEW S, NEW q \in Seq(S), Len(q) = 0, NEW x \in S
    PROVE  Len(Append(q, x)) = 1 /\ Append(q, x)[1] = x
<1>1. Len(Append(q, x)) = Len(q) + 1 /\ Append(q, x)[Len(q) + 1] = x
    OBVIOUS
<1>2. Len(q) + 1 = 1
    OBVIOUS
<1> QED BY ONLY <1>1, <1>2, Zenon

LEMMA TailEntries ==
    ASSUME NEW S, NEW q \in Seq(S), q # <<>>, NEW i \in 1..Len(Tail(q))
    PROVE  i + 1 \in 1..Len(q) /\ Tail(q)[i] = q[i + 1]
    OBVIOUS

\* Someone who is going to send has a RequestID left, and takes it.
LEMMA TakesId ==
    ASSUME TypeOK, IdsLeft, NEW u \in Users, at[u] = "send", reqID' = reqID + 1,
           NEW w, w # "send", at' = [at EXCEPT ![u] = w]
    PROVE  reqID + 1 <= MaxCalls /\ IdsLeft'
<1>1. IsFiniteSet(Sending)
    BY RpcAssumption, FS_Subset DEF Sending, Users
<1>2. u \in Sending /\ Sending' = Sending \ {u}
    BY DEF Sending, TypeOK
<1>3. /\ Cardinality(Sending) \in Nat
      /\ Cardinality(Sending \ {u}) = Cardinality(Sending) - 1
      /\ Cardinality(Sending \ {u}) \in Nat
    BY <1>1, <1>2, FS_RemoveElement, FS_CardinalityType
<1> QED BY <1>2, <1>3, RpcAssumption DEF IdsLeft, TypeOK

LEMMA FewerSend ==
    ASSUME TypeOK, IdsLeft, Sending' \subseteq Sending, reqID' = reqID
    PROVE  IdsLeft'
<1>1. IsFiniteSet(Sending)
    BY RpcAssumption, FS_Subset DEF Sending, Users
<1>2. /\ Cardinality(Sending') <= Cardinality(Sending)
      /\ Cardinality(Sending) \in Nat /\ Cardinality(Sending') \in Nat
    BY <1>1, FS_Subset, FS_CardinalityType
<1> QED BY <1>2, RpcAssumption DEF IdsLeft, TypeOK

\* Who begins to send has seen to it that one is left.
LEMMA ReservesId ==
    ASSUME TypeOK, IdLeft, NEW u \in Users, at[u] = "idle", reqID' = reqID,
           at' = [at EXCEPT ![u] = "send"]
    PROVE  IdsLeft'
<1>1. IsFiniteSet(Sending)
    BY RpcAssumption, FS_Subset DEF Sending, Users
<1>2. u \notin Sending /\ Sending' = Sending \cup {u}
    BY DEF Sending, TypeOK
<1>3. /\ Cardinality(Sending) \in Nat
      /\ Cardinality(Sending \cup {u}) = Cardinality(Sending) + 1
    BY <1>1, <1>2, FS_AddElement, FS_CardinalityType
<1>4. reqID + Cardinality(Sending) < MaxCalls
    BY DEF IdLeft, Sending
<1> QED BY <1>2, <1>3, <1>4, RpcAssumption DEF IdsLeft, TypeOK

LEMMA InitIInv == Init => IInv
<1> SUFFICES ASSUME Init PROVE IInv
    OBVIOUS
<1> USE DEF Init
<1>1. TypeOK
    <2>1. /\ serverOpen \in [Conns -> BOOLEAN] /\ clientOpen \in [Conns -> BOOLEAN]
          /\ cut \in [Conns -> BOOLEAN] /\ listener \in BOOLEAN /\ serves \in BOOLEAN /\ tls \in BOOLEAN
        BY Zenon
    <2>2. /\ requests \in [Conns -> Seq(Nat)]
          /\ responses \in [Conns -> Seq([id : Nat, ok : BOOLEAN])]
        OBVIOUS
    <2>3. /\ serverAt \in [Conns -> {"none", "backlog", "accepted", "read", "end"} \cup Working]
          /\ at \in [Users -> {"idle", "send", "await"}]
          /\ stream \in [Users -> Conns \cup {None}]
        OBVIOUS
    <2>4. /\ serving \in [Conns -> Nat] /\ mine \in [Users -> Nat]
          /\ executed \in [1..MaxCalls -> Nat]
        OBVIOUS
    <2> QED BY <2>1, <2>2, <2>3, <2>4 DEF TypeOK
<1>2. IdsLeft
    <2>1. Sending = {}
        BY DEF Sending
    <2> QED BY <2>1, FS_EmptySet, RpcAssumption DEF IdsLeft
<1>3. Registered /\ ResultsExecuted
    BY DEF Registered, ResultsExecuted, Working
<1>4. WaitsOnce
    BY DEF WaitsOnce, Waits
<1>5. ExecutedOnce /\ Answered
    BY DEF ExecutedOnce, Answered
<1>6. OneCaller
    BY RpcAssumption DEF OneCaller, Fresh, StreamsApart, HolderCalls, OneCall, Quiet, Working, Users
<1>7. NothingServedAfterShutdown
    BY DEF NothingServedAfterShutdown
<1> QED BY <1>1, <1>2, <1>3, <1>4, <1>5, <1>6, <1>7 DEF IInv

-----------------------------------------------------------------------------
(* The server: Start, acceptLoop, Shutdown and the connections' ends.       *)

LEMMA NothingMoves ==
    ASSUME IInv, TypeOK', Undisturbed
    PROVE  IdsLeft' /\ WaitsOnce' /\ ExecutedOnce' /\ ResultsExecuted' /\ OneCaller' /\ Answered'
<1> USE DEF IInv, Undisturbed
<1>1. IdsLeft' /\ ExecutedOnce' /\ Answered'
    BY DEF IdsLeft, Sending, ExecutedOnce, Answered
<1>2. WaitsOnce'
    <2>1. \A k \in Conns : \A i \in Nat :
              Waits(k, i)' => Waits(k, i) /\ Request(k, i)' = Request(k, i)
        BY DEF Waits, Request, Working
    <2> QED BY <2>1, FewerWait DEF TypeOK
<1>3. ResultsExecuted'
    BY DEF ResultsExecuted, Working
<1>4. OneCaller'
    <2>1. \A k \in Conns : Quiet(k) => Quiet(k)'
        BY DEF Quiet
    <2>2. \A k \in Conns : \A r : Only(k, r) => Only(k, r)'
        BY DEF Only
    <2>3. holder # None => mine'[holder] = mine[holder]
        OBVIOUS
    <2> QED BY <2>1, <2>2, <2>3 DEF OneCaller, Fresh, StreamsApart, HolderCalls, OneCall, TypeOK
<1> QED BY <1>1, <1>2, <1>3, <1>4

LEMMA StartIInv ==
    ASSUME IInv, Listen \/ Started \/ AcceptEnds \/ Stopped
    PROVE  IInv'
<1> USE DEF server, wires, client, history, Listen, Started, AcceptEnds, Stopped
<1>1. TypeOK'
    <2>1. /\ listener' \in BOOLEAN /\ start' \in {"no", "listening", "running"}
          /\ accept' \in {"no", "loop", "end"} /\ stopping' \in {"no", "closed", "wait", "done"}
        BY DEF IInv, TypeOK
    <2>2. UNCHANGED <<serves, tls, conns, late, serverAt, serving, wires, client, history>>
        OBVIOUS
    <2>3. TypeOK
        BY DEF IInv
    <2> HIDE DEF Listen, Started, AcceptEnds, Stopped
    <2> QED BY <2>1, <2>2, <2>3 DEF TypeOK
<1>2. Undisturbed
    BY DEF Undisturbed
<1>3. IdsLeft' /\ WaitsOnce' /\ ExecutedOnce' /\ ResultsExecuted' /\ OneCaller' /\ Answered'
    BY <1>1, <1>2, NothingMoves
<1>4. Registered'
    BY DEF IInv, Registered
<1>5. NothingServedAfterShutdown'
    BY DEF IInv, NothingServedAfterShutdown, Handled, Goroutines
<1> QED BY <1>1, <1>3, <1>4, <1>5 DEF IInv

LEMMA ShutdownIInv ==
    ASSUME IInv, CloseListener \/ CloseConns
    PROVE  IInv'
<1> USE DEF server, wires, client, history
<1>1. TypeOK'
    <2>1. CASE CloseListener
        <3>1. serverAt' \in [Conns -> {"none", "backlog", "accepted", "read", "end"} \cup Working]
            BY <2>1 DEF CloseListener, IInv, TypeOK
        <3>2. serverOpen' \in [Conns -> BOOLEAN]
            BY <2>1 DEF CloseListener
        <3> QED BY <2>1, <3>1, <3>2 DEF CloseListener, IInv, TypeOK
    <2>2. CASE CloseConns
        <3>1. serverOpen' \in [Conns -> BOOLEAN]
            BY <2>2 DEF CloseConns
        <3> QED BY <2>2, <3>1 DEF CloseConns, IInv, TypeOK
    <2> QED BY <2>1, <2>2
<1>2. Undisturbed
    <2>1. CASE CloseListener
        BY <2>1 DEF CloseListener, Undisturbed, Working
    <2>2. CASE CloseConns
        BY <2>2 DEF CloseConns, Undisturbed
    <2> QED BY <2>1, <2>2
<1>3. IdsLeft' /\ WaitsOnce' /\ ExecutedOnce' /\ ResultsExecuted' /\ OneCaller' /\ Answered'
    BY <1>1, <1>2, NothingMoves
<1>4. Registered'
    BY DEF IInv, Registered, CloseListener, CloseConns, Working
<1>5. NothingServedAfterShutdown'
    <2>1. CASE CloseListener
        BY <2>1 DEF IInv, NothingServedAfterShutdown, CloseListener
    <2>2. CASE CloseConns
        <3> SUFFICES ASSUME NEW k \in Handled', serverOpen'[k] PROVE k \in late'
            BY <2>2 DEF IInv, NothingServedAfterShutdown, CloseConns
        <3>1. k \in Conns /\ serverAt[k] \notin {"none", "backlog", "end"} /\ k \notin conns
            BY <2>2 DEF Handled, CloseConns
        <3>2. serverAt[k] = "accepted"
            BY <2>2, <3>1 DEF IInv, CloseConns, Registered, TypeOK
        <3> QED BY <2>2, <3>1, <3>2 DEF CloseConns
    <2> QED BY <2>1, <2>2
<1> QED BY <1>1, <1>3, <1>4, <1>5 DEF IInv

\* A connection is accepted and registered, and in the end closed.
LEMMA ConnIInv ==
    ASSUME IInv, NEW k \in Conns,
           Accept(k) \/ RegisterConn(k) \/ ReadFails(k) \/ AnswerFails(k)
    PROVE  IInv'
<1> USE DEF server, wires, client, history, ConnEnds
<1>1. TypeOK'
    <2>1. CASE Accept(k) \/ RegisterConn(k)
        <3>1. serverAt' \in [Conns -> {"none", "backlog", "accepted", "read", "end"} \cup Working]
            BY <2>1 DEF IInv, TypeOK, Accept, RegisterConn
        <3>2. /\ conns' \subseteq Conns /\ late' \subseteq Conns
              /\ UNCHANGED <<serves, tls, listener, start, accept, stopping, serving,
                             wires, client, history>>
            BY <2>1 DEF IInv, TypeOK, Accept, RegisterConn
        <3>3. TypeOK
            BY DEF IInv
        <3> QED BY <3>1, <3>2, <3>3 DEF TypeOK
    <2>2. CASE ReadFails(k) \/ AnswerFails(k)
        <3>1. /\ serverAt' \in [Conns -> {"none", "backlog", "accepted", "read", "end"} \cup Working]
              /\ conns' \subseteq Conns /\ serverOpen' \in [Conns -> BOOLEAN]
            BY <2>2 DEF IInv, TypeOK, ReadFails, AnswerFails
        <3>2. TypeOK
            BY DEF IInv
        <3> QED BY <2>2, <3>1, <3>2 DEF TypeOK, ReadFails, AnswerFails
    <2> QED BY <2>1, <2>2
<1>2. Undisturbed
    BY DEF IInv, TypeOK, Undisturbed, Accept, RegisterConn, ReadFails, AnswerFails, Working
<1>3. IdsLeft' /\ WaitsOnce' /\ ExecutedOnce' /\ ResultsExecuted' /\ OneCaller' /\ Answered'
    BY <1>1, <1>2, NothingMoves
<1>4. Registered'
    BY DEF IInv, Registered, TypeOK, Accept, RegisterConn, ReadFails, AnswerFails, Working
<1>5. NothingServedAfterShutdown'
    BY DEF IInv, NothingServedAfterShutdown, Handled, TypeOK, Accept, RegisterConn, ReadFails, AnswerFails
<1> QED BY <1>1, <1>3, <1>4, <1>5 DEF IInv

-----------------------------------------------------------------------------
(* The server: requests.                                                    *)

\* handleConn reads the first request: the places of the others move up.
LEMMA ReadRequestIInv ==
    ASSUME IInv, NEW k \in Conns, ReadRequest(k)
    PROVE  IInv'
<1> USE DEF client, history, ReadRequest
<1>1. /\ requests[k] \in Seq(Nat) /\ requests[k] # <<>> /\ Head(requests[k]) \in Nat
      /\ Head(requests[k]) = requests[k][1] /\ Len(requests[k]) \in Nat \ {0}
      /\ requests'[k] \in Seq(Nat) /\ Len(requests'[k]) = Len(requests[k]) - 1
      /\ \A i \in 1..Len(requests'[k]) : requests'[k][i] = requests[k][i + 1]
    BY DEF IInv, TypeOK
<1>2. TypeOK'
    <2>1. requests' \in [Conns -> Seq(Nat)] /\ serving' \in [Conns -> Nat]
        BY <1>1 DEF IInv, TypeOK
    <2>2. serverAt' \in [Conns -> {"none", "backlog", "accepted", "read", "end"} \cup Working]
        BY DEF IInv, TypeOK, Working
    <2>3. UNCHANGED <<serves, tls, listener, start, accept, stopping, conns, late, serverOpen, clientOpen,
                     cut, responses, client, history>>
        OBVIOUS
    <2>4. TypeOK
        BY DEF IInv
    <2> HIDE DEF ReadRequest
    <2> QED BY <2>1, <2>2, <2>3, <2>4, SMTT(20) DEF TypeOK
<1>3. IdsLeft' /\ ExecutedOnce' /\ Answered'
    BY DEF IInv, IdsLeft, Sending, ExecutedOnce, Answered
<1>4. WaitsOnce'
    <2> DEFINE Old(h, i) == IF h = k THEN i + 1 ELSE i
    <2>1. ASSUME NEW h \in Conns, NEW i \in Nat, Waits(h, i)'
          PROVE  Waits(h, Old(h, i)) /\ Request(h, i)' = Request(h, Old(h, i))
        <3>1. CASE h = k
            <4>1. i \in 0..Len(requests'[k]) /\ i + 1 \in 1..Len(requests[k])
                BY <1>1, <2>1, <3>1 DEF Waits
            <4>2. CASE i = 0
                BY <1>1, <3>1, <4>1, <4>2 DEF Waits, Request, IInv, TypeOK
            <4>3. CASE i # 0
                BY <1>1, <3>1, <4>1, <4>3 DEF Waits, Request, IInv, TypeOK
            <4> QED BY <4>2, <4>3
        <3>2. CASE h # k
            BY <2>1, <3>2 DEF Waits, Request, IInv, TypeOK
        <3> QED BY <3>1, <3>2
    <2>2. \A h \in Conns : \A i \in Nat : Old(h, i) \in Nat
        OBVIOUS
    <2>3. \A h \in Conns : \A i, j \in Nat : Old(h, i) = Old(h, j) => i = j
        OBVIOUS
    <2> HIDE DEF Old, ReadRequest
    <2>4. UNCHANGED <<reqID, executed>>
        BY DEF ReadRequest
    <2> SUFFICES ASSUME NEW h \in Conns, NEW g \in Conns, NEW i \in Nat, NEW j \in Nat,
                        Waits(h, i)'
                 PROVE  /\ Request(h, i)' \in 1..reqID' /\ executed'[Request(h, i)'] = 0
                        /\ Waits(g, j)' /\ Request(h, i)' = Request(g, j)' => h = g /\ i = j
        BY DEF WaitsOnce
    <2>5. /\ Waits(h, Old(h, i)) /\ Request(h, i)' = Request(h, Old(h, i))
          /\ Waits(g, j)' => Waits(g, Old(g, j)) /\ Request(g, j)' = Request(g, Old(g, j))
        BY <2>1
    <2>6. Old(h, i) \in Nat /\ Old(g, j) \in Nat
        BY <2>2
    <2> QED BY <2>3, <2>4, <2>5, <2>6 DEF IInv, WaitsOnce
<1>5. ResultsExecuted'
    BY DEF IInv, TypeOK, ResultsExecuted
<1>6. OneCaller'
    <2>1. \A h \in Conns \ {k} : Quiet(h) => Quiet(h)'
        BY DEF Quiet, IInv, TypeOK
    <2>2. \A h \in Conns \ {k} : \A r : Only(h, r) => Only(h, r)'
        BY DEF Only, IInv, TypeOK
    <2>3. ~Quiet(k) /\ serverAt[k] # "none"
        BY DEF Quiet
    <2>4. \A r : Only(k, r) => Only(k, r)'
        <3> SUFFICES ASSUME NEW r, Only(k, r) PROVE Only(k, r)'
            OBVIOUS
        <3>1. Len(requests[k]) = 1 /\ requests[k][1] = r /\ responses[k] = <<>>
            BY DEF Only
        <3>2. requests'[k] = <<>> /\ serving'[k] = r /\ responses'[k] = <<>>
            <4>1. Len(requests'[k]) = 0
                BY <1>1, <3>1
            <4>2. requests'[k] = <<>>
                BY ONLY <1>1, <4>1
            <4> QED BY <1>1, <3>1, <4>2 DEF IInv, TypeOK
        <3> QED BY <3>2 DEF Only
    <2>5. /\ UNCHANGED <<holder, clientConn, at, stream, mine>>
          /\ \A h \in Conns : serverAt'[h] = "none" => h # k /\ serverAt[h] = "none"
        BY DEF IInv, TypeOK
    <2> HIDE DEF ReadRequest
    <2> QED BY <2>1, <2>2, <2>3, <2>4, <2>5 DEF IInv, TypeOK, OneCaller, Fresh, StreamsApart, HolderCalls, OneCall
<1>7. Registered'
    BY DEF IInv, TypeOK, Registered, Working
<1>8. NothingServedAfterShutdown'
    BY DEF IInv, TypeOK, NothingServedAfterShutdown, Handled
<1> QED BY <1>2, <1>3, <1>4, <1>5, <1>6, <1>7, <1>8 DEF IInv

\* The request that handleConn has read is executed, for the first time.
LEMMA HandleRPCIInv ==
    ASSUME IInv, NEW k \in Conns, HandleRPC(k)
    PROVE  IInv'
<1> USE DEF wires, client, HandleRPC
<1> DEFINE r == serving[k]
<1>1. Waits(k, 0) /\ Request(k, 0) = r
    BY DEF Waits, Request, IInv, TypeOK
<1>2. r \in 1..reqID /\ executed[r] = 0 /\ reqID <= MaxCalls /\ r \in 1..MaxCalls
    <2>1. r \in 1..reqID /\ executed[r] = 0
        BY <1>1 DEF IInv, WaitsOnce
    <2>2. Cardinality(Sending) \in Nat
        BY RpcAssumption, FS_Subset, FS_CardinalityType DEF Sending, Users
    <2> QED BY <2>1, <2>2, RpcAssumption DEF IInv, IdsLeft, TypeOK
<1>3. /\ executed' \in [1..MaxCalls -> Nat] /\ executed'[r] = 1
      /\ \A i : i # r => executed'[i] = executed[i]
    BY <1>2 DEF IInv, TypeOK
<1>4. TypeOK'
    BY <1>3 DEF IInv, TypeOK, Working
<1>5. IdsLeft'
    BY DEF IInv, IdsLeft, Sending
<1>6. ExecutedOnce'
    <2> SUFFICES ASSUME NEW i \in 1..MaxCalls
                 PROVE  executed'[i] <= 1 /\ (i > reqID' => executed'[i] = 0)
        BY DEF ExecutedOnce
    <2>1. CASE i = r
        BY <1>2, <1>3, <2>1 DEF IInv, TypeOK
    <2>2. CASE i # r
        BY <1>3, <2>2 DEF IInv, ExecutedOnce
    <2> QED BY <2>1, <2>2
<1>7. WaitsOnce'
    <2>1. ASSUME NEW h \in Conns, NEW i \in Nat, Waits(h, i)'
          PROVE  Waits(h, i) /\ Request(h, i)' = Request(h, i) /\ Request(h, i) # r
        <3>1. Waits(h, i) /\ Request(h, i)' = Request(h, i) /\ ~(h = k /\ i = 0)
            BY <2>1 DEF Waits, Request, IInv, TypeOK
        <3> QED BY <1>1, <3>1 DEF IInv, WaitsOnce
    <2> HIDE DEF r
    <2> SUFFICES ASSUME NEW h \in Conns, NEW g \in Conns, NEW i \in Nat, NEW j \in Nat,
                        Waits(h, i)'
                 PROVE  /\ Request(h, i)' \in 1..reqID' /\ executed'[Request(h, i)'] = 0
                        /\ Waits(g, j)' /\ Request(h, i)' = Request(g, j)' => h = g /\ i = j
        BY DEF WaitsOnce
    <2>2. Waits(h, i) /\ Request(h, i)' = Request(h, i) /\ Request(h, i) # r
        BY <2>1
    <2>3. Waits(g, j)' => Waits(g, j) /\ Request(g, j)' = Request(g, j)
        BY <2>1
    <2> QED BY <1>3, <2>2, <2>3 DEF IInv, WaitsOnce
<1>8. ResultsExecuted'
    BY <1>2, <1>3 DEF IInv, TypeOK, ResultsExecuted
<1>9. Answered'
    BY <1>2, <1>3 DEF IInv, Answered
<1>10. OneCaller'
    <2>1. \A h \in Conns : Quiet(h) => Quiet(h)'
        BY DEF Quiet, IInv, TypeOK, Working
    <2>2. \A h \in Conns : \A q : Only(h, q) => Only(h, q)'
        BY DEF Only, IInv, TypeOK, Working
    <2>3. /\ UNCHANGED <<holder, clientConn, at, stream, mine>>
          /\ \A h \in Conns : serverAt'[h] = "none" => serverAt[h] = "none"
        BY DEF IInv, TypeOK
    <2> HIDE DEF HandleRPC
    <2> QED BY <2>1, <2>2, <2>3 DEF IInv, TypeOK, OneCaller, Fresh, StreamsApart, HolderCalls, OneCall
<1>11. Registered' /\ NothingServedAfterShutdown'
    BY DEF IInv, TypeOK, Registered, Working, NothingServedAfterShutdown, Handled
<1> QED BY <1>4, <1>5, <1>6, <1>7, <1>8, <1>9, <1>10, <1>11 DEF IInv

\* A response is written; only a result that was computed is a success.
LEMMA RespondIInv ==
    ASSUME IInv, NEW k \in Conns, NEW ok \in BOOLEAN, serverAt[k] \in {"respond", "refuse"},
           ok => serverAt[k] = "respond", Respond(k, ok)
    PROVE  IInv'
<1> USE DEF client, history, Respond
<1> DEFINE resp == [id |-> serving[k], ok |-> ok]
<1>1. resp \in [id : Nat, ok : BOOLEAN] /\ resp.id = serving[k] /\ resp.ok = ok
    BY DEF IInv, TypeOK
<1>2. /\ responses[k] \in Seq([id : Nat, ok : BOOLEAN])
      /\ responses' \in [Conns -> Seq([id : Nat, ok : BOOLEAN])]
      /\ \A h \in Conns \ {k} : responses'[h] = responses[h]
      /\ responses'[k] = responses[k] \/ responses'[k] = Append(responses[k], resp)
    BY <1>1 DEF IInv, TypeOK
<1> HIDE DEF resp
<1>3. TypeOK'
    BY <1>2 DEF IInv, TypeOK
<1>4. IdsLeft' /\ ExecutedOnce' /\ Answered'
    BY DEF IInv, IdsLeft, Sending, ExecutedOnce, Answered
<1>5. WaitsOnce'
    <2>1. \A h \in Conns : \A i \in Nat :
              Waits(h, i)' => Waits(h, i) /\ Request(h, i)' = Request(h, i)
        BY DEF Waits, Request, IInv, TypeOK
    <2> QED BY <2>1, FewerWait DEF IInv, TypeOK
<1>6. ResultsExecuted'
    <2> SUFFICES ASSUME NEW h \in Conns
                 PROVE  /\ serverAt'[h] = "respond" =>
                              serving[h] \in 1..reqID /\ executed[serving[h]] = 1
                        /\ \A i \in 1..Len(responses'[h]) : responses'[h][i].ok =>
                              /\ responses'[h][i].id \in 1..reqID
                              /\ executed[responses'[h][i].id] = 1
        BY DEF ResultsExecuted
    <2>1. serverAt'[h] = "respond" => serverAt[h] = "respond"
        BY DEF IInv, TypeOK
    <2>2. CASE responses'[h] = responses[h]
        BY <2>1, <2>2 DEF IInv, ResultsExecuted
    <2>3. CASE responses'[h] # responses[h]
        <3>1. h = k /\ responses'[k] = Append(responses[k], resp)
            BY <1>2, <2>3
        <3>2. ASSUME NEW i \in 1..Len(responses'[k]), responses'[k][i].ok
              PROVE  responses'[k][i].id \in 1..reqID /\ executed[responses'[k][i].id] = 1
            <4>1. CASE i \in 1..Len(responses[k])
                <5>1. responses'[k][i] = responses[k][i]
                    BY <1>2, <3>1, <4>1
                <5> QED BY <3>2, <4>1, <5>1 DEF IInv, ResultsExecuted
            <4>2. CASE i \notin 1..Len(responses[k])
                <5>1. responses'[k][i] = resp
                    BY <1>2, <3>1, <4>2
                <5>2. serverAt[k] = "respond" /\ resp.id = serving[k]
                    BY <1>1, <3>2, <5>1
                <5> QED BY <5>1, <5>2 DEF IInv, ResultsExecuted
            <4> QED BY <4>1, <4>2
        <3> QED BY <2>1, <3>1, <3>2 DEF IInv, ResultsExecuted
    <2> QED BY <2>2, <2>3
<1>7. OneCaller'
    <2>1. \A h \in Conns \ {k} : Quiet(h) => Quiet(h)'
        BY <1>2 DEF Quiet, IInv, TypeOK
    <2>2. \A h \in Conns \ {k} : \A r : Only(h, r) => Only(h, r)'
        BY <1>2 DEF Only, IInv, TypeOK
    <2>3. ~Quiet(k) /\ serverAt[k] # "none"
        BY DEF Quiet, Working
    <2>4. \A r : Only(k, r) => Only(k, r)'
        <3> SUFFICES ASSUME NEW r, Only(k, r) PROVE Only(k, r)'
            OBVIOUS
        <3>1. requests[k] = <<>> /\ responses[k] = <<>> /\ serving[k] = r
            BY DEF Only, Working
        <3>2. responses'[k] # <<>> => Len(responses'[k]) = 1 /\ responses'[k][1] = resp
            BY <1>1, <1>2, <3>1
        <3>3. requests'[k] = <<>> /\ serverAt'[k] = "read"
            BY <3>1 DEF IInv, TypeOK
        <3> QED BY <1>1, <3>1, <3>2, <3>3 DEF Only, Working
    <2>5. /\ UNCHANGED <<holder, clientConn, at, stream, mine>>
          /\ \A h \in Conns : serverAt'[h] = "none" => h # k /\ serverAt[h] = "none"
        BY DEF IInv, TypeOK
    <2> HIDE DEF Respond
    <2> QED BY <2>1, <2>2, <2>3, <2>4, <2>5 DEF IInv, TypeOK, OneCaller, Fresh, StreamsApart, HolderCalls, OneCall
<1>8. Registered' /\ NothingServedAfterShutdown'
    BY DEF IInv, TypeOK, Registered, Working, NothingServedAfterShutdown, Handled
<1> QED BY <1>3, <1>4, <1>5, <1>6, <1>7, <1>8 DEF IInv

LEMMA AnswerIInv ==
    ASSUME IInv, NEW k \in Conns, Answer(k) \/ Refuse(k)
    PROVE  IInv'
<1>1. CASE Answer(k)
    <2>1. PICK ok \in BOOLEAN : Respond(k, ok)
        BY <1>1 DEF Answer
    <2>2. serverAt[k] = "respond"
        BY <1>1 DEF Answer
    <2> QED BY <2>1, <2>2, RespondIInv
<1>2. CASE Refuse(k)
    <2>1. serverAt[k] = "refuse" /\ Respond(k, FALSE)
        BY <1>2 DEF Refuse
    <2> QED BY <2>1, RespondIInv
<1> QED BY <1>1, <1>2

\* A dead connection loses what is on its way.
LEMMA CutIInv ==
    ASSUME IInv, NEW k \in Conns, Cut(k)
    PROVE  IInv'
<1> USE DEF server, client, history, Cut
<1>1. TypeOK'
    BY DEF IInv, TypeOK
<1>2. IdsLeft' /\ ExecutedOnce' /\ Answered'
    BY DEF IInv, IdsLeft, Sending, ExecutedOnce, Answered
<1>3. WaitsOnce'
    <2>1. \A h \in Conns : \A i \in Nat :
              Waits(h, i)' => Waits(h, i) /\ Request(h, i)' = Request(h, i)
        BY DEF Waits, Request, IInv, TypeOK
    <2> QED BY <2>1, FewerWait DEF IInv, TypeOK
<1>4. ResultsExecuted'
    <2>1. /\ responses' \in [Conns -> Seq([id : Nat, ok : BOOLEAN])]
          /\ \A h \in Conns : responses'[h] = responses[h] \/ responses'[h] = <<>>
          /\ UNCHANGED <<serverAt, serving, reqID, executed>>
        BY DEF IInv, TypeOK
    <2>2. ResultsExecuted
        BY DEF IInv
    <2> HIDE DEF Cut
    <2> QED BY <2>1, <2>2 DEF ResultsExecuted
<1>5. OneCaller'
    <2>1. \A h \in Conns : Quiet(h) => Quiet(h)'
        BY DEF Quiet, IInv, TypeOK
    <2>2. \A h \in Conns : \A r : Only(h, r) => Only(h, r)'
        BY DEF Only, IInv, TypeOK
    <2>3. UNCHANGED <<holder, clientConn, at, stream, mine, serverAt>>
        OBVIOUS
    <2> HIDE DEF Cut
    <2> QED BY <2>1, <2>2, <2>3 DEF IInv, TypeOK, OneCaller, Fresh, StreamsApart, HolderCalls, OneCall
<1>6. Registered' /\ NothingServedAfterShutdown'
    BY DEF IInv, Registered, NothingServedAfterShutdown, Handled
<1> QED BY <1>1, <1>2, <1>3, <1>4, <1>5, <1>6 DEF IInv

-----------------------------------------------------------------------------
(* The client: connections come and go.                                     *)

\* Dialling makes a connection that nobody has used.
LEMMA DialConn ==
    ASSUME IInv, NEW k \in Conns, Dial(k), reqID' = reqID
    PROVE  /\ serverAt[k] = "none" /\ UNCHANGED <<requests, responses>>
           /\ WaitsOnce' /\ ExecutedOnce' /\ ResultsExecuted' /\ Answered'
           /\ Registered' /\ NothingServedAfterShutdown'
           /\ \A h \in Conns : /\ serverAt'[h] = "none" => h # k /\ serverAt[h] = "none"
                               /\ Quiet(h) => Quiet(h)'
                               /\ \A r : Only(h, r) => Only(h, r)'
<1> USE DEF history, Dial
<1>1. WaitsOnce'
    <2>1. \A h \in Conns : \A i \in Nat :
              Waits(h, i)' => Waits(h, i) /\ Request(h, i)' = Request(h, i)
        BY DEF Waits, Request, IInv, TypeOK
    <2> QED BY <2>1, FewerWait DEF IInv, TypeOK
<1>2. ExecutedOnce' /\ ResultsExecuted' /\ Answered'
    BY DEF IInv, TypeOK, ExecutedOnce, ResultsExecuted, Answered
<1>3. Registered' /\ NothingServedAfterShutdown'
    BY DEF IInv, TypeOK, Registered, Working, NothingServedAfterShutdown, Handled
<1>4. \A h \in Conns : /\ serverAt'[h] = "none" => h # k /\ serverAt[h] = "none"
                       /\ Quiet(h) => Quiet(h)'
                       /\ \A r : Only(h, r) => Only(h, r)'
    BY DEF IInv, TypeOK, Quiet, Only, Working
<1> QED BY <1>1, <1>2, <1>3, <1>4

LEMMA BeginIInv ==
    ASSUME IInv, NEW a \in Callers, Begin(a)
    PROVE  IInv'
<1>1. /\ a \in Users /\ at[a] = "idle" /\ IdLeft /\ reqID' = reqID
      /\ holder = None /\ holder' = a /\ at' = [at EXCEPT ![a] = "send"]
      /\ UNCHANGED <<mine, stream>>
    BY DEF Begin, Users
<1>2. IdsLeft'
    BY <1>1, ReservesId DEF IInv
<1>3. CASE clientConn # None /\ UNCHANGED <<server, wires, clientConn, shaking, history>>
    <2> USE <1>3 DEF server, wires, history
    <2>1. TypeOK'
        BY <1>1 DEF IInv, TypeOK
    <2>2. WaitsOnce' /\ ExecutedOnce' /\ ResultsExecuted' /\ Answered'
        BY <1>1 DEF IInv, WaitsOnce, Waits, Request, ExecutedOnce, ResultsExecuted, Answered
    <2>3. Registered' /\ NothingServedAfterShutdown'
        BY DEF IInv, Registered, NothingServedAfterShutdown, Handled
    <2>4. \A k \in Conns : Quiet(k) => Quiet(k)'
        BY DEF Quiet
    <2>5. OneCaller'
        <3>1. Fresh' /\ StreamsApart'
            BY <1>1, <2>4, RpcAssumption DEF IInv, TypeOK, OneCaller, Fresh, StreamsApart, Users
        <3>2. HolderCalls'
            BY <1>1, RpcAssumption DEF IInv, TypeOK, OneCaller, HolderCalls
        <3>3. OneCall'
            <4>1. Quiet(clientConn) /\ at'[a] = "send" /\ clientConn \in Conns
                BY <1>1 DEF IInv, TypeOK, OneCaller, OneCall
            <4> QED BY <1>1, <2>4, <4>1 DEF OneCall
        <3> QED BY <3>1, <3>2, <3>3 DEF OneCaller
    <2> QED BY <1>2, <2>1, <2>2, <2>3, <2>5 DEF IInv
<1>4. ASSUME NEW k \in Conns, clientConn = None, Dial(k), clientConn' = k PROVE IInv'
    <2>1. TypeOK'
        BY <1>1, <1>4 DEF IInv, TypeOK, Dial, history
    <2>2. /\ serverAt[k] = "none" /\ UNCHANGED <<requests, responses>>
          /\ WaitsOnce' /\ ExecutedOnce' /\ ResultsExecuted' /\ Answered'
          /\ Registered' /\ NothingServedAfterShutdown'
          /\ \A h \in Conns : /\ serverAt'[h] = "none" => h # k /\ serverAt[h] = "none"
                              /\ Quiet(h) => Quiet(h)'
                              /\ \A r : Only(h, r) => Only(h, r)'
        BY <1>1, <1>4, DialConn
    <2>3. OneCaller'
        <3>1. Fresh'
            BY <1>1, <1>4, <2>2 DEF IInv, OneCaller, Fresh
        <3>2. StreamsApart'
            BY <1>1, <1>4, <2>2, RpcAssumption DEF IInv, TypeOK, OneCaller, StreamsApart, Fresh, Users
        <3>3. HolderCalls'
            BY <1>1, <1>4, RpcAssumption DEF IInv, TypeOK, OneCaller, HolderCalls
        <3>4. OneCall'
            <4>1. Quiet(k)' /\ at'[a] = "send"
                BY <1>1, <2>2 DEF IInv, TypeOK, OneCaller, Fresh
            <4> QED BY <1>1, <1>4, <4>1 DEF OneCall
        <3> QED BY <3>1, <3>2, <3>3, <3>4 DEF OneCaller
    <2> QED BY <1>2, <2>1, <2>2, <2>3 DEF IInv
<1> QED BY <1>3, <1>4 DEF Begin

LEMMA StreamDialIInv ==
    ASSUME IInv, NEW u \in Streams, StreamDial(u)
    PROVE  IInv'
<1>1. PICK k \in Conns : Dial(k) /\ stream' = [stream EXCEPT ![u] = k]
    BY DEF StreamDial
<1>2. /\ u \in Users /\ u \notin Callers /\ at[u] = "idle" /\ IdLeft
      /\ at' = [at EXCEPT ![u] = "send"] /\ UNCHANGED <<holder, clientConn, reqID, mine>>
    BY RpcAssumption DEF StreamDial, Users
<1>3. IdsLeft'
    BY <1>2, ReservesId DEF IInv
<1>4. TypeOK'
    BY <1>1, <1>2 DEF IInv, TypeOK, Dial, history
<1>5. /\ serverAt[k] = "none" /\ UNCHANGED <<requests, responses>>
      /\ WaitsOnce' /\ ExecutedOnce' /\ ResultsExecuted' /\ Answered'
      /\ Registered' /\ NothingServedAfterShutdown'
      /\ \A h \in Conns : /\ serverAt'[h] = "none" => h # k /\ serverAt[h] = "none"
                          /\ Quiet(h) => Quiet(h)'
                          /\ \A r : Only(h, r) => Only(h, r)'
    BY <1>1, <1>2, DialConn
<1>6. OneCaller'
    <2>1. Fresh'
        BY <1>1, <1>2, <1>5 DEF IInv, TypeOK, OneCaller, Fresh
    <2>2. StreamsApart'
        BY <1>1, <1>2, <1>5, RpcAssumption DEF IInv, TypeOK, OneCaller, StreamsApart, Fresh, Users
    <2>3. HolderCalls'
        BY <1>2 DEF IInv, TypeOK, OneCaller, HolderCalls
    <2>4. OneCall'
        <3>1. holder # None => at'[holder] = at[holder]
            BY <1>2 DEF IInv, TypeOK
        <3>2. clientConn # None => clientConn \in Conns
            BY DEF IInv, TypeOK
        <3>3. OneCall /\ (holder # None => clientConn # None)
            BY DEF IInv, OneCaller, HolderCalls
        <3> QED BY <1>2, <1>5, <3>1, <3>2, <3>3 DEF OneCall
    <2> QED BY <2>1, <2>2, <2>3, <2>4 DEF OneCaller
<1> QED BY <1>3, <1>4, <1>5, <1>6 DEF IInv

\* The client lets go of its connection and of c.mu.
LEMMA LetGo ==
    ASSUME IInv, TypeOK', UNCHANGED <<serverAt, requests, responses, stream>>,
           clientConn' = None, holder' = None,
           \A a \in Callers : at'[a] = "idle", \A u \in Streams : at'[u] = at[u]
    PROVE  OneCaller'
<1>1. \A k \in Conns : Quiet(k) => Quiet(k)'
    BY DEF Quiet
<1>2. Fresh' /\ StreamsApart' /\ HolderCalls'
    BY <1>1, RpcAssumption DEF IInv, TypeOK, OneCaller, Fresh, StreamsApart, HolderCalls
<1>3. OneCall'
    BY DEF OneCall
<1> QED BY <1>2, <1>3 DEF OneCaller

\* What the client's end does to a connection does not touch the server.
LEMMA ServerStays ==
    ASSUME IInv, UNCHANGED <<server, serverOpen>>
    PROVE  Registered' /\ NothingServedAfterShutdown'
    BY DEF IInv, server, Registered, NothingServedAfterShutdown, Handled

LEMMA GiveUpIInv ==
    ASSUME IInv, NEW a \in Callers, HandshakeFails(a) \/ SendFails(a) \/ CallFails(a)
    PROVE  IInv'
<1>1. /\ GiveUp(a) /\ at[a] # "idle" /\ a \in Users /\ a \notin Streams
      /\ at' = [at EXCEPT ![a] = "idle"] /\ clientConn' = None /\ holder' = None
      /\ UNCHANGED <<server, serverOpen, serverAt, serving, requests, responses, stream, executed, answers>>
    BY RpcAssumption DEF HandshakeFails, SendFails, CallFails, GiveUp, Users, server, history
<1>2. holder = a /\ clientConn \in Conns
    BY <1>1, RpcAssumption DEF IInv, TypeOK, OneCaller, HolderCalls
<1>3. /\ reqID' \in Nat /\ reqID <= reqID' /\ reqID' <= reqID + 1 /\ IdsLeft'
      /\ mine' \in [Users -> Nat]
    <2>1. CASE at[a] = "send" /\ reqID' = reqID + 1 /\ mine' = [mine EXCEPT ![a] = reqID']
        <3>1. IdsLeft'
            BY <1>1, <2>1, TakesId DEF IInv
        <3> QED BY <1>1, <2>1, <3>1 DEF IInv, TypeOK
    <2>2. CASE UNCHANGED <<reqID, mine>>
        <3>1. Sending' \subseteq Sending
            BY <1>1 DEF Sending, IInv, TypeOK
        <3>2. IdsLeft'
            BY <2>2, <3>1, FewerSend DEF IInv
        <3> QED BY <2>2, <3>2 DEF IInv, TypeOK
    <2> QED BY <2>1, <2>2 DEF HandshakeFails, SendFails, CallFails
<1>4. TypeOK'
    BY <1>1, <1>2, <1>3 DEF IInv, TypeOK, GiveUp, server, history
<1>5. WaitsOnce'
    <2>1. \A h \in Conns : \A i \in Nat :
              Waits(h, i)' => Waits(h, i) /\ Request(h, i)' = Request(h, i)
        BY <1>1 DEF Waits, Request
    <2> QED BY <1>1, <1>3, <2>1, FewerWait DEF IInv, TypeOK
<1>6. ExecutedOnce' /\ ResultsExecuted' /\ Answered'
    <2>1. reqID \in Nat /\ ExecutedOnce /\ ResultsExecuted /\ Answered
        BY DEF IInv, TypeOK
    <2>2. 1..reqID \subseteq 1..reqID' /\ \A i : i \in 1..MaxCalls /\ i > reqID' => i > reqID
        BY <1>3, <2>1
    <2>3. ExecutedOnce'
        BY <1>1, <2>1, <2>2 DEF ExecutedOnce
    <2>4. ResultsExecuted'
        BY <1>1, <2>1, <2>2 DEF ResultsExecuted
    <2>5. Answered'
        BY <1>1, <2>1, <2>2 DEF Answered
    <2> QED BY <2>3, <2>4, <2>5
<1>7. OneCaller'
    <2>1. /\ \A b \in Callers : at'[b] = "idle"
          /\ \A u \in Streams : at'[u] = at[u]
        BY <1>1, <1>2 DEF IInv, TypeOK, OneCaller, HolderCalls, Users
    <2> QED BY <1>1, <1>4, <2>1, LetGo
<1>8. Registered' /\ NothingServedAfterShutdown'
    BY <1>1, ServerStays
<1> QED BY <1>3, <1>4, <1>5, <1>6, <1>7, <1>8 DEF IInv

\* A handshake moves no message.
LEMMA HandshakeIInv ==
    ASSUME IInv, NEW u \in Users, NEW k, Handshake(u, k)
    PROVE  IInv'
<1> USE DEF Handshake, server, wires, history
<1>1. Undisturbed /\ TypeOK'
    BY DEF Undisturbed, IInv, TypeOK
<1>2. Registered' /\ NothingServedAfterShutdown'
    BY ServerStays
<1> QED BY <1>1, <1>2, NothingMoves DEF IInv

LEMMA CloseClientIInv ==
    ASSUME IInv, CloseClient
    PROVE  IInv'
<1> USE DEF CloseClient, server, history
<1>1. TypeOK'
    BY DEF IInv, TypeOK
<1>2. IdsLeft' /\ WaitsOnce' /\ ExecutedOnce' /\ ResultsExecuted' /\ Answered'
    BY DEF IInv, IdsLeft, Sending, WaitsOnce, Waits, Request, ExecutedOnce, ResultsExecuted, Answered
<1>3. OneCaller'
    <2>1. \A b \in Callers : at'[b] = "idle"
        BY RpcAssumption DEF IInv, TypeOK, OneCaller, HolderCalls, Users
    <2> QED BY <1>1, <2>1, LetGo
<1>4. Registered' /\ NothingServedAfterShutdown'
    BY ServerStays
<1> QED BY <1>1, <1>2, <1>3, <1>4 DEF IInv

LEMMA StreamEndsIInv ==
    ASSUME IInv, NEW u \in Streams, StreamReceive(u) \/ StreamFails(u)
    PROVE  IInv'
<1>1. /\ at[u] # "idle" /\ u \in Users /\ u \notin Callers
      /\ UNCHANGED <<server, serverOpen, serverAt, serving, cut, requests, holder, clientConn, reqID, mine,
                     executed, answers>>
    BY RpcAssumption DEF StreamReceive, StreamFails, Users, server, history
<1>2. PICK k \in Conns : k = stream[u] /\ clientConn # k
    BY <1>1 DEF IInv, TypeOK, OneCaller, StreamsApart
<1>3. /\ \A h \in Conns \ {k} : responses'[h] = responses[h]
      /\ responses'[k] # responses[k] => responses[k] # <<>> /\ responses'[k] = Tail(responses[k])
      /\ responses' \in [Conns -> Seq([id : Nat, ok : BOOLEAN])]
      /\ responses[k] \in Seq([id : Nat, ok : BOOLEAN])
    <2>1. /\ responses[k] \in Seq([id : Nat, ok : BOOLEAN])
          /\ responses[k] # <<>> => Tail(responses[k]) \in Seq([id : Nat, ok : BOOLEAN])
        BY <1>2 DEF IInv, TypeOK
    <2>2. CASE responses' = responses
        BY <2>1, <2>2 DEF IInv, TypeOK
    <2>3. CASE responses[k] # <<>> /\ responses' = [responses EXCEPT ![k] = Tail(@)]
        BY <1>2, <2>1, <2>3 DEF IInv, TypeOK
    <2> QED BY <1>2, <2>2, <2>3 DEF StreamReceive, StreamFails
<1>4. /\ clientOpen' \in [Conns -> BOOLEAN]
      /\ \/ UNCHANGED <<stream, at>>
         \/ stream' = [stream EXCEPT ![u] = None] /\ at' = [at EXCEPT ![u] = "idle"]
    BY <1>2 DEF StreamReceive, StreamFails, StreamEnds, IInv, TypeOK
<1>5. TypeOK'
    <2>1. stream' \in [Users -> Conns \cup {None}] /\ at' \in [Users -> {"idle", "send", "await"}]
        BY <1>4 DEF IInv, TypeOK
    <2>2. TypeOK
        BY DEF IInv
    <2>3. responses' \in [Conns -> Seq([id : Nat, ok : BOOLEAN])] /\ clientOpen' \in [Conns -> BOOLEAN]
        BY <1>3, <1>4
    <2>4. UNCHANGED <<serves, tls, listener, start, accept, stopping, conns, late, serverAt, serving, serverOpen,
                     cut, requests, holder, clientConn, reqID, mine, executed>>
        BY <1>1 DEF server
    <2> QED BY <2>1, <2>2, <2>3, <2>4 DEF TypeOK
<1>6. IdsLeft'
    <2>1. Sending' \subseteq Sending
        BY <1>4 DEF Sending, IInv, TypeOK
    <2> QED BY <1>1, <2>1, FewerSend DEF IInv
<1>7. WaitsOnce' /\ ExecutedOnce' /\ Answered'
    BY <1>1, SMTT(20) DEF IInv, WaitsOnce, Waits, Request, ExecutedOnce, Answered
<1>8. ResultsExecuted'
    <2>1. ASSUME NEW i \in 1..Len(responses'[k])
          PROVE  \E j \in 1..Len(responses[k]) : responses'[k][i] = responses[k][j]
        <3>1. CASE responses'[k] = responses[k]
            BY <2>1, <3>1
        <3>2. CASE responses'[k] # responses[k]
            <4>1. i + 1 \in 1..Len(responses[k]) /\ responses'[k][i] = responses[k][i + 1]
                BY <1>3, <2>1, <3>2, TailEntries
            <4> QED BY <4>1
        <3> QED BY <3>1, <3>2
    <2>2. \A i \in 1..Len(responses[k]) :
              responses[k][i].ok => /\ responses[k][i].id \in 1..reqID
                                    /\ executed[responses[k][i].id] = 1
        BY <1>2 DEF IInv, ResultsExecuted
    <2>3. \A i \in 1..Len(responses'[k]) :
              responses'[k][i].ok => /\ responses'[k][i].id \in 1..reqID
                                     /\ executed[responses'[k][i].id] = 1
        BY <2>1, <2>2
    <2> QED BY <1>1, <1>2, <1>3, <2>3, SMTT(20) DEF IInv, ResultsExecuted
<1>9. OneCaller'
    <2>1. Fresh'
        <3>1. \A h \in Conns \ {k} : Quiet(h) => Quiet(h)'
            BY <1>1, <1>3 DEF Quiet
        <3>2. serverAt[k] # "none" /\ \A v \in Streams : stream'[v] = stream[v] \/ stream'[v] = None
            BY <1>2, <1>4, RpcAssumption DEF IInv, TypeOK, OneCaller, Fresh, Users
        <3> QED BY <1>1, <1>2, <3>1, <3>2, RpcAssumption DEF IInv, OneCaller, Fresh
    <2>2. StreamsApart'
        BY <1>1, <1>4, RpcAssumption DEF IInv, TypeOK, OneCaller, StreamsApart, Users
    <2>3. \A b \in Callers : at'[b] = at[b]
        BY <1>1, <1>4 DEF IInv, TypeOK, Users
    <2>4. HolderCalls'
        BY <1>1, <2>3 DEF IInv, OneCaller, HolderCalls
    <2>5. OneCall'
        <3>1. clientConn # None => clientConn \in Conns \ {k}
            BY <1>2 DEF IInv, TypeOK
        <3>2. \A h \in Conns \ {k} : (Quiet(h) => Quiet(h)') /\ \A r : Only(h, r) => Only(h, r)'
            BY <1>1, <1>3 DEF Quiet, Only
        <3>3. OneCall /\ (holder # None => clientConn # None /\ holder \in Callers)
            BY DEF IInv, TypeOK, OneCaller, HolderCalls
        <3> QED BY <1>1, <2>3, <3>1, <3>2, <3>3 DEF OneCall
    <2> QED BY <2>1, <2>2, <2>4, <2>5 DEF OneCaller
<1>10. Registered' /\ NothingServedAfterShutdown'
    BY <1>1, ServerStays
<1> QED BY <1>5, <1>6, <1>7, <1>8, <1>9, <1>10 DEF IInv

-----------------------------------------------------------------------------
(* The client: requests.                                                    *)

\* A request goes out under a RequestID that no other has had.
LEMMA WriteRequest ==
    ASSUME IInv, NEW u \in Users, NEW k \in Conns, Write(u, k), at[u] = "send",
           at' = [at EXCEPT ![u] = "await"],
           UNCHANGED <<server, serverOpen, clientOpen, cut, responses, holder, clientConn, stream, history>>
    PROVE  /\ TypeOK' /\ IdsLeft' /\ WaitsOnce' /\ ExecutedOnce' /\ ResultsExecuted' /\ Answered'
           /\ Registered' /\ NothingServedAfterShutdown'
           /\ \A h \in Conns \ {k} : requests'[h] = requests[h]
           /\ \/ requests'[k] = requests[k]
              \/ requests'[k] = Append(requests[k], reqID')
<1> USE DEF server, history, Write
<1>1. reqID + 1 <= MaxCalls /\ IdsLeft'
    BY TakesId DEF IInv
<1>2. reqID \in Nat /\ reqID' = reqID + 1
    BY DEF IInv, TypeOK
<1>3. /\ requests[k] \in Seq(Nat) /\ requests' \in [Conns -> Seq(Nat)]
      /\ \A h \in Conns \ {k} : requests'[h] = requests[h]
      /\ requests'[k] # requests[k] => requests'[k] = Append(requests[k], reqID')
    BY <1>2 DEF IInv, TypeOK
<1>4. TypeOK'
    BY <1>2, <1>3 DEF IInv, TypeOK
<1>5. ExecutedOnce' /\ ResultsExecuted' /\ Answered'
    <2>1. \A i \in 1..reqID : i \in 1..reqID'
        BY <1>2
    <2>2. ExecutedOnce'
        BY <1>2 DEF IInv, ExecutedOnce
    <2>3. ResultsExecuted' /\ Answered'
        BY <2>1 DEF IInv, ResultsExecuted, Answered
    <2> QED BY <2>2, <2>3
<1>6. WaitsOnce'
    <2> DEFINE New(h, i) == h = k /\ i = Len(requests[k]) + 1
    <2>1. ASSUME NEW h \in Conns, NEW i \in Nat, Waits(h, i)', ~New(h, i)
          PROVE  Waits(h, i) /\ Request(h, i)' = Request(h, i)
        <3>1. serverAt' = serverAt /\ serving' = serving
            OBVIOUS
        <3>2. CASE requests'[h] = requests[h]
            BY <2>1, <3>1, <3>2 DEF Waits, Request
        <3>3. CASE requests'[h] # requests[h]
            <4>1. h = k /\ requests'[k] = Append(requests[k], reqID')
                BY <1>3, <3>3
            <4>2. i \in 0..Len(requests[k]) /\ (i # 0 => requests'[k][i] = requests[k][i])
                BY <1>2, <1>3, <2>1, <4>1 DEF Waits
            <4> QED BY <2>1, <3>1, <4>1, <4>2 DEF Waits, Request
        <3> QED BY <3>2, <3>3
    <2>2. ASSUME NEW h \in Conns, NEW i \in Nat, Waits(h, i)', New(h, i)
          PROVE  Request(h, i)' = reqID + 1
        <3>1. requests'[k] = Append(requests[k], reqID') /\ i # 0
            BY <1>3, <2>2 DEF Waits
        <3> QED BY <1>2, <1>3, <2>2, <3>1 DEF Request
    <2>3. \A h \in Conns : \A i \in Nat : Waits(h, i) =>
              Request(h, i) \in 1..reqID /\ executed[Request(h, i)] = 0
        BY DEF IInv, WaitsOnce
    <2>4. executed[reqID + 1] = 0 /\ executed' = executed
        BY <1>1, <1>2 DEF IInv, ExecutedOnce
    <2>5. \A h, g \in Conns : \A i, j \in Nat : New(h, i) /\ New(g, j) => h = g /\ i = j
        OBVIOUS
    <2> HIDE DEF New, Write
    <2> SUFFICES ASSUME NEW h \in Conns, NEW g \in Conns, NEW i \in Nat, NEW j \in Nat,
                        Waits(h, i)'
                 PROVE  /\ Request(h, i)' \in 1..reqID' /\ executed'[Request(h, i)'] = 0
                        /\ Waits(g, j)' /\ Request(h, i)' = Request(g, j)' => h = g /\ i = j
        BY DEF WaitsOnce
    <2>6. CASE New(h, i)
        <3>1. Request(h, i)' = reqID + 1
            BY <2>2, <2>6
        <3>2. Waits(g, j)' /\ ~New(g, j) => Request(g, j)' \in 1..reqID
            BY <2>1, <2>3
        <3> QED BY <1>2, <2>4, <2>5, <2>6, <3>1, <3>2
    <2>7. CASE ~New(h, i)
        <3>1. Waits(h, i) /\ Request(h, i)' = Request(h, i) /\ Request(h, i) \in 1..reqID
            BY <2>1, <2>3, <2>7
        <3>2. Waits(g, j)' /\ ~New(g, j) => Waits(g, j) /\ Request(g, j)' = Request(g, j)
            BY <2>1
        <3>3. Waits(g, j)' /\ New(g, j) => Request(g, j)' = reqID + 1
            BY <2>2
        <3>4. Waits(g, j) /\ Request(h, i) = Request(g, j) => h = g /\ i = j
            BY <3>1 DEF IInv, WaitsOnce
        <3> QED BY <1>2, <2>3, <2>4, <3>1, <3>2, <3>3, <3>4
    <2> QED BY <2>6, <2>7
<1>7. Registered' /\ NothingServedAfterShutdown'
    BY ServerStays DEF IInv
<1> QED BY <1>1, <1>3, <1>4, <1>5, <1>6, <1>7

LEMMA SendIInv ==
    ASSUME IInv, NEW a \in Callers, Send(a)
    PROVE  IInv'
<1>1. /\ a \in Users /\ a \notin Streams /\ at[a] = "send" /\ Write(a, clientConn)
      /\ at' = [at EXCEPT ![a] = "await"]
      /\ UNCHANGED <<server, serverOpen, clientOpen, cut, responses, holder, clientConn, stream, history>>
    BY RpcAssumption DEF Send, Users
<1>2. PICK k \in Conns : clientConn = k /\ holder = a /\ Quiet(k)
    BY <1>1, RpcAssumption DEF IInv, TypeOK, OneCaller, HolderCalls, OneCall
<1>3. /\ TypeOK' /\ IdsLeft' /\ WaitsOnce' /\ ExecutedOnce' /\ ResultsExecuted' /\ Answered'
      /\ Registered' /\ NothingServedAfterShutdown'
      /\ \A h \in Conns \ {k} : requests'[h] = requests[h]
      /\ \/ requests'[k] = requests[k]
         \/ requests'[k] = Append(requests[k], reqID')
    BY <1>1, <1>2, WriteRequest
<1>4. Fresh'
    <2>1. \A h \in Conns \ {k} : Quiet(h) => Quiet(h)'
        BY <1>1, <1>3 DEF Quiet, server
    <2>2. serverAt[k] # "none"
        BY <1>2 DEF IInv, OneCaller, Fresh
    <2> QED BY <1>1, <1>2, <2>1, <2>2 DEF IInv, OneCaller, Fresh, server
<1>5. StreamsApart' /\ HolderCalls'
    BY <1>1, <1>2 DEF IInv, TypeOK, OneCaller, StreamsApart, HolderCalls, Users
<1>6. OneCall'
    <2>1. at'[a] = "await" /\ mine'[a] = reqID' /\ reqID' \in Nat /\ a # None
        BY <1>1, <1>3, RpcAssumption DEF IInv, TypeOK, Write
    <2>2. requests[k] = <<>> /\ responses'[k] = <<>> /\ serverAt'[k] \notin Working
        BY <1>1, <1>2 DEF Quiet, server
    <2>3. requests'[k] # <<>> => Len(requests'[k]) = 1 /\ requests'[k][1] = reqID'
        <3>1. requests[k] \in Seq(Nat)
            BY DEF IInv, TypeOK
        <3>2. requests'[k] # <<>> => requests'[k] = Append(requests[k], reqID')
            BY <1>3, <2>2
        <3>3. Len(requests[k]) = 0
            BY <2>2
        <3>4. Len(Append(requests[k], reqID')) = 1 /\ Append(requests[k], reqID')[1] = reqID'
            BY ONLY <2>1, <3>1, <3>3, FirstEntry
        <3> QED BY <3>2, <3>4
    <2>4. Only(k, reqID)'
        BY <2>2, <2>3 DEF Only
    <2> QED BY <1>1, <1>2, <2>1, <2>4 DEF OneCall, Only
<1> QED BY <1>3, <1>4, <1>5, <1>6 DEF IInv, OneCaller

LEMMA StreamSendIInv ==
    ASSUME IInv, NEW u \in Streams, StreamSend(u)
    PROVE  IInv'
<1>1. /\ u \in Users /\ u \notin Callers /\ at[u] = "send" /\ Write(u, stream[u])
      /\ at' = [at EXCEPT ![u] = "await"] /\ holder = None
      /\ UNCHANGED <<server, serverOpen, clientOpen, cut, responses, holder, clientConn, stream, history>>
    BY RpcAssumption DEF StreamSend, Users
<1>2. PICK k \in Conns : stream[u] = k /\ clientConn # k
    BY <1>1 DEF IInv, TypeOK, OneCaller, StreamsApart
<1>3. /\ TypeOK' /\ IdsLeft' /\ WaitsOnce' /\ ExecutedOnce' /\ ResultsExecuted' /\ Answered'
      /\ Registered' /\ NothingServedAfterShutdown'
      /\ \A h \in Conns \ {k} : requests'[h] = requests[h]
    BY <1>1, <1>2, WriteRequest
<1>4. \A h \in Conns \ {k} : Quiet(h) => Quiet(h)'
    BY <1>1, <1>3 DEF Quiet, server
<1>5. Fresh'
    <2>1. serverAt[k] # "none"
        BY <1>2 DEF IInv, OneCaller, Fresh
    <2> QED BY <1>1, <1>2, <1>4, <2>1 DEF IInv, OneCaller, Fresh, server
<1>6. StreamsApart' /\ HolderCalls'
    BY <1>1, <1>2 DEF IInv, TypeOK, OneCaller, StreamsApart, HolderCalls, Users
<1>7. OneCall'
    <2>1. clientConn # None => clientConn \in Conns \ {k} /\ Quiet(clientConn)
        BY <1>1, <1>2 DEF IInv, TypeOK, OneCaller, OneCall
    <2> QED BY <1>1, <1>4, <2>1 DEF OneCall
<1> QED BY <1>3, <1>5, <1>6, <1>7 DEF IInv, OneCaller

\* The caller takes the only response there is: the one to its request.
LEMMA ReceiveIInv ==
    ASSUME IInv, NEW a \in Callers, Receive(a)
    PROVE  IInv'
<1>1. /\ a \in Users /\ a \notin Streams /\ at[a] = "await" /\ a # None
      /\ at' = [at EXCEPT ![a] = "idle"] /\ holder' = None
      /\ UNCHANGED <<serverAt, serving, requests, clientConn, reqID, mine, stream, executed>>
      /\ UNCHANGED <<server, serverOpen, clientOpen, cut>>
    BY RpcAssumption DEF Receive, Users, server
<1>2. PICK k \in Conns : clientConn = k /\ holder = a /\ Only(k, mine[a])
    BY <1>1, RpcAssumption DEF IInv, TypeOK, OneCaller, HolderCalls, OneCall
<1>3. /\ responses[k] # <<>> /\ responses' = [responses EXCEPT ![k] = Tail(@)]
      /\ answers' = IF Head(responses[k]).ok
                    THEN answers \cup {<<mine[a], Head(responses[k]).id>>} ELSE answers
    BY <1>2 DEF Receive
<1>4. /\ Len(responses[k]) = 1 /\ responses[k][1].id = mine[a] /\ Head(responses[k]) = responses[k][1]
      /\ requests[k] = <<>> /\ serverAt[k] \notin Working
      /\ responses[k] \in Seq([id : Nat, ok : BOOLEAN])
    BY <1>2, <1>3 DEF Only, IInv, TypeOK
<1>5. responses'[k] = <<>> /\ \A h \in Conns \ {k} : responses'[h] = responses[h]
    <2>1. Tail(responses[k]) = <<>>
        BY <1>4, TailOfOne
    <2> QED BY <1>3, <2>1 DEF IInv, TypeOK
<1>6. TypeOK'
    <2>1. responses' \in [Conns -> Seq([id : Nat, ok : BOOLEAN])]
        <3>1. <<>> \in Seq([id : Nat, ok : BOOLEAN])
            OBVIOUS
        <3> QED BY <1>3, <1>5, <3>1 DEF IInv, TypeOK
    <2>2. at' \in [Users -> {"idle", "send", "await"}] /\ holder' \in Callers \cup {None}
        BY <1>1 DEF IInv, TypeOK
    <2> QED BY <1>1, <2>1, <2>2 DEF IInv, TypeOK, server
<1>7. IdsLeft'
    <2>1. Sending' \subseteq Sending
        BY <1>1 DEF Sending, IInv, TypeOK
    <2> QED BY <1>1, <2>1, FewerSend DEF IInv
<1>8. WaitsOnce' /\ ExecutedOnce'
    BY <1>1 DEF IInv, WaitsOnce, Waits, Request, ExecutedOnce
<1>9. ResultsExecuted'
    BY <1>1, <1>5 DEF IInv, ResultsExecuted
<1>10. Answered'
    <2>1. responses[k][1].ok => mine[a] \in 1..reqID /\ executed[mine[a]] = 1
        BY <1>4 DEF IInv, ResultsExecuted
    <2>2. \A x \in answers' : x \in answers \/ (x = <<mine[a], mine[a]>> /\ responses[k][1].ok)
        BY <1>3, <1>4
    <2> QED BY <1>1, <2>1, <2>2 DEF IInv, Answered
<1>11. \A h \in Conns : Quiet(h) => Quiet(h)'
    BY <1>1, <1>5 DEF Quiet
<1>12. Fresh' /\ StreamsApart'
    BY <1>1, <1>11 DEF IInv, TypeOK, OneCaller, Fresh, StreamsApart, Users
<1>13. HolderCalls'
    BY <1>1, <1>2, RpcAssumption DEF IInv, TypeOK, OneCaller, HolderCalls
<1>14. OneCall'
    <2>1. Quiet(k)'
        BY <1>1, <1>4, <1>5 DEF Quiet
    <2> QED BY <1>1, <1>2, <2>1 DEF OneCall
<1>15. Registered' /\ NothingServedAfterShutdown'
    BY <1>1, ServerStays
<1> QED BY <1>6, <1>7, <1>8, <1>9, <1>10, <1>12, <1>13, <1>14, <1>15 DEF IInv, OneCaller

-----------------------------------------------------------------------------
LEMMA NextIInv ==
    ASSUME IInv, [Next]_vars
    PROVE  IInv'
<1>1. CASE UNCHANGED vars
    <2>1. Undisturbed /\ TypeOK'
        BY <1>1 DEF vars, server, wires, client, history, Undisturbed, IInv, TypeOK
    <2>2. Registered' /\ NothingServedAfterShutdown'
        BY <1>1, ServerStays DEF vars, wires
    <2> QED BY <2>1, <2>2, NothingMoves DEF IInv
<1>2. CASE Next
    BY <1>2, StartIInv, ShutdownIInv, ConnIInv, ReadRequestIInv, HandleRPCIInv, AnswerIInv,
       CutIInv, BeginIInv, SendIInv, GiveUpIInv, ReceiveIInv, StreamDialIInv, StreamSendIInv,
       StreamEndsIInv, CloseClientIInv, HandshakeIInv
       DEF Next, ConnStep, CallStep, StreamShakes, StreamStep, Users
<1> QED BY <1>1, <1>2

\* The invariant of the server, the client and the connections between them.
THEOREM RpcInvariant == Spec => []IInv
<1>1. Init => IInv
    BY InitIInv
<1>2. IInv /\ [Next]_vars => IInv'
    BY NextIInv
<1> QED BY <1>1, <1>2, PTL DEF Spec

\* A call that succeeds got the answer to its own request, which was executed
\* (RPCClient.Call, which compares no RequestIDs).
THEOREM RpcOwnAnswer == Spec => []OwnAnswer
<1>1. IInv => OwnAnswer
    BY DEF IInv, Answered, OwnAnswer
<1> QED BY <1>1, RpcInvariant, PTL

\* No request is executed twice (handleConn and HandleRPC), whatever becomes
\* of its connection and its caller.
THEOREM RpcAtMostOnce == Spec => []AtMostOnce
<1>1. IInv => AtMostOnce
    BY DEF IInv, ExecutedOnce, AtMostOnce
<1> QED BY <1>1, RpcInvariant, PTL

\* What Shutdown leaves open are the connections that were accepted and not
\* yet registered, and when it returns none is handled.
THEOREM RpcNothingServedAfterShutdown == Spec => []NothingServedAfterShutdown
<1>1. IInv => NothingServedAfterShutdown
    BY DEF IInv
<1> QED BY <1>1, RpcInvariant, PTL
=============================================================================
