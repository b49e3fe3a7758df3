-------------------------------- MODULE Rpc --------------------------------
(***************************************************************************)
(* internal/cluster/grpc.go: the RPC server with a goroutine per           *)
(* connection, and one client whose mutex its callers share.  A connection *)
(* is two queues of whole messages and two ends that are open or not; a    *)
(* request is its RequestID.                                               *)
(***************************************************************************)
EXTENDS Naturals, Sequences, FiniteSets

CONSTANTS
    Callers,      \* goroutines that use the client
    Streams,      \* callers of StreamTaskProgress
    Conns,        \* connections, each dialled at most once
    MaxCalls,     \* bound on reqID
    None

ASSUME RpcAssumption ==
    /\ MaxCalls \in Nat
    /\ IsFiniteSet(Callers \cup Streams) /\ Callers \cap Streams = {}
    /\ None \notin Conns \cup Callers

VARIABLES
    serves,       \* the server has a handler and accepts the client's token
    tls,          \* the cluster uses TLS
    start,        \* Start: "no", "listening", "running"
    listener,     \* s.listener accepts connections
    accept,       \* acceptLoop: "no", "loop", "end"
    stopping,     \* Shutdown: "no", "closed", "wait", "done"
    conns,        \* s.conns
    serverAt,     \* handleConn
    serving,      \* the request it has read
    serverOpen,   \* the server's end of a connection
    clientOpen,   \* the client's end
    cut,          \* nothing goes through any more and nobody is told
    requests,     \* on the way to the server
    responses,    \* on the way back: RequestID and whether Error is empty
    late,         \* accepted but not registered when Shutdown closed all others
    holder,       \* who holds c.mu
    clientConn,   \* c.conn
    reqID,        \* c.reqID
    at,           \* a caller's position
    mine,         \* the RequestID of its call
    stream,       \* the connection of its stream
    shaking,      \* users in tls.Dial whose handshake is not over
    executed,     \* how often HandleRPC was called for a request
    answers       \* pairs of a call that succeeded and the response it took

server  == <<serves, tls, start, listener, accept, stopping, conns, serverAt, serving, late>>
wires   == <<serverOpen, clientOpen, cut, requests, responses>>
client  == <<holder, clientConn, reqID, at, mine, stream, shaking>>
history == <<executed, answers>>
vars    == <<server, wires, client, history>>

Users == Callers \cup Streams

Init ==
    /\ serves \in BOOLEAN /\ tls \in BOOLEAN
    /\ start = "no" /\ listener = FALSE /\ accept = "no" /\ stopping = "no"
    /\ conns = {} /\ late = {}
    /\ serverAt = [k \in Conns |-> "none"]
    /\ serving = [k \in Conns |-> 0]
    /\ serverOpen = [k \in Conns |-> FALSE]
    /\ clientOpen = [k \in Conns |-> FALSE]
    /\ cut = [k \in Conns |-> FALSE]
    /\ requests = [k \in Conns |-> <<>>]
    /\ responses = [k \in Conns |-> <<>>]
    /\ holder = None /\ clientConn = None /\ reqID = 0
    /\ at = [u \in Users |-> "idle"]
    /\ mine = [u \in Users |-> 0]
    /\ stream = [u \in Users |-> None]
    /\ shaking = {}
    /\ executed = [i \in 1..MaxCalls |-> 0]
    /\ answers = {}

----------------------------------------------------------------------------
(* Server: Start, acceptLoop, Shutdown.                                    *)

Listen ==
    /\ start = "no"
    /\ start' = "listening"
    /\ UNCHANGED <<serves, tls, listener, accept, stopping, conns, serverAt, serving, late,
                   wires, client, history>>

\* The listener is kept, whether Shutdown has been called or not.
Started ==
    /\ start = "listening"
    /\ start' = "running"
    /\ listener' = TRUE
    /\ accept' = "loop"
    /\ UNCHANGED <<serves, tls, stopping, conns, serverAt, serving, late, wires, client, history>>

\* A connection that the system has already made (see Dial).
Accept(k) ==
    /\ accept = "loop" /\ stopping = "no"
    /\ serverAt[k] = "backlog"
    /\ serverAt' = [serverAt EXCEPT ![k] = "accepted"]
    /\ UNCHANGED <<serves, tls, start, listener, accept, stopping, conns, serving, late,
                   wires, client, history>>

AcceptEnds_Retries ==
    /\ accept = "loop" /\ stopping # "no" /\ listener
    /\ accept' = "end"
    /\ UNCHANGED <<serves, tls, start, listener, stopping, conns, serverAt, serving, late,
                   wires, client, history>>

\* stopCh is closed, before or after Accept has failed.
AcceptEnds ==
    /\ accept = "loop" /\ stopping # "no"
    /\ accept' = "end"
    /\ UNCHANGED <<serves, tls, start, listener, stopping, conns, serverAt, serving, late,
                   wires, client, history>>

\* Shutdown: stopCh and the listener; connections nobody has accepted are reset.
CloseListener ==
    /\ stopping = "no"
    /\ stopping' = "closed"
    /\ listener' = FALSE
    /\ LET reset == {k \in Conns : serverAt[k] = "backlog" /\ listener} IN
         /\ serverAt' = [k \in Conns |-> IF k \in reset THEN "end" ELSE serverAt[k]]
         /\ serverOpen' = [k \in Conns |-> serverOpen[k] /\ k \notin reset]
    /\ UNCHANGED <<serves, tls, start, accept, conns, serving, late,
                   clientOpen, cut, requests, responses, client, history>>

\* The registered connections are closed.
CloseConns ==
    /\ stopping = "closed"
    /\ stopping' = "wait"
    /\ serverOpen' = [k \in Conns |-> serverOpen[k] /\ k \notin conns]
    /\ conns' = {}
    /\ late' = {k \in Conns : serverAt[k] = "accepted"}
    /\ UNCHANGED <<serves, tls, start, listener, accept, serverAt, serving,
                   clientOpen, cut, requests, responses, client, history>>

Goroutines_AddedLate ==
    (IF accept = "loop" THEN {"acceptLoop"} ELSE {})
      \cup {k \in Conns : serverAt[k] \notin {"none", "backlog", "accepted", "end"}}

Goroutines ==
    (IF accept = "loop" THEN {"acceptLoop"} ELSE {})
      \cup {k \in Conns : serverAt[k] \notin {"none", "backlog", "end"}}

\* wg.Wait() returns.
Stopped ==
    /\ stopping = "wait" /\ Goroutines = {}
    /\ stopping' = "done"
    /\ UNCHANGED <<serves, tls, start, listener, accept, conns, serverAt, serving, late,
                   wires, client, history>>

----------------------------------------------------------------------------
(* Server: handleConn.                                                     *)

RegisterConn_Not(k) ==
    /\ serverAt[k] = "accepted"
    /\ serverAt' = [serverAt EXCEPT ![k] = "read"]
    /\ UNCHANGED <<serves, tls, start, listener, accept, stopping, conns, serving, late,
                   wires, client, history>>

RegisterConn(k) ==
    /\ serverAt[k] = "accepted"
    /\ serverAt' = [serverAt EXCEPT ![k] = "read"]
    /\ conns' = conns \cup {k}
    /\ UNCHANGED <<serves, tls, start, listener, accept, stopping, serving, late,
                   wires, client, history>>

ReadRequest(k) ==
    /\ serverAt[k] = "read" /\ serverOpen[k]
    /\ requests[k] # <<>>
    /\ serving' = [serving EXCEPT ![k] = Head(requests[k])]
    /\ requests' = [requests EXCEPT ![k] = Tail(@)]
    /\ serverAt' = [serverAt EXCEPT ![k] = IF serves THEN "handle" ELSE "refuse"]
    /\ UNCHANGED <<serves, tls, start, listener, accept, stopping, conns, late,
                   serverOpen, clientOpen, cut, responses, client, history>>

\* handleConn returns: the connection is closed and forgotten.
ConnEnds(k) ==
    /\ serverAt' = [serverAt EXCEPT ![k] = "end"]
    /\ conns' = conns \ {k}
    /\ serverOpen' = [serverOpen EXCEPT ![k] = FALSE]
    /\ UNCHANGED <<serves, tls, start, listener, accept, stopping, serving, late,
                   clientOpen, cut, requests, client, history>>

\* End of file, closed by Shutdown, or no complete message for 30 seconds.
ReadFails(k) ==
    /\ serverAt[k] = "read"
    /\ ConnEnds(k) /\ UNCHANGED responses

\* HandleRPC, begun and not yet answered.
HandleRPC(k) ==
    /\ serverAt[k] = "handle"
    /\ executed' = [executed EXCEPT ![serving[k]] = @ + 1]
    /\ serverAt' = [serverAt EXCEPT ![k] = "respond"]
    /\ UNCHANGED <<serves, tls, start, listener, accept, stopping, conns, serving, late,
                   wires, client, answers>>

\* What the server writes reaches a client that still listens.
Reaches(k) == serverOpen[k] /\ clientOpen[k] /\ ~cut[k]

\* writeMessage of a response, and on to the next request.
Respond(k, ok) ==
    /\ responses' = IF Reaches(k)
                    THEN [responses EXCEPT ![k] = Append(@, [id |-> serving[k], ok |-> ok])]
                    ELSE responses
    /\ serverAt' = [serverAt EXCEPT ![k] = "read"]
    /\ UNCHANGED <<serves, tls, start, listener, accept, stopping, conns, serving, late,
                   serverOpen, clientOpen, cut, requests, client, history>>

\* The result of HandleRPC, or its error, is written.
Answer(k) == serverAt[k] = "respond" /\ serverOpen[k] /\ \E ok \in BOOLEAN : Respond(k, ok)

AnswerFails(k) ==
    /\ serverAt[k] = "respond" /\ ~Reaches(k)
    /\ ConnEnds(k) /\ UNCHANGED responses

\* No handler, or the wrong token: the error is written, if that is possible.
Refuse(k) == serverAt[k] = "refuse" /\ Respond(k, FALSE)
----------------------------------------------------------------------------
(* Client: Call, from the moment it has c.mu to the moment it gives it up. *)

\* A new connection, made by the system as soon as there is a listener.
\* DialTimeout is done with it; tls.Dial goes on with the handshake.
Dial(k) ==
    /\ serverAt[k] = "none" /\ (start = "listening" \/ listener)
    /\ serverAt' = [serverAt EXCEPT ![k] = "backlog"]
    /\ serverOpen' = [serverOpen EXCEPT ![k] = TRUE]
    /\ clientOpen' = [clientOpen EXCEPT ![k] = TRUE]
    /\ UNCHANGED <<serves, tls, start, listener, accept, stopping, conns, serving, late,
                   cut, requests, responses, history>>

\* The bound: an ID is left for everyone who is going to send.
IdLeft == reqID + Cardinality({u \in Users : at[u] = "send"}) < MaxCalls

\* connectLocked; when it fails, Call returns and nothing has changed.
Begin(a) ==
    /\ at[a] = "idle" /\ holder = None /\ IdLeft
    /\ holder' = a
    /\ at' = [at EXCEPT ![a] = "send"]
    /\ \/ /\ clientConn # None
          /\ UNCHANGED <<server, wires, clientConn, shaking, history>>
       \/ /\ clientConn = None
          /\ \E k \in Conns : Dial(k) /\ clientConn' = k
          /\ shaking' = IF tls THEN shaking \cup {a} ELSE shaking
    /\ UNCHANGED <<reqID, mine, stream>>

\* The handshake of u on connection k takes the server's goroutine, which
\* reads, and has no deadline of its own.
Handshake(u, k) ==
    /\ u \in shaking
    /\ serverAt[k] = "read" /\ serverOpen[k] /\ ~cut[k]
    /\ shaking' = shaking \ {u}
    /\ UNCHANGED <<server, wires, holder, clientConn, reqID, at, mine, stream, history>>

\* The server's end is closed, or one of the two refuses the other.
Refused(u, k) == ~cut[k] /\ (~serverOpen[k] \/ (u \in shaking /\ serverAt[k] = "read"))

\* The next RequestID goes out on connection k, unless k no longer carries it.
Write(u, k) ==
    /\ reqID' = reqID + 1
    /\ mine' = [mine EXCEPT ![u] = reqID']
    /\ requests' = IF serverOpen[k] /\ ~cut[k]
                   THEN [requests EXCEPT ![k] = Append(@, reqID')] ELSE requests

Send(a) ==
    /\ at[a] = "send" /\ a \notin shaking
    /\ Write(a, clientConn)
    /\ at' = [at EXCEPT ![a] = "await"]
    /\ UNCHANGED <<server, serverOpen, clientOpen, cut, responses,
                   holder, clientConn, stream, shaking, history>>

\* Call returns with an error and without its connection.
GiveUp(a) ==
    /\ clientOpen' = [clientOpen EXCEPT ![clientConn] = FALSE]
    /\ clientConn' = None
    /\ holder' = None
    /\ at' = [at EXCEPT ![a] = "idle"]
    /\ shaking' = shaking \ {a}
    /\ UNCHANGED <<server, serverOpen, cut, requests, responses, stream, history>>

\* connectLocked returns an error after the connection was made.
HandshakeFails(a) ==
    /\ at[a] = "send" /\ a \in shaking /\ Refused(a, clientConn)
    /\ GiveUp(a) /\ UNCHANGED <<reqID, mine>>

\* The write fails.
SendFails(a) ==
    /\ at[a] = "send" /\ a \notin shaking /\ (~serverOpen[clientConn] \/ cut[clientConn])
    /\ reqID' = reqID + 1
    /\ mine' = [mine EXCEPT ![a] = reqID']
    /\ GiveUp(a)

\* The next response is taken for the answer; its RequestID is not looked at.
Receive(a) ==
    /\ at[a] = "await"
    /\ responses[clientConn] # <<>>
    /\ LET resp == Head(responses[clientConn]) IN
         answers' = IF resp.ok THEN answers \cup {<<mine[a], resp.id>>} ELSE answers
    /\ responses' = [responses EXCEPT ![clientConn] = Tail(@)]
    /\ holder' = None
    /\ at' = [at EXCEPT ![a] = "idle"]
    /\ UNCHANGED <<server, serverOpen, clientOpen, cut, requests,
                   clientConn, reqID, mine, stream, shaking, executed>>

CallFails_KeepsConn(a) ==
    /\ at[a] = "await"
    /\ holder' = None
    /\ at' = [at EXCEPT ![a] = "idle"]
    /\ UNCHANGED <<server, wires, clientConn, reqID, mine, stream, shaking, history>>

CallFails_Resends(a) ==
    /\ at[a] = "await"
    /\ ~serverOpen[clientConn] \/ cut[clientConn]
    /\ \E k \in Conns :
         /\ serverAt[k] = "none" /\ listener
         /\ serverAt' = [serverAt EXCEPT ![k] = "backlog"]
         /\ serverOpen' = [serverOpen EXCEPT ![k] = TRUE]
         /\ clientOpen' = [clientOpen EXCEPT ![clientConn] = FALSE, ![k] = TRUE]
         /\ requests' = [requests EXCEPT ![k] = <<mine[a]>>]
         /\ clientConn' = k
    /\ UNCHANGED <<serves, tls, start, listener, accept, stopping, conns, serving, late,
                   cut, responses, holder, reqID, at, mine, stream, shaking, history>>

CallFails_NoDeadline(a) ==
    /\ at[a] = "await" /\ responses[clientConn] = <<>>
    /\ ~serverOpen[clientConn] /\ ~cut[clientConn]
    /\ GiveUp(a) /\ UNCHANGED <<reqID, mine>>

\* The read fails: closed by the server, or 30 seconds have passed.
CallFails(a) ==
    /\ at[a] = "await"
    /\ GiveUp(a) /\ UNCHANGED <<reqID, mine>>

\* RPCClient.Close
CloseClient ==
    /\ holder = None /\ clientConn # None
    /\ clientOpen' = [clientOpen EXCEPT ![clientConn] = FALSE]
    /\ clientConn' = None
    /\ UNCHANGED <<server, serverOpen, cut, requests, responses,
                   holder, reqID, at, mine, stream, shaking, history>>

----------------------------------------------------------------------------
(* StreamTaskProgress: a connection of its own, without a deadline.        *)

StreamDial(u) ==
    /\ at[u] = "idle" /\ IdLeft
    /\ \E k \in Conns : Dial(k) /\ stream' = [stream EXCEPT ![u] = k]
    /\ at' = [at EXCEPT ![u] = "send"]
    /\ shaking' = IF tls THEN shaking \cup {u} ELSE shaking
    /\ UNCHANGED <<holder, clientConn, reqID, mine>>

StreamSend(u) ==
    /\ at[u] = "send" /\ u \notin shaking /\ holder = None
    /\ Write(u, stream[u])
    /\ at' = [at EXCEPT ![u] = "await"]
    /\ UNCHANGED <<server, serverOpen, clientOpen, cut, responses,
                   holder, clientConn, stream, shaking, history>>

StreamEnds(u) ==
    /\ clientOpen' = [clientOpen EXCEPT ![stream[u]] = FALSE]
    /\ stream' = [stream EXCEPT ![u] = None]
    /\ at' = [at EXCEPT ![u] = "idle"]
    /\ shaking' = shaking \ {u}

\* A message for the callback, which may make an end of it, or an error.
StreamReceive(u) ==
    /\ at[u] = "await" /\ responses[stream[u]] # <<>>
    /\ responses' = [responses EXCEPT ![stream[u]] = Tail(@)]
    /\ \/ Head(responses[stream[u]]).ok /\ UNCHANGED <<clientOpen, stream, shaking, at>>
       \/ StreamEnds(u)
    /\ UNCHANGED <<server, serverOpen, cut, requests,
                   holder, clientConn, reqID, mine, history>>

\* End of file, or the handshake or the write has failed.
StreamFails(u) ==
    /\ at[u] \in {"send", "await"}
    /\ Refused(u, stream[u]) /\ responses[stream[u]] = <<>>
    /\ StreamEnds(u)
    /\ UNCHANGED <<server, serverOpen, cut, requests, responses,
                   holder, clientConn, reqID, mine, history>>

----------------------------------------------------------------------------
\* A connection goes dead with everything that is on its way.
Cut(k) ==
    /\ clientOpen[k] /\ ~cut[k]
    /\ cut' = [cut EXCEPT ![k] = TRUE]
    /\ requests' = [requests EXCEPT ![k] = <<>>]
    /\ responses' = [responses EXCEPT ![k] = <<>>]
    /\ UNCHANGED <<server, serverOpen, clientOpen, client, history>>

ConnStep(k) ==
    \/ RegisterConn(k) \/ ReadRequest(k) \/ ReadFails(k)
    \/ HandleRPC(k) \/ Answer(k) \/ AnswerFails(k) \/ Refuse(k)

CallStep(a) ==
    \/ holder = a /\ Handshake(a, clientConn)
    \/ HandshakeFails(a) \/ Send(a) \/ SendFails(a) \/ Receive(a) \/ CallFails(a)

StreamShakes(u) == at[u] = "send" /\ Handshake(u, stream[u])

StreamStep(u) == StreamShakes(u) \/ StreamSend(u) \/ StreamReceive(u) \/ StreamFails(u)

Next ==
    \/ Listen \/ Started \/ AcceptEnds
    \/ CloseListener \/ CloseConns \/ Stopped
    \/ \E k \in Conns : Accept(k) \/ ConnStep(k) \/ Cut(k)
    \/ \E a \in Callers : Begin(a) \/ CallStep(a)
    \/ \E u \in Streams : StreamDial(u) \/ StreamStep(u)
    \/ CloseClient

\* Goroutines go on when they can, handlers return, deadlines pass.  A read
\* on the server fails in the end if no request ever comes again.
Fairness ==
    /\ WF_vars(Started) /\ WF_vars(AcceptEnds)
    /\ WF_vars(CloseConns) /\ WF_vars(Stopped)
    /\ \A k \in Conns : WF_vars(Accept(k)) /\ WF_vars(ConnStep(k))
    /\ \A a \in Callers : WF_vars(CallStep(a))
    /\ \A u \in Streams : SF_vars(StreamSend(u)) /\ WF_vars(StreamShakes(u) \/ StreamReceive(u) \/ StreamFails(u))

Spec == Init /\ [][Next]_vars /\ Fairness

----------------------------------------------------------------------------
\* A call that succeeds got the answer to its own request, which has been
\* executed, although Call never compares RequestIDs: this rests on c.mu and
\* on giving up the connection after every failure.
OwnAnswer == \A x \in answers : x[2] = x[1] /\ executed[x[1]] = 1

\* No request is executed twice, however the connection fails; a call that
\* returns an error may have been executed or not.
AtMostOnce == \A i \in 1..MaxCalls : executed[i] <= 1

\* Connections that handleConn is working on.
Handled == {k \in Conns : serverAt[k] \notin {"none", "backlog", "end"}}

\* After Shutdown has closed the connections, only those that were accepted
\* but not registered by then are still open on the server's side; when it has
\* returned nothing is handled any more, and no request will be executed:
\* acceptLoop adds to the wait group before it starts the goroutine.
NothingServedAfterShutdown ==
    /\ stopping \in {"wait", "done"} => {k \in Handled : serverOpen[k]} \subseteq late
    /\ stopping = "done" => Handled = {}

\* Nothing comes on connection k: it is dead, or nobody accepts it (the
\* listener of a Start that Shutdown overtook).
Silent(k) == cut[k] \/ serverAt[k] = "backlog"

\* A caller, which holds c.mu, waits for a TLS handshake on such a connection.
Hangs(a) == holder = a /\ a \in shaking /\ Silent(clientConn)

\* The call that holds c.mu returns, whatever happens to the server and the
\* network, and so does Shutdown, unless a late connection keeps it waiting.
\* What may wait for ever has no deadline: a TLS handshake on a silent
\* connection, which keeps c.mu from all others, and a stream on such a one.
CallsAndShutdownReturn ==
    /\ stopping = "wait" /\ late = {} ~> stopping = "done"
    /\ (holder # None ~> holder = None) \/ \E a \in Callers : <>[]Hangs(a)
    /\ \/ \A u \in Streams : at[u] # "idle" ~> at[u] = "idle"
       \/ \E u \in Streams, k \in Conns : <>[](stream[u] = k /\ Silent(k))
       \/ \E a \in Callers : <>[]Hangs(a)
============================================================================
