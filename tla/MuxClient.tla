------------------------------ MODULE MuxClient ------------------------------
(***************************************************************************)
(* transport::runtime: one MuxClient shared by concurrent calls, the       *)
(* connections it dials (each with its write loop, read loop and keepalive *)
(* task) and the Server at the other end.                                  *)
(*                                                                         *)
(* A frame is identified by what its corr_id stands for: a try of a call,  *)
(* <<k, 1>> or <<k, 2>>, or the keepalive's ping.  Deadlines (prazo,       *)
(* KEEPALIVE_TIMEOUT) may pass at any moment.  Left out: frames that do not *)
(* decode, and the end of the loops of a connection nobody holds any more. *)
(***************************************************************************)
EXTENDS Naturals, FiniteSets

CONSTANTS Calls,       \* concurrent calls
          Ping,        \* the corr_id of keepalive frames
          MaxDials,    \* bound on the connections established
          Capacity,    \* frames a connection takes while its peer does not read
          FaultKinds,  \* subset of {"server", "cut", "stall"}
          MaxFaults    \* bound on the number of failures

ASSUME MuxAssumption ==
    /\ Ping \notin Calls \X {1, 2}
    /\ MaxDials \in Nat \ {0}
    /\ Capacity \in Nat \ {0}
    /\ MaxFaults \in Nat

Conns  == 1 .. MaxDials
Frames == (Calls \X {1, 2}) \cup {Ping}

VARIABLES
    \* MuxClient
    conexao,      \* the cached connection; 0: None
    dials,        \* connections established so far: 1 .. dials
    \* per connection (Conexao and its tasks)
    saudavel,     \* connections flagged healthy
    pendentes,    \* pendentes[c]: frames whose reply is awaited
    queue,        \* queue[c]: frames accepted and not yet read by the peer
    writing,      \* connections whose write loop runs
    reading,      \* connections whose read loop runs
    keepalive,    \* keepalive[c]: where iniciar_keepalive's task stands
    \* the other end
    up,           \* the server accepts connections
    peer,         \* peer[c]: the server's end of the connection
    requests,     \* <<c, f>>: frame read by the server, not answered yet
    replies,      \* <<c, f>>: answer on its way back
    executed,     \* executed[k]: times the handler ran for call k
    \* MuxClient::call
    pc, try, on,  \* where k stands, in which try, on which connection
    faults        \* failures so far

clientVars == <<conexao, dials>>
connVars   == <<saudavel, pendentes, queue, writing, reading, keepalive>>
serverVars == <<up, peer, requests, replies, executed>>
callVars   == <<pc, try, on>>
vars == <<conexao, dials, saudavel, pendentes, queue, writing, reading, keepalive,
          up, peer, requests, replies, executed, pc, try, on, faults>>

Returned == {"ok", "timeout", "closed"}
CallPc   == {"start", "enqueue", "wait", "expired", "invalidate"} \cup Returned

TypeOK ==
    /\ conexao \in 0 .. MaxDials
    /\ dials \in Conns
    /\ saudavel \in SUBSET Conns
    /\ pendentes \in [Conns -> SUBSET Frames]
    /\ queue \in [Conns -> SUBSET Frames]
    /\ \A c \in Conns : Cardinality(queue[c]) <= Capacity
    /\ writing \in SUBSET Conns
    /\ reading \in SUBSET Conns
    /\ keepalive \in [Conns -> {"idle", "enqueue", "wait", "off"}]
    /\ up \in BOOLEAN
    /\ peer \in [Conns -> {"none", "open", "stalled", "closed"}]
    /\ requests \in SUBSET (Conns \X Frames)
    /\ replies \in SUBSET (Conns \X Frames)
    /\ executed \in [Calls -> Nat]
    /\ pc \in [Calls -> CallPc]
    /\ try \in [Calls -> {1, 2}]
    /\ on \in [Calls -> 0 .. MaxDials]
    /\ faults \in 0 .. MaxFaults

\* conectar has established the first connection.
Init ==
    /\ conexao = 1
    /\ dials = 1
    /\ saudavel = {1}
    /\ pendentes = [c \in Conns |-> {}]
    /\ queue = [c \in Conns |-> {}]
    /\ writing = {1}
    /\ reading = {1}
    /\ keepalive = [c \in Conns |-> IF c = 1 THEN "idle" ELSE "off"]
    /\ up = TRUE
    /\ peer = [c \in Conns |-> IF c = 1 THEN "open" ELSE "none"]
    /\ requests = {}
    /\ replies = {}
    /\ executed = [k \in Calls |-> 0]
    /\ pc = [k \in Calls |-> "start"]
    /\ try = [k \in Calls |-> 1]
    /\ on = [k \in Calls |-> 0]
    /\ faults = 0

Fault(kind) ==
    /\ kind \in FaultKinds
    /\ faults < MaxFaults
    /\ faults' = faults + 1

-----------------------------------------------------------------------------
(***************************************************************************)
(* MuxClient::call                                                         *)
(***************************************************************************)
Frame(k) == <<k, try[k]>>
Usable   == conexao # 0 /\ conexao \in saudavel

\* enviar registers the call before it sends.
Register(k, c) ==
    /\ pendentes' = [pendentes EXCEPT ![c] = @ \cup {Frame(k)}]
    /\ on' = [on EXCEPT ![k] = c]
    /\ pc' = [pc EXCEPT ![k] = "enqueue"]

\* garantir_conexao finds the cached connection healthy.
UseCached(k) ==
    /\ pc[k] = "start"
    /\ Usable
    /\ Register(k, conexao)
    /\ UNCHANGED <<clientVars, saudavel, queue, writing, reading, keepalive, serverVars,
                   try, faults>>

\* garantir_conexao reconnects, under the lock: one of the dials succeeds.
Dial(k) ==
    /\ pc[k] = "start"
    /\ ~Usable
    /\ up
    /\ dials < MaxDials
    /\ LET c == dials + 1 IN
          /\ dials' = c
          /\ conexao' = c
          /\ saudavel' = saudavel \cup {c}
          /\ writing' = writing \cup {c}
          /\ reading' = reading \cup {c}
          /\ keepalive' = [keepalive EXCEPT ![c] = "idle"]
          /\ peer' = [peer EXCEPT ![c] = "open"]
          /\ Register(k, c)
    /\ UNCHANGED <<queue, up, requests, replies, executed, try, faults>>

\* A plausible slip: reconnecting without MAX_TENTATIVAS_RECONEXAO.
DialFailsForever(k) ==
    /\ pc[k] = "start"
    /\ ~Usable
    /\ ~up \/ dials = MaxDials
    /\ UNCHANGED vars

\* All MAX_TENTATIVAS_RECONEXAO dials fail: Err(Closed).  The model lets them
\* fail at its bound on the connections, too.
DialFails(k) ==
    /\ pc[k] = "start"
    /\ ~Usable
    /\ ~up \/ dials = MaxDials
    /\ pc' = [pc EXCEPT ![k] = "closed"]
    /\ UNCHANGED <<clientVars, connVars, serverVars, try, on, faults>>

\* A plausible slip: an unbounded channel.
EnqueueUnbounded(k) ==
    /\ pc[k] = "enqueue"
    /\ on[k] \in writing
    /\ queue' = [queue EXCEPT ![on[k]] = @ \cup {Frame(k)}]
    /\ pc' = [pc EXCEPT ![k] = "wait"]
    /\ UNCHANGED <<clientVars, saudavel, pendentes, writing, reading, keepalive, serverVars,
                   try, on, faults>>

\* tx.send: the channel has room (send waits for it otherwise).
Enqueue(k) ==
    /\ pc[k] = "enqueue"
    /\ on[k] \in writing
    /\ Cardinality(queue[on[k]]) < Capacity
    /\ queue' = [queue EXCEPT ![on[k]] = @ \cup {Frame(k)}]
    /\ pc' = [pc EXCEPT ![k] = "wait"]
    /\ UNCHANGED <<clientVars, saudavel, pendentes, writing, reading, keepalive, serverVars,
                   try, on, faults>>

\* A plausible slip: the registration of the refused frame is left behind.
EnqueueClosedLeaks(k) ==
    /\ pc[k] = "enqueue"
    /\ on[k] \notin writing
    /\ saudavel' = saudavel \ {on[k]}
    /\ pc' = [pc EXCEPT ![k] = "invalidate"]
    /\ UNCHANGED <<clientVars, pendentes, queue, writing, reading, keepalive, serverVars,
                   try, on, faults>>

\* tx.send fails, the write loop is gone: the frame was not accepted.
EnqueueClosed(k) ==
    /\ pc[k] = "enqueue"
    /\ on[k] \notin writing
    /\ pendentes' = [pendentes EXCEPT ![on[k]] = @ \ {Frame(k)}]
    /\ saudavel' = saudavel \ {on[k]}
    /\ pc' = [pc EXCEPT ![k] = "invalidate"]
    /\ UNCHANGED <<clientVars, queue, writing, reading, keepalive, serverVars,
                   try, on, faults>>

\* invalidar_conexao clears whatever is cached by then; the second failure of
\* the loop is Err(Closed).
Invalidate(k) ==
    /\ pc[k] = "invalidate"
    /\ conexao' = 0
    /\ IF try[k] = 1
       THEN pc' = [pc EXCEPT ![k] = "start"] /\ try' = [try EXCEPT ![k] = 2]
       ELSE pc' = [pc EXCEPT ![k] = "closed"] /\ try' = try
    /\ UNCHANGED <<dials, connVars, serverVars, on, faults>>

\* prazo is over.
Expire(k) ==
    /\ pc[k] = "wait"
    /\ pc' = [pc EXCEPT ![k] = "expired"]
    /\ UNCHANGED <<clientVars, connVars, serverVars, try, on, faults>>

\* remover_pendente, and Err(Timeout).
Unregister(k) ==
    /\ pc[k] = "expired"
    /\ pendentes' = [pendentes EXCEPT ![on[k]] = @ \ {Frame(k)}]
    /\ pc' = [pc EXCEPT ![k] = "timeout"]
    /\ UNCHANGED <<clientVars, saudavel, queue, writing, reading, keepalive, serverVars,
                   try, on, faults>>

-----------------------------------------------------------------------------
(***************************************************************************)
(* The tasks of a connection                                               *)
(***************************************************************************)

\* The write loop: one frame into the socket, where the server reads it.
Write(c) ==
    /\ c \in writing
    /\ peer[c] = "open"
    /\ \E f \in queue[c] :
          /\ queue' = [queue EXCEPT ![c] = @ \ {f}]
          /\ requests' = requests \cup {<<c, f>>}
    /\ UNCHANGED <<clientVars, saudavel, pendentes, writing, reading, keepalive,
                   up, peer, replies, executed, callVars, faults>>

\* The same into a closed socket: the frame is lost, or the write fails and the
\* loop ends, with whatever the channel still held.
WriteLost(c) ==
    /\ c \in writing
    /\ peer[c] = "closed"
    /\ queue[c] # {}
    /\ \/ /\ \E f \in queue[c] : queue' = [queue EXCEPT ![c] = @ \ {f}]
          /\ UNCHANGED <<writing, saudavel>>
       \/ /\ queue' = [queue EXCEPT ![c] = {}]
          /\ writing' = writing \ {c}
          /\ saudavel' = saudavel \ {c}
    /\ UNCHANGED <<clientVars, pendentes, reading, keepalive, serverVars, callVars, faults>>

\* The read loop: a reply wakes the call (or the keepalive) registered for it;
\* nobody is registered any more for a late one.
ReadReply(c) ==
    /\ c \in reading
    /\ \E f \in Frames :
          /\ <<c, f>> \in replies
          /\ replies' = replies \ {<<c, f>>}
          /\ pendentes' = [pendentes EXCEPT ![c] = @ \ {f}]
          /\ pc' = [k \in Calls |->
                       IF f = Frame(k) /\ f \in pendentes[c] /\ pc[k] = "wait"
                       THEN "ok" ELSE pc[k]]
          /\ keepalive' = [keepalive EXCEPT ![c] =
                              IF f = Ping /\ f \in pendentes[c] /\ @ = "wait"
                              THEN "idle" ELSE @]
    /\ UNCHANGED <<clientVars, saudavel, queue, writing, reading, up, peer, requests,
                   executed, try, on, faults>>

\* Plausible slips, both what the comment of call() expects: the pending
\* senders are dropped with the read loop; and the calls they belong to retry.
ReadEndsDrains(c) ==
    /\ c \in reading
    /\ peer[c] = "closed"
    /\ reading' = reading \ {c}
    /\ saudavel' = saudavel \ {c}
    /\ pendentes' = [pendentes EXCEPT ![c] = {}]
    /\ UNCHANGED <<clientVars, queue, writing, keepalive, serverVars, callVars, faults>>
ReadEndsRetries(c) ==
    /\ c \in reading
    /\ peer[c] = "closed"
    /\ reading' = reading \ {c}
    /\ saudavel' = saudavel \ {c}
    /\ pc' = [k \in Calls |-> IF pc[k] = "wait" /\ on[k] = c THEN "invalidate" ELSE pc[k]]
    /\ UNCHANGED <<clientVars, pendentes, queue, writing, keepalive, serverVars, try, on, faults>>

\* The read loop ends with the connection; it drops its reference to pendentes,
\* whose senders stay alive in the Conexao that the waiting calls hold.
ReadEnds(c) ==
    /\ c \in reading
    /\ peer[c] = "closed"
    /\ reading' = reading \ {c}
    /\ saudavel' = saudavel \ {c}
    /\ UNCHANGED <<clientVars, pendentes, queue, writing, keepalive, serverVars, callVars,
                   faults>>

\* KEEPALIVE_INTERVALO has passed.
Tick(c) ==
    /\ keepalive[c] = "idle"
    /\ IF c \in saudavel
       THEN /\ keepalive' = [keepalive EXCEPT ![c] = "enqueue"]
            /\ pendentes' = [pendentes EXCEPT ![c] = @ \cup {Ping}]
       ELSE /\ keepalive' = [keepalive EXCEPT ![c] = "off"]
            /\ pendentes' = pendentes
    /\ UNCHANGED <<clientVars, saudavel, queue, writing, reading, serverVars, callVars, faults>>

\* The ping goes through the same channel as the calls.
EnqueuePing(c) ==
    /\ keepalive[c] = "enqueue"
    /\ c \in writing
    /\ Cardinality(queue[c]) < Capacity
    /\ queue' = [queue EXCEPT ![c] = @ \cup {Ping}]
    /\ keepalive' = [keepalive EXCEPT ![c] = "wait"]
    /\ UNCHANGED <<clientVars, saudavel, pendentes, writing, reading, serverVars, callVars,
                   faults>>

\* A plausible slip: the missing PONG only ends the task.
NoPongUnmarked(c) ==
    /\ \/ keepalive[c] = "enqueue" /\ c \notin writing
       \/ keepalive[c] = "wait"
    /\ pendentes' = [pendentes EXCEPT ![c] = @ \ {Ping}]
    /\ keepalive' = [keepalive EXCEPT ![c] = "off"]
    /\ UNCHANGED <<clientVars, saudavel, queue, writing, reading, serverVars, callVars, faults>>

\* The ping is refused, or no PONG comes in KEEPALIVE_TIMEOUT: marcar_morta.
NoPong(c) ==
    /\ \/ keepalive[c] = "enqueue" /\ c \notin writing
       \/ keepalive[c] = "wait"
    /\ pendentes' = [pendentes EXCEPT ![c] = @ \ {Ping}]
    /\ saudavel' = saudavel \ {c}
    /\ keepalive' = [keepalive EXCEPT ![c] = "off"]
    /\ UNCHANGED <<clientVars, queue, writing, reading, serverVars, callVars, faults>>

-----------------------------------------------------------------------------
(***************************************************************************)
(* Server                                                                  *)
(***************************************************************************)

\* handle_connection answers a ping, or a task runs the handler to its end; the
\* answer to a connection that has closed meanwhile goes nowhere.
Serve(c) ==
    /\ peer[c] # "stalled"
    /\ \E f \in Frames :
          /\ <<c, f>> \in requests
          /\ requests' = requests \ {<<c, f>>}
          /\ executed' = [k \in Calls |->
                             executed[k] + IF f \in {<<k, 1>>, <<k, 2>>} THEN 1 ELSE 0]
          /\ replies' = IF peer[c] = "open" THEN replies \cup {<<c, f>>} ELSE replies
    /\ UNCHANGED <<clientVars, connVars, up, peer, callVars, faults>>

\* The server process dies, and with it its connections and running handlers.
ServerStops ==
    /\ up
    /\ Fault("server")
    /\ up' = FALSE
    /\ peer' = [c \in Conns |-> IF peer[c] = "none" THEN "none" ELSE "closed"]
    /\ requests' = {}
    /\ UNCHANGED <<clientVars, connVars, replies, executed, callVars>>

ServerStarts ==
    /\ ~up
    /\ up' = TRUE
    /\ UNCHANGED <<clientVars, connVars, peer, requests, replies, executed, callVars, faults>>

\* One connection is reset; the handlers it started run on.
Cut(c) ==
    /\ peer[c] = "open"
    /\ Fault("cut")
    /\ peer' = [peer EXCEPT ![c] = "closed"]
    /\ UNCHANGED <<clientVars, connVars, up, requests, replies, executed, callVars>>

\* The peer neither reads nor answers any more, and the connection stays open.
Stall(c) ==
    /\ peer[c] = "open"
    /\ Fault("stall")
    /\ peer' = [peer EXCEPT ![c] = "stalled"]
    /\ UNCHANGED <<clientVars, connVars, up, requests, replies, executed, callVars>>

-----------------------------------------------------------------------------
CallStep(k) ==
    \/ UseCached(k) \/ Dial(k) \/ DialFails(k) \/ Enqueue(k) \/ EnqueueClosed(k)
    \/ Invalidate(k) \/ Expire(k) \/ Unregister(k)

WriteLoop(c)     == Write(c) \/ WriteLost(c)
ReadLoop(c)      == ReadReply(c) \/ ReadEnds(c)
KeepaliveStep(c) == Tick(c) \/ EnqueuePing(c) \/ NoPong(c)

Environment ==
    \/ ServerStops \/ ServerStarts
    \/ \E c \in Conns : Serve(c) \/ Cut(c) \/ Stall(c)

Next ==
    \/ \E k \in Calls : CallStep(k)
    \/ \E c \in Conns : WriteLoop(c) \/ ReadLoop(c) \/ KeepaliveStep(c)
    \/ Environment

Spec == Init /\ [][Next]_vars

\* tokio polls every task of the client process and fires its timers, and its
\* mpsc channel serves the senders that wait for room in order (SF: room comes
\* and goes); nothing is assumed of the server.
FairSpec ==
    /\ Spec
    /\ \A k \in Calls : WF_vars(CallStep(k)) /\ SF_vars(Enqueue(k))
    /\ \A c \in Conns :
          /\ WF_vars(WriteLoop(c)) /\ WF_vars(ReadLoop(c))
          /\ WF_vars(KeepaliveStep(c)) /\ SF_vars(EnqueuePing(c))

-----------------------------------------------------------------------------
(***************************************************************************)
(* Properties                                                              *)
(***************************************************************************)

\* A call that waits is registered, whatever happened to its connection: its
\* sender is never dropped, and the branch Ok(Err(_)) of call() (lines 297-301)
\* is unreachable.
WaitingIsRegistered ==
    \A k \in Calls : pc[k] = "wait" => Frame(k) \in pendentes[on[k]]

\* The retry of call() never makes the server run a request twice: only a frame
\* that was not accepted is sent again.
ExecutedAtMostOnce == \A k \in Calls : executed[k] <= 1

\* No registration outlives its call: the map of a long-lived connection does
\* not grow with timeouts, refused frames and late replies.
NoOrphanPending ==
    \A c \in Conns : \A f \in pendentes[c] :
        \/ f = Ping /\ keepalive[c] \in {"enqueue", "wait"}
        \/ \E k \in Calls : /\ f = Frame(k) /\ on[k] = c
                            /\ pc[k] \in {"enqueue", "wait", "expired"}

\* The peer of c has stopped reading and the channel is full: whoever sends on c
\* waits in tx.send, which no deadline covers.
Jammed(c) == peer[c] = "stalled" /\ Cardinality(queue[c]) = Capacity

\* call() returns, a reply or an error, whatever its connections do.  The one
\* exception is where prazo does not reach: it stays in enviar for as long as
\* its connection is jammed.
CallReturns ==
    \A k \in Calls :
        <>(pc[k] \in Returned \/ [](pc[k] = "enqueue" /\ Jammed(on[k])))

\* A peer that has gone silent is detected by the keepalive, unless the ping
\* itself waits in the jammed channel (enviar again, before KEEPALIVE_TIMEOUT).
SilenceIsDetected ==
    \A c \in Conns :
        peer[c] = "stalled" ~> \/ c \notin saudavel
                               \/ keepalive[c] = "enqueue" /\ Jammed(c)
=============================================================================
